SPECIFICATION RetrySpec
CONSTANTS
  Name <- Words
  Empty = Empty
  Sd = {s1}
  NoSd = NoSd
  Password <- Words
  Digest <- Words
  HashOf <- SameWord
  Email <- Words
  InitialUsers <- OneAccount
  Content = {}
  MaxClients = 1
  Commands = {}
  MaxConversations = 0
  MaxMessages = 0
  MaxPosts = 0
  MaxGroup = 0
  MaxCrashes = 1
  MaxPeers = 0
  PeerText = {}
  PeerRoom = 0
  Button = {"register", "guest", "logout", "quit", "reload"}
  Entry <- SeveralWords
  Mail <- OneMail
  Text = {}
  NoWindow = NoWindow
  Window = {}
INVARIANTS WindowMatchesSession RegisteredCanLogIn
PROPERTIES BackOnline
