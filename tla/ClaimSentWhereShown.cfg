SPECIFICATION DesktopSpec
CONSTANTS
  Name <- TwoWords
  Empty = Empty
  Sd = {s1}
  NoSd = NoSd
  Password <- TwoWords
  Digest <- TwoWords
  HashOf <- PlainWord
  Email = {"normal", "public"}
  InitialUsers <- TwoAccounts
  Content <- Lines
  MaxClients = 1
  Commands = {}
  MaxConversations = 2
  MaxMessages = 1
  MaxPosts = 0
  MaxGroup = 0
  MaxCrashes = 0
  MaxPeers = 0
  PeerText = {}
  PeerRoom = 0
  Button = {"messages", "chat", "group"}
  Entry <- OneWord
  Mail = {}
  Text <- TwoLines
  NoWindow = NoWindow
  Window = {w1}
PROPERTIES SentWhereShown
