SPECIFICATION TimedSpec
CONSTANTS
  Name <- TwoWords
  Empty = Empty
  Sd = {s1, s2}
  NoSd = NoSd
  Password <- TwoWords
  Digest <- TwoWords
  HashOf <- PlainWord
  Email = {"normal", "public"}
  InitialUsers <- TwoAccounts
  Content <- OneText
  MaxClients = 2
  Commands = {"login", "add_friend", "accept_friend"}
  MaxConversations = 0
  MaxMessages = 0
  MaxPosts = 1
  MaxGroup = 0
  MaxCrashes = 0
  MaxPeers = 1
  PeerText = {}
  PeerRoom = 0
  Button = {"requests", "add_friend", "friend_type", "post"}
  Entry <- OneWord
  Mail = {}
  Text <- OneText
  NoWindow = NoWindow
  Window = {}
PROPERTIES FriendsAreListed
