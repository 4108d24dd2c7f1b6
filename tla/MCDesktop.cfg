SPECIFICATION TimedSpec
CONSTANTS
  Name <- TwoWords
  Empty = Empty
  Sd = {s1, s2}
  NoSd = NoSd
  Password <- TwoWords
  Digest <- TwoWords
  HashOf <- PlainWord
  Email = {"normal", "public"}
  InitialUsers <- TwoAccounts
  Content <- Lines
  MaxClients = 2
  Commands = {"login", "open", "send"}
  MaxConversations = 1
  MaxMessages = 3
  MaxPosts = 0
  MaxGroup = 0
  MaxCrashes = 1
  MaxPeers = 1
  PeerText <- PeerLines
  PeerRoom = 1
  Button = {"messages", "chat", "group"}
  Entry <- OneWord
  Mail = {}
  Text <- TwoLines
  NoWindow = NoWindow
  Window = {w1}
INVARIANTS TypedIsKept OneMorePerCrash
PROPERTIES NewMessagesAreShown
