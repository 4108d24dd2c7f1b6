SPECIFICATION Spec
CONSTANTS
  Name = {alice, bob}
  Empty = Empty
  Sd = {s1}
  NoSd = NoSd
  Password <- OnePassword
  Digest <- OneDigest
  HashOf <- OnlyHash
  Email = {alice, bob}
  InitialUsers <- EverybodyRegistered
  Content = {"hello"}
  MaxClients = 1
  Commands <- FriendshipCommands
  MaxConversations = 0
  MaxMessages = 0
  MaxPosts = 0
  MaxGroup = 0
SYMMETRY Interchangeable
INVARIANTS FriendshipSymmetric
