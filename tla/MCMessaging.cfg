SPECIFICATION Spec
CONSTANTS
  Name = {alice, bob, carol}
  Empty = Empty
  Sd = {s1, s2}
  NoSd = NoSd
  Password <- OnePassword
  Digest <- OneDigest
  HashOf <- OnlyHash
  Email = {alice, bob, carol}
  InitialUsers <- EverybodyRegistered
  Content = {"hello"}
  MaxClients = 2
  Commands <- MessagingCommands
  MaxConversations = 2
  MaxMessages = 2
  MaxPosts = 0
  MaxGroup = 2
SYMMETRY Interchangeable
INVARIANTS SessionsAreLive OpenConversationIsOwn ShownToParticipants
PROPERTIES AccessSpec
