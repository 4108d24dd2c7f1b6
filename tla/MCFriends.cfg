SPECIFICATION Spec
CONSTANTS
  Name = {alice, bob, carol}
  Empty = Empty
  Sd = {s1}
  NoSd = NoSd
  Password <- OnePassword
  Digest <- OneDigest
  HashOf <- OnlyHash
  Email = {alice, bob, carol}
  InitialUsers <- EverybodyRegistered
  Content = {"hello"}
  MaxClients = 1
  Commands <- FriendCommands
  MaxConversations = 0
  MaxMessages = 0
  MaxPosts = 1
  MaxGroup = 0
SYMMETRY Interchangeable
INVARIANTS TypeOK AcceptedIsAnswered ListedPostsAreAllowed
PROPERTIES ConsentSpec
