SPECIFICATION FaultySpec
CONSTANTS
  Name = {alice, bob}
  Empty = Empty
  Sd = {s1, s2}
  NoSd = NoSd
  Password <- OnePassword
  Digest <- OneDigest
  HashOf <- OnlyHash
  Email = {"mail1", "mail2"}
  InitialUsers <- NoAccounts
  Content = {"hello"}
  MaxClients = 1
  Commands <- FaultyCommands
  MaxConversations = 1
  MaxMessages = 1
  MaxPosts = 0
  MaxGroup = 1
  MaxFaults = 2
SYMMETRY Interchangeable
INVARIANTS ReferentialIntegrity DamageStaysLocal
PROPERTIES AccountsChangeByTheirOwner
