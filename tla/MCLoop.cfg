SPECIFICATION Spec
CONSTANTS
  Conn = {c1, c2, c3, c4}
  Room = 2
  Queue = 1
  MAX_CLIENTS = 2
  FdLimit = 4
  ReplyPieces = {1, 2}
  CommandPieces = {0, 1, 2}
  MaxCommands = 1
  Kills = TRUE
SYMMETRY Interchangeable
INVARIANTS TypeOK SlotsMatchDescriptors ReadNeverBlocks
\* The server may have ended.
CHECK_DEADLOCK FALSE
