SPECIFICATION Spec
CONSTANTS
  Conn = {c1, c2}
  Room = 2
  Queue = 1
  MAX_CLIENTS = 2
  FdLimit = 3
  ReplyPieces = {1, 2}
  CommandPieces = {1}
  MaxCommands = 2
  Kills = FALSE
INVARIANTS ExitsAreHarmless
