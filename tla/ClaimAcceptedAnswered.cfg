SPECIFICATION FairSpec
CONSTANTS
  Conn = {c1, c2}
  Room = 1
  Queue = 2
  MAX_CLIENTS = 1
  FdLimit = 4
  ReplyPieces = {1}
  CommandPieces = {1}
  MaxCommands = 1
  Kills = FALSE
PROPERTIES AcceptedAreAnswered
