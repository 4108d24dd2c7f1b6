SPECIFICATION FairSpec
CONSTANTS
  Conn = {c1, c2, c3}
  Room = 1
  Queue = 2
  MAX_CLIENTS = 3
  FdLimit = 4
  ReplyPieces = {1}
  CommandPieces = {1}
  MaxCommands = 2
  Kills = FALSE
INVARIANTS SendNeverBlocks AnswerIsForCommand ServerStaysUp
PROPERTIES AnsweredOnce SlottedAreAnswered QueuedAreAccepted LeftAreReleased
