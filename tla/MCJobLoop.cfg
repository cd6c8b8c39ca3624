SPECIFICATION FairSpec
CHECK_DEADLOCK FALSE
CONSTANTS
  None = None
  Start = 9
  MaxClock = 13
  Ends = {13, 15}
  MaxLag = 1
  Poll = 2
  EndMinGap = 1
  AliveEvery = 1
  AliveMisses = 2
  WarnYellow = 5
  WarnRed = 4
  Grace = 3
  WalltimeWarn = 4
  WalltimeRed = 3
  SendOk = 1
  Pauses = {2}
  StaleAfter = 1
INVARIANTS
  TypeOK FileHonest ReaderContract EndingIsFounded EndingIsNear EndsBeforeDeadline
PROPERTIES
  RedIsConfirmed LoopEnds
