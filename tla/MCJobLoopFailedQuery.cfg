SPECIFICATION Spec
CHECK_DEADLOCK FALSE
CONSTANTS
  None = None
  Ends = {13, 16}
  Start = 10
  MaxClock = 19
  MaxLag = 1
  Poll = 3
  EndMinGap = 2
  AliveEvery = 2
  AliveMisses = 2
  WarnYellow = 6
  WarnRed = 4
  Grace = 2
  WalltimeWarn = 5
  WalltimeRed = 3
  SendOk = 2
  Pauses = {2}
  StaleAfter = 4
PROPERTY FailedQueryLeavesFile
