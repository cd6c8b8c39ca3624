SPECIFICATION FairSpec
CHECK_DEADLOCK FALSE
CONSTANTS
  MaxEvents = 3
  MayBeKilled = FALSE
INVARIANT EverythingPrinted
