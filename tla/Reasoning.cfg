SPECIFICATION FairSpec
CONSTANTS
  Sessions = {s1, s2}
  MaxInputs = 2
  MaxBoots = 2
INVARIANTS
  OneLoopPerSession
  NoLostWakeup
  TurnsArePaidFor
  ClosedIsQuiet
PROPERTIES
  EveryRowRead
  CloseReturns
CHECK_DEADLOCK FALSE
