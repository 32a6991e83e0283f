SPECIFICATION FairSpec
CONSTANTS
  Timeouts <- SomeTimeouts
  Latency = 2
  MaxTime = 330
INVARIANTS
  TypeOK
  SleepsForward
  EndsInTime
  NoEarlyGiveUp
PROPERTIES
  AsksApart
  Ends
CHECK_DEADLOCK FALSE
