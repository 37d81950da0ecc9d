CONSTANTS
  Interval = 4
  MaxDelay = 4
  MaxLatency = 3
  Versions = 3
  ChanCap = 3
SPECIFICATION FairSpec
INVARIANTS
  TypeOK
  NoFalseAlarm
  SilenceIsBounded
PROPERTIES
  SilentRouterIsGivenUp
CHECK_DEADLOCK FALSE
