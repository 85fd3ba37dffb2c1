SPECIFICATION FairSpec
CONSTANTS
  Windows = 2
  Epochs = {1, 2}
  Lookbacks = {0, 2}
  Offsets = {0, 1}
  Caps = {0, 1}
  Retries = 1
  RetryAfter = 1
  MaxClock = 2
  MaxUpsets = 2
INVARIANTS
  WindowTellsRuns
  BackfillSerial
  ChainAlive
  DependencyHolds
PROPERTIES
  EveryWindowSettles
CHECK_DEADLOCK FALSE
