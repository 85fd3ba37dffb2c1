SPECIFICATION FairSpec
CONSTANTS
  Windows = 2
  Epochs = {1, 2}
  Lookbacks = {1}
  Offsets = {0}
  Caps = {0, 1}
  Retries = 1
  RetryAfter = 1
  MaxClock = 2
  MaxUpsets = 1
PROPERTIES
  SkippedStaysSkipped
CHECK_DEADLOCK FALSE
