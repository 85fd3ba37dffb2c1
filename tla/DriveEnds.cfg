CONSTANTS
  left = left
  right = right
  after = after
  pause = pause
  pause2 = pause2
  Nodes = {left, right, pause}
  Waits = {pause}
  Deps <- MeetDeps
  Anc <- MeetAnc
  Budget <- RetryOnce
  Idempotent = {right}
  Cap = 1
  MaxCrashes = 2
  MaxFaults = 0
SPECIFICATION FairSpec
INVARIANTS
  WaitingHasLiveAlarm
PROPERTIES
  Terminates
