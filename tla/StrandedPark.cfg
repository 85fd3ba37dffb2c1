CONSTANTS
  left = left
  right = right
  after = after
  pause = pause
  pause2 = pause2
  Nodes = {right, pause, after}
  Waits = {pause}
  Deps <- BesideDeps
  Anc <- BesideAnc
  Budget <- NoRetry
  Idempotent = {}
  Cap = 2
  MaxCrashes = 1
  MaxFaults = 0
SPECIFICATION Spec
INVARIANTS
  WaitingHasLiveAlarm
CHECK_DEADLOCK FALSE
