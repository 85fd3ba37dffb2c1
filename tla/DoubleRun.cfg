CONSTANTS
  left = left
  right = right
  after = after
  pause = pause
  pause2 = pause2
  Nodes = {right, pause, pause2, after}
  Waits = {pause, pause2}
  Deps <- BesideDeps
  Anc <- BesideAnc
  Budget <- NoRetry
  Idempotent = {}
  Cap = 2
  MaxCrashes = 0
  MaxFaults = 0
SPECIFICATION Spec
INVARIANTS
  AttemptOnce
CHECK_DEADLOCK FALSE
