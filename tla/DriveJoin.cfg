CONSTANTS
  left = left
  right = right
  after = after
  pause = pause
  pause2 = pause2
  Nodes = {left, right, after}
  Waits = {}
  Deps <- JoinDeps
  Anc <- JoinAnc
  Budget <- RetryOnce
  Idempotent = {right}
  Cap = 2
  MaxCrashes = 1
  MaxFaults = 2
SPECIFICATION Spec
INVARIANTS
  AttemptOnce
  EffectLeavesDispatched
  NonIdempotentOnce
  StaleHasDrive
  EndIsTrue
  IntentHasTaker
PROPERTIES
  CancelStopsWork
  ImplementsLifecycle
CHECK_DEADLOCK FALSE
