SPECIFICATION Spec
CONSTANTS
  Calls = {w}
  Detached = {}
  Contracts = {}
  MaxCrashes = 1
  MaxFaults = 1
INVARIANT
  OrphanNeverWorks
CHECK_DEADLOCK FALSE
