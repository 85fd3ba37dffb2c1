SPECIFICATION FairSpec
CONSTANTS
  Calls = {w, d}
  Detached = {d}
  Contracts = {w, d}
  MaxCrashes = 1
  MaxFaults = 1
INVARIANTS
  CallTellsChild
  DetachedOutlives
  RunsAnnounced
PROPERTIES
  OverIsOver
  ResultArrives
  EndStopsChildren
  DetachedStarts
CHECK_DEADLOCK FALSE
