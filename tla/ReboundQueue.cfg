CONSTANTS
  hook = hook
  tick = tick
  flow = flow
  other = other
  Triggers = {hook}
  Pipelines = {flow, other}
  NoTrigger = NoTrigger
  Binding <- AllOnFlow
  Policy <- HookAndSkip
  ConcMax <- TickTwice
  PipeCap <- OneSlot
  MaxQueueDepth = 2
  MaxRuns = 3
  MaxManual = 0
  MaxParks = 0
  MaxHolds = 0
  MaxRebinds = 1
  MaxStops = 0
SPECIFICATION FairSpec
PROPERTIES
  FairLaunch
CHECK_DEADLOCK FALSE
