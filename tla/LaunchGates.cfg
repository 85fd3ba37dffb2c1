CONSTANTS
  hook = hook
  tick = tick
  flow = flow
  other = other
  Triggers = {hook, tick}
  Pipelines = {flow}
  NoTrigger = NoTrigger
  Binding <- AllOnFlow
  Policy <- HookAndSkip
  ConcMax <- TickTwice
  PipeCap <- OneSlot
  MaxQueueDepth = 2
  MaxRuns = 3
  MaxManual = 0
  MaxParks = 1
  MaxHolds = 1
  MaxRebinds = 0
  MaxStops = 1
SPECIFICATION FairSpec
INVARIANTS
  QueueNotStranded
PROPERTIES
  FairLaunch
