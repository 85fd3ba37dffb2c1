CONSTANTS
  hook = hook
  tick = tick
  flow = flow
  other = other
  Triggers = {hook, tick}
  Pipelines = {flow, other}
  NoTrigger = NoTrigger
  Binding <- AllOnFlow
  Policy <- HookAndParallel
  ConcMax <- TickTwice
  PipeCap <- OneSlot
  MaxQueueDepth = 2
  MaxRuns = 3
  MaxManual = 1
  MaxParks = 1
  MaxHolds = 0
  MaxRebinds = 1
  MaxStops = 1
SPECIFICATION Spec
INVARIANTS
  FifoPerTrigger
PROPERTIES
  AdmitsWithinCaps
  NoMonopoly
