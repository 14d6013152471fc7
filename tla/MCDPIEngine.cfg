\* Two calls of processFile on one engine, which is stopped at any time.
CONSTANTS
  a = a
  b = b
  ignored = ignored
  Tuple <- MCTuple
  Ignored = ignored
  Capture <- Longer
  FileEnd <- TwoFiles
  Hash <- SplitHash
  NumLBs = 1
  FpsPerLb = 2
  QueueCap = 1
  OutCap = 3
  SleepOutlastsDrain = FALSE
SPECIFICATION Spec
INVARIANTS
  TypeOK
  StagedShutdown
  OnePlace
  Accounting
  DispatchedArrives
  HeaderFirst
  FlowOrder
  PipelineOrder
PROPERTIES
  ImplementsFilter
