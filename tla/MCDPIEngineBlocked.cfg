\* stop joins a fast path that nobody will ever release.
CONSTANTS
  a = a
  b = b
  ignored = ignored
  Tuple <- MCTuple
  Ignored = ignored
  Capture <- Pair
  FileEnd <- OneFile
  Hash <- SplitHash
  NumLBs = 1
  FpsPerLb = 1
  QueueCap = 2
  OutCap = 1
  SleepOutlastsDrain = FALSE
SPECIFICATION FairSpec
PROPERTIES
  ProcessFileReturns
CHECK_DEADLOCK FALSE
