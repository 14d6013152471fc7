\* Stopped when the pipeline is empty, every queue of capacity one.
CONSTANTS
  a = a
  b = b
  ignored = ignored
  Tuple <- MCTuple
  Ignored = ignored
  Capture <- WithIgnored
  FileEnd <- OneFile
  Hash <- SplitHash
  NumLBs = 1
  FpsPerLb = 2
  QueueCap = 1
  OutCap = 1
  SleepOutlastsDrain = TRUE
SPECIFICATION FairSpec
INVARIANTS
  AllAnswered
PROPERTIES
  ProcessFileReturns
