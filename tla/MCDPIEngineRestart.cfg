\* A second call of processFile, with a sleep that is long enough.
CONSTANTS
  a = a
  b = b
  ignored = ignored
  Tuple <- MCTuple
  Ignored = ignored
  Capture <- Longer
  FileEnd <- TwoFiles
  Hash <- SplitHash
  NumLBs = 1
  FpsPerLb = 1
  QueueCap = 2
  OutCap = 3
  SleepOutlastsDrain = TRUE
SPECIFICATION Spec
INVARIANTS
  AllAnswered
