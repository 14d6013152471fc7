\* One packet, all of it processed before getStats is called.
CONSTANTS
  web = web
  dns = dns
  Tuple <- TwoFlows
  Hash <- Hashes
  NumLBs = 1
  FpsPerLb = 1
  Jobs <- OneFlow
  QueueCap = 1
  MaxStarts = 1
SPECIFICATION Spec
INVARIANT AllDispatched
