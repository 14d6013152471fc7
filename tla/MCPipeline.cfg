\* One balancer and two fast paths, started up to twice.
CONSTANTS
  web = web
  dns = dns
  Tuple <- TwoFlows
  Hash <- Hashes
  NumLBs = 1
  FpsPerLb = 2
  Jobs <- Packets
  QueueCap = 1
  MaxStarts = 2
SPECIFICATION FairSpec
INVARIANTS
  TypeOK
  Accounting
  ProcessedInOrder
  StatsBounded
PROPERTIES
  CallsReturn
  AllProcessed
