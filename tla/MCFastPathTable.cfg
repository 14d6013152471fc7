\* A table of one connection; other threads add and clear rules.
CONSTANTS
  out = out
  other = other
  client = client
  web = web
  chat = chat
  port = port
  Address = {client}
  App = {web, chat}
  Port = {port}
  Text <- OneText
  Wild <- Stars
  Ops = {"block", "clear"}
  MaxPatterns = 0
  Fp = fp
  Admin = {admin}
  Tuple = {out, other}
  SrcIp <- MCSrcIp
  DstPort <- MCDstPort
  Host <- MCHost
  AppOf <- MCAppOf
  UNKNOWN = web
  Packet <- ThreeKinds
  max_connections_ = 1
  MaxPackets = 2
SPECIFICATION Spec
INVARIANTS
  TableBounded
  CountersAgree
PROPERTIES
  UsesRules
