\* Rules are only added, and every flow fits into the table.
CONSTANTS
  out = out
  other = other
  client = client
  web = web
  chat = chat
  port = port
  Address = {client}
  App = {web, chat}
  Port = {port}
  Text <- MCText
  Wild <- Stars
  Ops = {"block"}
  MaxPatterns = 1
  Fp = fp
  Admin = {}
  Tuple = {out, other}
  SrcIp <- MCSrcIp
  DstPort <- MCDstPort
  Host <- MCHost
  AppOf <- MCAppOf
  UNKNOWN = web
  Packet <- TwoFlows
  max_connections_ = 2
  MaxPackets = 4
SPECIFICATION Spec
INVARIANTS
  TypeOK
  FlowStaysBlocked
  FirstHostEnforced
