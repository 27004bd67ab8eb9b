\* Servers that come back under any name; numbers wrap from 2 to 0.
SPECIFICATION SafeSpec
CONSTANTS
  p1 = p1
  p2 = p2
  n1 = n1
  n2 = n2
  NoPeer = NoPeer
  NoName = NoName
  NoMsg = NoMsg
  Name = {n1, n2}
  Peer = {p1, p2}
  Names <- AnyNames
  Msg = {m1, m2}
  Methods = {"load_balance", "prefix", "broadcast"}
  Timeout = 1
  MaxSequence = 2
  AutoReconnect = TRUE
INVARIANTS
  TypeOK
  Accounted
  TargetsAreClients
  ClientsUsable
  Gauges
PROPERTY
  SubmitService
\* A submit that cannot be routed ends the process.
CHECK_DEADLOCK FALSE
