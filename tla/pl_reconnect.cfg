\* One server that may refuse a bind.
SPECIFICATION Spec
CONSTANTS
  p1 = p1
  p2 = p2
  n1 = n1
  n2 = n2
  NoPeer = NoPeer
  NoName = NoName
  NoMsg = NoMsg
  Name = {n1, n2}
  Peer = {p1}
  Names <- DistinctNames
  Msg = {m1}
  Methods = {"round_robin"}
  Timeout = 0
  MaxSequence = 2
  AutoReconnect = TRUE
PROPERTY
  Reconnects
