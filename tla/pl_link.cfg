\* Two addresses, each with a server of its own name; numbers do not wrap.
SPECIFICATION Spec
CONSTANTS
  p1 = p1
  p2 = p2
  n1 = n1
  n2 = n2
  NoPeer = NoPeer
  NoName = NoName
  NoMsg = NoMsg
  Name = {n1, n2}
  Peer = {p1, p2}
  Names <- DistinctNames
  Msg = {m1, m2}
  Methods = {"round_robin"}
  Timeout = 1
  MaxSequence = 3
  AutoReconnect = TRUE
INVARIANTS
  BoundReachable
  WaitingIsTimed
  MixedOnlyByKey
  RouteInRange
PROPERTIES
  SubmitSettled
  ComesBack
