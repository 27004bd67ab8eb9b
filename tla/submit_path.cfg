\* Two policy servers, one ESME whose submits are checked and one whose are not.
SPECIFICATION Spec
CONSTANTS
  p1 = p1
  p2 = p2
  NoPeer = NoPeer
  NoName = NoName
  NoMsg = NoMsg
  NoSession = NoSession
  Name = {1, 2}
  Peer = {p1, p2}
  Names <- DistinctNames
  Msg = {m1, m2}
  Session = {s1, s2}
  Checked = {s1}
  Timeout = 1
  MaxSequence = 2
  AutoReconnect = TRUE
INVARIANTS
  Accounted
  VerdictRespected
  PolicyTimed
  CursorKept
PROPERTIES
  SubmitPathService
  SubmitSettled
\* An exception ends the process.
CHECK_DEADLOCK FALSE
