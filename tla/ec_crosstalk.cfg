\* A deliver_sm_resp on one session completes a deliver of another.
CONSTANTS
  Session = {s1, s2}
  Msg = {m1, m2}
  Report = {}
  MaxSessions = {2}
  Timeout = 1
  MaxSequence = 8
  EnquireBound = 1
  IndexSpan = 3
  NoMsg = NoMsg
SPECIFICATION SafeSpec
SYMMETRY Symmetry
INVARIANTS
  Correlated
\* Once the client is removed and everything has arrived, nothing is left to do.
CHECK_DEADLOCK FALSE
