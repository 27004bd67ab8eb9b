\* Two sessions, at once or one after the other, and the limit changed at
\* runtime.  Enquire_links use up numbers, so that those of a session wrap onto
\* one that is pending.  The refinement of RequestReply and, under the fairness
\* of the io_context, its liveness.
CONSTANTS
  Session = {s1, s2}
  Msg = {m1, r1}
  Report = {r1}
  MaxSessions = {1, 2}
  Timeout = 1
  MaxSequence = 2
  EnquireBound = 2
  IndexSpan = 2
  NoMsg = NoMsg
SPECIFICATION Spec
INVARIANTS
  Accounted
  WaitingDrift
PROPERTIES
  DeliverService
  DeliverSettled
\* Once the client is removed and everything has arrived, nothing is left to do.
CHECK_DEADLOCK FALSE
