\* One session at a time, reconnects, two delivers and a report.
CONSTANTS
  Session = {s1, s2, s3}
  Msg = {m1, m2, r1}
  Report = {r1}
  MaxSessions = {1}
  Timeout = 2
  MaxSequence = 8
  EnquireBound = 1
  IndexSpan = 4
  NoMsg = NoMsg
SPECIFICATION SafeSpec
SYMMETRY Symmetry
INVARIANTS
  TypeOK
  BoundSessions
  SessionLimit
  Correlated
  NothingOrphaned
  DueInTime
\* Once the client is removed and everything has arrived, nothing is left to do.
CHECK_DEADLOCK FALSE
