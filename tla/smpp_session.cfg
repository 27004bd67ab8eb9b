\* An enquire_link timer of 2 ticks, an inactivity timer of 5.
SPECIFICATION Spec
CONSTANTS
  InactivityEvery = 5
  EnquireEvery = 2
  Chunk = 2
  Backlog = 2
INVARIANTS
  Exclusive
  NothingStalls
PROPERTIES
  AskedFirst
  SilentCloses
CHECK_DEADLOCK FALSE
