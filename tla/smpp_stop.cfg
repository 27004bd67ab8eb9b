\* The owner stops while the session unbinds or its enquire_link timer is due.
SPECIFICATION Spec
CONSTANTS
  InactivityEvery = 3
  EnquireEvery = 1
  Chunk = 1
  Backlog = 1
PROPERTY
  StopCloses
CHECK_DEADLOCK FALSE
