\* Every method, two limits, short and long windows, one change at runtime.
SPECIFICATION Spec
CONSTANTS
  Second = 2
  Depth = 1
  Jitter = 1
  PerTick = 2
  Changes = 1
  Methods = {"disabled", "fixed", "adaptive", "normal", "credit", "limit_credit"}
  Maxima = {1, 2}
  Windows = {1, 3}
  Slippages = {1}
INVARIANTS
  Sound
  Books
  RateKept
PROPERTY
  NotStarved
CHECK_DEADLOCK FALSE
