CONSTANTS
  Families <- OneFamily
  Wrap = 16
  Timeout = 4
  MaxBusy = 3
  Horizon = 20
SPECIFICATION Spec
INVARIANT TimeoutHonest
CHECK_DEADLOCK FALSE
