CONSTANTS
  Families <- AllFamilies
  Wrap = 32
  Timeout = 4
  MaxBusy = 3
  Horizon = 26
SPECIFICATION Spec
INVARIANTS TypeOK InStep OopsOnlyIfHung
CHECK_DEADLOCK FALSE
