CONSTANTS
  Slot = 1
  FuotaOffset = 4
  SafOffset = 12
  AreaSize = 20
  Page = 4
  WriteBlock = 2
  Values = {v1, v2}
  Erased = Erased
  None = None
  Sizes <- OneAndThree
  SafSizes <- One
  MaxStores = 2
SPECIFICATION Spec
INVARIANTS TypeOK StoredIsRestored
PROPERTIES StoreSpec
