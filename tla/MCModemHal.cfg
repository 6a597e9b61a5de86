CONSTANTS
  None = None
  Requests = {r1, r2}
  Boards <- BothBoards
SPECIFICATION FairSpec
INVARIANTS TypeOK OpenMeansDrained RadioEventKept ExpiryKept CallsPaired
PROPERTIES GateSpec EventsServed
