CONSTANTS
  None = None
  Requests = {r1}
  Boards <- ToggleOnly
SPECIFICATION Spec
INVARIANT RadioEventKeptByToggle
