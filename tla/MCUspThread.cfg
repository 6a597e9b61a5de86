CONSTANTS
  Usp = Usp
  Nobody = Nobody
  Apps = {a1, a2}
  Modes <- BothModes
  Unprotected <- NoApp
SPECIFICATION FairSpec
INVARIANTS TypeOK ApiExclusive SleepsSafely InitHandshake
PROPERTIES RequestsServed
