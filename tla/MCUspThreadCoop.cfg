CONSTANTS
  Usp = Usp
  Nobody = Nobody
  Apps = {a1}
  Modes <- CooperativeOnly
  Unprotected <- NoApp
SPECIFICATION Spec
INVARIANT CooperativeExclusive
