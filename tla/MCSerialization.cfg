SPECIFICATION Spec
CONSTANTS
  EnumBits = 8
  Contexts <- MCContexts
  Results <- MCResults
  Raw <- MCRaw
  Native <- MCNative
  NativeResult <- MCNativeResult
  Damaged <- MCDamaged
  Unknown <- MCUnknown
INVARIANTS
  TypeOK
  RoundTrip
  TruncatedIsPrefix
  EncodedFits
  ConversionsInvert
  RefusedKeepsTransaction
CHECK_DEADLOCK FALSE
