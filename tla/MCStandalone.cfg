SPECIFICATION Spec
CONSTANTS
    Programs <- MCPrograms
    TimeWrap = 8
    Debounce = 2
    T = 6
    Margin = 1
    Word = 6
INVARIANTS
    TypeOK
    PressKept
    VerdictsRight
PROPERTIES
    DebounceByElapsed
    PressesServed
    WaitsEnd
CHECK_DEADLOCK FALSE
