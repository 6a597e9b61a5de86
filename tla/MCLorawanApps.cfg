SPECIFICATION Spec
CONSTANTS
    Images <- MCImages
    Raises <- MCRaises
    Priorities = {"LOW", "HIGH"}
    Options = {"default", "other"}
INVARIANTS
    TypeOK
    ServicesKept
    ServedOnce
PROPERTIES
    TxStartsFilled
VIEW MCView
