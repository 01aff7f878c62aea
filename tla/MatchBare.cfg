SPECIFICATION Spec
CONSTANTS
    Enums <- MCEnums
    Sealed <- MCSealed
    Open <- MCOpen
    Closed <- MCClosed
    Programs <- MCPrograms
INVARIANT
    BareVariantsAreFound
CHECK_DEADLOCK FALSE
