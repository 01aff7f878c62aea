SPECIFICATION Spec
CONSTANTS
    Enums <- MCEnums
    Sealed <- MCSealed
    Open <- MCOpen
    Closed <- MCClosed
    Programs <- MCPrograms
INVARIANTS
    AcceptedIsCovered
    RejectedIsNotCovered
    BodySeesWhatWasBound
PROPERTY
    TakesTheFirstArm
CHECK_DEADLOCK FALSE
