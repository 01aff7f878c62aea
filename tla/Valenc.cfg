SPECIFICATION FairSpec
CONSTANTS
    f1 = f1
    f2 = f2
    A = A
    B = B
    Inputs <- MCInputs
    Unknown = Unknown
    Class = {A, B}
    Programs <- MCPrograms
    Absent = Absent
    Torn = Torn
    NoExit = NoExit
    Killed = Killed
    MaxRuns = 3
INVARIANTS
    ReportsAreTrue
    SuccessIsClean
    SuccessIsComplete
PROPERTIES
    OutputOnlyWhenClean
    RunEnds
CHECK_DEADLOCK FALSE
