SPECIFICATION Spec
CONSTANT Files <- MCFiles
INVARIANTS
    BracketsNest
    NothingLost
    BindsAsDocumented
    ItemsSurvive
PROPERTY EveryTurnMoves
CHECK_DEADLOCK FALSE
