SPECIFICATION Spec
CONSTANTS
    Commands <- MCCommands
    Paths = {"a", "b"}
    Formatting <- FormattedText
    Readable <- Parses
    Nothing <- NoText
    Torn <- TornText
    Empty <- EmptyText
INVARIANTS
    KeepsProgram
    SecondRunChangesNothing
    ErrorsUntouched
    CheckIsExact
PROPERTY FilesStayWhole
CHECK_DEADLOCK FALSE
