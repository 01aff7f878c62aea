SPECIFICATION Spec
CONSTANTS
    x = x
    NoLabel = NoLabel
    Live = Live
    UserName <- MCUserName
    Avoid <- MCFragment
    Menus <- MCMenus
INVARIANTS
    StacksAgree
    LocalsAgree
    EveryBlockFramed
    NamesResolve
CHECK_DEADLOCK FALSE
