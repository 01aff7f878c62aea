SPECIFICATION Spec
CONSTANTS
    x = x
    NoLabel = NoLabel
    Live = Live
    UserName <- MCUserName
    Avoid <- MCRangeFragment
    Menus <- MCRangeMenus
INVARIANTS
    LocalsAgree
CHECK_DEADLOCK FALSE
