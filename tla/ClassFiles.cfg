SPECIFICATION Spec
CONSTANTS
    Programs <- MCPrograms
    Platform <- MCPlatform
INVARIANTS
    ClassesLink
    ClosedTypesAgree
    EveryFunctionIsKept
    CallSitesReachTheirLambdas
    GeneratedMembersKeepContract
CHECK_DEADLOCK FALSE
