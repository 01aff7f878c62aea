SPECIFICATION Spec
CONSTANTS
    Programs <- MCPrograms
    Platform <- MCPlatform
INVARIANTS
    NestedIndicesAreOffset
CHECK_DEADLOCK FALSE
