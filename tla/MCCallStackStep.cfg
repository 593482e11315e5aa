\* Single-stepping without trapped or ignored errors
CONSTANTS
    Prgms <- MCPrgms
    MaxRtnLevel <- MCMaxRtnLevel
    ErrorIgnore = FALSE
    TrapsIn = {}
SPECIFICATION Spec
INVARIANTS
    StepStops
CHECK_DEADLOCK TRUE
