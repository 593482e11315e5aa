\* Trapped and ignored errors, but none that SOLVE traps in SST
CONSTANTS
    Prgms <- MCPrgms
    MaxRtnLevel <- MCMaxRtnLevel
    ErrorIgnore = TRUE
    TrapsIn = {"run"}
SPECIFICATION Spec
INVARIANTS
    SolverAtHost
CHECK_DEADLOCK TRUE
