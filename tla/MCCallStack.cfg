\* Every error path, of a running program and of SST
CONSTANTS
    Prgms <- MCPrgms
    MaxRtnLevel <- MCMaxRtnLevel
    ErrorIgnore = TRUE
    TrapsIn = {"run", "sst"}
SPECIFICATION Spec
INVARIANTS
    TypeOK
    SolverFrames
    ActiveSolverStarted
CHECK_DEADLOCK TRUE
