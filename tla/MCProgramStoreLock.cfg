CONSTANTS
    A = A
    n = n
    X = X
    Y = Y
    GlobalLabels <- MCGlobal
    LocalLabels <- MCLocal
    StackLabels <- MCStack
    StackNumbers <- MCNumbers
    Commands <- MCCommands
    MaxLines = 4
    MaxReturns = 1
    CutsPastEmpty = FALSE
SPECIFICATION Spec
PROPERTY LockedByLock
