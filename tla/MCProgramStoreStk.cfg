CONSTANTS
    A = A
    n = n
    X = X
    Y = Y
    GlobalLabels <- MCGlobal
    LocalLabels <- MCLocal2
    StackLabels <- MCStack2
    StackNumbers = {}
    Commands <- MCCommands2
    MaxLines = 3
    MaxReturns = 1
    CutsPastEmpty = FALSE
SPECIFICATION Spec
INVARIANT TargetNamed
