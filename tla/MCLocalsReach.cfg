\* A global variable newer than the indexed local matrix
CONSTANTS
    Names <- MCNames
    MaxLevel = 2
    MaxVars = 4
    Kinds = {"matrix"}
    Commands = {"INDEX"}
SPECIFICATION Spec
INVARIANTS
    IndexReachable
CHECK_DEADLOCK TRUE
