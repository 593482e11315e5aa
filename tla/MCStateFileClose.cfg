\* fclose() fails, and nobody notices
CONSTANTS
    n1 = n1
    n2 = n2
    n3 = n3
    Names = {n1, n2, n3}
    Untitled = n1
    MaxWork = 2
    MaxSide = 1
    Faults = {"close"}
SPECIFICATION Spec
SYMMETRY Symmetry
INVARIANT SavedKept
CHECK_DEADLOCK TRUE
