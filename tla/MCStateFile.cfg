\* Crashes anywhere, failed writes, files that cannot be loaded
CONSTANTS
    n1 = n1
    n2 = n2
    n3 = n3
    Names = {n1, n2, n3}
    Untitled = n1
    MaxWork = 2
    MaxSide = 1
    Faults = {"create", "write"}
SPECIFICATION Spec
SYMMETRY Symmetry
INVARIANTS
    TypeOK
    SavedKept
    LoadNotRepeated
PROPERTIES
    QuitResumes
CHECK_DEADLOCK TRUE
