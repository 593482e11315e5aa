\* Local variables, stack modes changed by FUNC, LNSTK and L4STK, indexed matrices
CONSTANTS
    Names <- MCName
    MaxLevel = 2
    MaxVars = 3
    Kinds = {"matrix", "scalar"}
    Commands = {"LCLV", "FUNC", "LSTK", "INDEX", "EDIT", "EDITN"}
SPECIFICATION Spec
INVARIANTS
    TypeOK
    Shadowing
    BigStackAllowed
    SavedState
    IndexedLocalExists
PROPERTIES
    ScopesSpec
CHECK_DEADLOCK TRUE
