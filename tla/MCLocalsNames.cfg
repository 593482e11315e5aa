\* Variables of two names, and the scopes they implement
CONSTANTS
    Names <- MCNames
    MaxLevel = 2
    MaxVars = 4
    Kinds = {"matrix", "scalar"}
    Commands = {"LCLV", "LSTK"}
SPECIFICATION Spec
INVARIANTS
    TypeOK
    Shadowing
    LookupInnermost
    LevelsSorted
PROPERTIES
    ScopesSpec
CHECK_DEADLOCK TRUE
