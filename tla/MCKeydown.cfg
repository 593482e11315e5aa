CONSTANTS
    MaxLines = 2
    NameLength = 2
    CountDigits = 2
    MaxAlpha = 2
    NumLength = 2
    Flawed = FALSE
    KindSets <- MCKinds
    Hands <- MCHands
SPECIFICATION Spec
INVARIANTS TypeOK CallbackFits EntryModes Escapes
PROPERTY EntryLeavesNoTrace
