CONSTANTS
    RUN = RUN
    EXIT = EXIT
    Keys = {Digit, RUN, EXIT}
    SHIFT = SHIFT
    NoKey = NoKey
    UNKNOWN = UNKNOWN
    Cap = 1
    UnknownKeys = FALSE
SPECIFICATION FairSpec
PROPERTIES
    PauseEnds
    InstructionEnds
    GetkeyFed
