CONSTANTS
    RUN = RUN
    EXIT = EXIT
    Keys = {Digit, RUN, EXIT}
    SHIFT = SHIFT
    NoKey = NoKey
    UNKNOWN = UNKNOWN
    Cap = 2
    UnknownKeys = FALSE
SPECIFICATION Spec
INVARIANT RepeatsHeldKey
