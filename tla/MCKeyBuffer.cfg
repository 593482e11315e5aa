CONSTANTS
    NoKey = NoKey
    Keys = {k1, k2}
    N = 4
SPECIFICATION Spec
INVARIANT TypeOK
PROPERTY QueueSpec
