SPECIFICATION Spec
CONSTANTS
    MaxCalls = 2
    MaxBoots = 2
    NonIdem = {1, 2}
    Fresh = {1, 2}
INVARIANT AtMostOnce
CHECK_DEADLOCK FALSE
