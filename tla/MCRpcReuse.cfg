SPECIFICATION Spec
CONSTANTS
    MaxCalls = 2
    MaxBoots = 1
    NonIdem = {1}
    Fresh = {1}
INVARIANT OwnReply
CHECK_DEADLOCK FALSE
