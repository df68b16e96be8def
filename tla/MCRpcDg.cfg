SPECIFICATION Spec
CONSTANTS
    MaxCalls = 3
    MaxBoots = 2
    NonIdem = {1, 3}
    Fresh = {1, 3}
INVARIANTS RpcTypeOK AtMostOnceUntilRaced StartsInOrderUntilRaced OwnReplyUntilRaced
INVARIANTS RejectedNotExecutedUntilRaced UnknownNotRunUntilRaced
PROPERTY ImplementsCallsUntilRaced
CONSTRAINTS OneGivenUp Unraced
CHECK_DEADLOCK FALSE
