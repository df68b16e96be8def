SPECIFICATION Spec
CONSTANTS
    Server = {1, 2, 3}
    NoHost = 9
    NoOne = 0
    Updates = 1
    MaxEpoch = 3
    MaxTid = 4
INVARIANTS ReplicaTypeOK CommittedSurvives SameVersionSameData AbortedNowhere CurrentIsCurrent
PROPERTY ImplementsStore
CONSTRAINT Short
