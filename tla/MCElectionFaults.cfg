SPECIFICATION Spec
CONSTANTS
    Server = {1, 2}
    NoHost = 9
    SMALLTIME = 1
    BIGTIME = 3
    MAXSKEW = 1
    POLLTIME = 1
    badhost <- NoBad
    Offsets <- BothSkews
    QuietUntil = 8
    MaxNow = 12
    MaxDelay = 1
    ResetDelay = 1
    MaxRounds = 2
    MaxFaults = 1
    MaxRestarts = 1
INVARIANTS TypeOK VotesApart OneSyncSite LeaseBacked
CONSTRAINT OneMishap
CHECK_DEADLOCK FALSE
