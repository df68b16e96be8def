SPECIFICATION Spec
CONSTANTS
    Server = {1, 2, 3, 4}
    NoHost = 9
    SMALLTIME = 1
    BIGTIME = 2
    MAXSKEW = 0
    POLLTIME = 1
    badhost <- LowestBad
    Offsets <- NoSkew
    QuietUntil = 6
    MaxNow = 6
    MaxDelay = 1
    ResetDelay = 1
    MaxRounds = 2
    MaxFaults = 0
    MaxRestarts = 0
INVARIANT OneSyncSite
CHECK_DEADLOCK FALSE
