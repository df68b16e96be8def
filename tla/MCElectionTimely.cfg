SPECIFICATION TimelySpec
CONSTANTS
    Server = {1, 2, 3}
    NoHost = 9
    SMALLTIME = 2
    BIGTIME = 3
    MAXSKEW = 0
    POLLTIME = 2
    badhost <- LowestUnknown
    Offsets <- NoSkew
    QuietUntil = 7
    MaxNow = 16
    MaxDelay = 1
    ResetDelay = 1
    MaxRounds = 60
    MaxFaults = 0
    MaxRestarts = 1
    LastMishap = 8
    MaxIsolated = 1
    ElectionTime = 8
INVARIANTS TimelyTypeOK SiteElected OneSyncSite ElectionInv
PROPERTY ImplementsPromises
CONSTRAINT OneMishap
CHECK_DEADLOCK FALSE
