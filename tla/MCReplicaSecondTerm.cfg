SPECIFICATION SecondTermSpec
CONSTANTS
    Server = {1, 2, 3}
    NoHost = 9
    NoOne = 0
    Updates = 1
    MaxEpoch = 4
    MaxTid = 2
INVARIANT CommittedSurvives
CONSTRAINT OneFault
