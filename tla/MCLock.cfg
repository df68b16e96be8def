SPECIFICATION Spec
CONSTANTS
    c1 = c1
    c2 = c2
    rec = rec
    Client <- MCClient
    Handler = {h1, h2}
    Recovery = rec
    MaxRounds <- MCMaxRounds
    MaxTid = 2
    MaxVersion = 1
INVARIANTS LockTypeOK Exclusion WritersCounted SleepersAreWoken RepeatableRead HoldersRun SomeoneRuns
PROPERTY EveryoneReturns
CHECK_DEADLOCK FALSE
