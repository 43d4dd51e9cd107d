SPECIFICATION FairSpec
CONSTANTS
    RunIds = {r1}
    Tokens = {t1, t2}
    Workers = {w1, w2}
    Mortal = {w1}
    Cancellable = {}
    Null = Null
    Names <- MCNames
    Keys = {}
    Options <- WithEndlessBackoff
    NameSets <- MCNameSets
    Registered <- MCRegistered
    Ahead <- Slow
    StartTimes = {}
    Limits = {1}
    MaxConcurrency = 1
    MaxFaults = 1
    MaxTime = 1
    LastInstant = 20
    ClaimGap = 1
    Poisoned = FALSE
    MaxFailures = 1
CHECK_DEADLOCK FALSE
PROPERTIES
    LeaseLossNoticed
    OrphansRecovered
