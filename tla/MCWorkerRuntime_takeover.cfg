SPECIFICATION RuntimeSpec
CONSTANTS
    RunIds = {r1}
    Tokens = {t1, t2}
    Workers = {w1, w2}
    Mortal = {w1, w2}
    Cancellable = {}
    Null = Null
    Names <- MCNames
    Keys = {}
    Options <- RetriedOnce
    NameSets <- MCNameSets
    Registered <- MCRegistered
    Ahead <- Early
    StartTimes = {}
    Limits = {1}
    MaxConcurrency = 1
    MaxFaults = 1
    MaxTime = 3
    LastInstant = 99
    ClaimGap = 1
    Poisoned = FALSE
    MaxFailures = 2
SYMMETRY Symmetry
CHECK_DEADLOCK FALSE
INVARIANTS
    OutcomeEarned
    LocalDeadline
    OverlapAfterExpiry
    StoppedIsQuiet
PROPERTIES
    StoreSpec
