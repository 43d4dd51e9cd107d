SPECIFICATION ClaimingSpec
CONSTANTS
    RunIds = {r1, r2}
    Tokens = {t1, t2}
    Workers = {w1}
    Mortal = {}
    Cancellable = {r1}
    Null = Null
    Names <- MCNames
    Keys = {}
    Options <- WithEndlessLease
    NameSets <- MCNameSets
    Registered <- MCRegistered
    Ahead <- Slow
    StartTimes = {}
    Limits = {1, 2}
    MaxConcurrency = 2
    MaxFaults = 0
    MaxTime = 0
    LastInstant = 20
    ClaimGap = 1
    Poisoned = TRUE
    MaxFailures = 1
CHECK_DEADLOCK FALSE
INVARIANTS
    RuntimeTypeOK
    Capacity
PROPERTIES
    ClaimableIsClaimed
    LeaseLossNoticed
