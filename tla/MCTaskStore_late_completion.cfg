SPECIFICATION Spec
CONSTANTS
    RunIds = {r1, r2}
    Tokens = {t1, t2}
    Cancellable = {r1, r2}
    Null = Null
    Names <- MCNames
    Keys <- MCKeys
    Options <- DedupOptions
    NameSets <- MCNameSets
    StartTimes = {}
    Limits = {1}
    MaxTime = 3
    LastInstant = 99
    ClaimGap = 1
SYMMETRY Symmetry
CHECK_DEADLOCK FALSE
PROPERTIES
    CompletedUnderLease
