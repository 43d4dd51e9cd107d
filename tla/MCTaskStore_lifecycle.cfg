SPECIFICATION Spec
CONSTANTS
    RunIds = {r1, r2}
    Tokens = {t1, t2, t3, t4}
    Cancellable = {}
    Null = Null
    Names <- MCNames
    Keys <- MCKeys
    Options <- LifecycleOptions
    NameSets <- MCNameSets
    StartTimes = {1}
    Limits = {1, 2}
    MaxTime = 4
    LastInstant = 99
    ClaimGap = 1
SYMMETRY Symmetry
CHECK_DEADLOCK FALSE
INVARIANTS
    TypeOK
    RowChecks
    AttemptLedger
    LeaseExclusive
PROPERTIES
    LifecycleSpec
    FencedForever
