SPECIFICATION RouteSpec
CONSTANTS
    RunIds = {r1}
    Tokens = {t1, t2}
    Cancellable = {r1}
    Null = Null
    Names = {"mail"}
    Keys = {"k"}
    Options <- MCOptions
    NameSets <- MCNameSets
    StartTimes = {1}
    Limits = {1}
    MaxTime = 4
    LastInstant = 99
    ClaimGap = 1
SYMMETRY Symmetry
CHECK_DEADLOCK FALSE
INVARIANTS
    LiveAttempt
    ProducerRows
    CancelTruthful
    ToldStaysTrue
    HistoryExplains
PROPERTIES
    TerminalIsFinal
    HistoryAppendOnly
