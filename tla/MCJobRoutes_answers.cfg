SPECIFICATION RouteSpec
CONSTANTS
    JobIds = {j1, j2}
    JobNames = {n1, n2}
    Workers = {w1, w2}
    Callers = {c1}
    Crons = {"every tick", "30 feb", "garbage"}
    CorruptCrons = {"garbage", "30 feb"}
    Parses <- MCParses
    NextAfter <- MCNextAfter
    Pins = {1}
    MaxPass = 2
    MaxEvents = 3
    MaxTime = 2
    Null = Null
SYMMETRY Symmetry
CHECK_DEADLOCK FALSE
INVARIANTS
    TypeOK
    HeldJobStays
    CursorAhead
PROPERTIES
    CursorInvariant
    PausedIsQuiet
    ErrorsTellWhatChanged
    DeletedIsGone
