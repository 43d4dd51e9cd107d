SPECIFICATION FairSpec
CONSTANTS
    JobIds = {j1, j2}
    JobNames = {n1, n2}
    Workers = {w1}
    Callers = {c1}
    Crons = {"every tick", "30 feb", "garbage"}
    CorruptCrons = {"garbage", "30 feb"}
    Parses <- MCParses
    NextAfter <- MCNextAfter
    Pins = {1}
    MaxPass = 2
    MaxEvents = 3
    MaxTime = 2
    Null = Null
CHECK_DEADLOCK FALSE
PROPERTIES
    ServedUnlessPoisoned
    CorruptIsPaused
