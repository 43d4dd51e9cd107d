SPECIFICATION Spec
CONSTANTS
    MAX_IDENTIFIER_LEN = 2
    I32Max = 2
    I64Max = 2
    MaxSeconds = 1
    MicrosPerSecond = 2
    NanosPerMicro = 4
    MicrosPerDay = 4
    Crons = {"hourly", "garbage"}
    Parses <- MCParses
    Null = Null
CHECK_DEADLOCK FALSE
INVARIANTS
    ConstraintsNeverRefuse
    ReadsBackAsAsked
    OnlyCronCorrupts
    HeartbeatInsideLease
