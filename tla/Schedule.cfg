SPECIFICATION MCSpec
CONSTANTS
    Scanners = {i1, i2}
    Rows = {s1}
    Batch = 1
    Period = 1
    OnceAt = 1
    MissedThreshold = 1
    MaxTime = 3
    MaxDeaths = 1
    MaxEdits = 2
    Requests = {r1, r2}
    Limits = {0, 2}
    Share = 2
    MaxUsed = 4
    WarnPercent = 80
    MaxMonths = 2
    MaxCalls = 2
    MaxFaults = 1
INVARIANTS FiredOnce NotMadeUp ShutsDownOnce
PROPERTIES OffMeansOff DueIsTaken
CHECK_DEADLOCK FALSE
