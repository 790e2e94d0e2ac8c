SPECIFICATION SideSpec
CONSTANTS
    s1 = s1
    w1 = w1
    r1 = r1
    r2 = r2
    c1 = c1
    Streams <- OneStream
    Writers <- OneWriter
    Requests <- TwoRequests
    Targets = {t1}
    Invocations = {i1}
    Parts = {"stream", "telemetry", "monitor", "proxy", "web"}
    Capacity = 3
    MaxBytes = 4
    Sizes = {1, 3, 5}
    MaxSeq = 5
    MaxCaptured = 2
    MaxRev = 4
    MaxConns = 2
    MaxLives = 3
    MaxTails = 1
    MaxTroubles = 2
INVARIANTS
    StoredWasWanted
    ExportConverges
    CaptureIsClean
    RefusedDidNotRun
PROPERTIES
    ImplementsEventLog
    ReadersCatchUp
    RequestsEnd
    SwitchesAreApplied
    StaleSessionsEnd
    ResultIsKept
    FailsFast
CONSTRAINT OneReader
CHECK_DEADLOCK FALSE
