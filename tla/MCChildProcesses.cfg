SPECIFICATION ChildSpec
CONSTANTS
    p1 = p1
    p2 = p2
    c1 = c1
    c2 = c2
    r1 = r1
    r2 = r2
    Procs <- TwoProcs
    Clients <- TwoClients
    Callers <- TwoCallers
    Parts = {"processes", "pty", "repl"}
    Sources = {"stdout", "stderr"}
    Sizes = {1, 2}
    Header = 1
    MaxBytes = 4
    TotalMaxBytes = 5
    Window = 2
    ChanCap = 1
    MaxOut = 3
    MaxSessions = 2
    MaxRepls = 2
INVARIANTS
    NothingLostSilently
    DeliveredOnce
    OutputThenExit
    OneRepl
    RefusedDidNotReach
PROPERTIES
    CallsEnd
CONSTRAINT Focus
CHECK_DEADLOCK FALSE
