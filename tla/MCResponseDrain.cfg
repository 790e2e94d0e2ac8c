SPECIFICATION Spec
CONSTANTS
    c1 = c1
    c2 = c2
    Conns <- TwoConns
    MaxRequests <- TwoAndOne
    MonitorLimit = 1
    Timers = {}
    NoTimer = NoTimer
    Cooldowns = {FALSE}
INVARIANTS
    UndeliveredMeansAwake
PROPERTIES
    EveryHoldEnds
CHECK_DEADLOCK FALSE
