SPECIFICATION Spec
CONSTANTS
    h1 = h1
    h2 = h2
    h3 = h3
    t1 = t1
    t2 = t2
    t3 = t3
    Holders <- MCHolders
    Timers <- MCTimers
    NoTimer = NoTimer
    Cooldowns = {TRUE, FALSE}
INVARIANTS
    HeldMeansAwake
PROPERTIES
    EventuallySleepable
    ImplementsWakeLock
