SPECIFICATION Spec
CONSTANTS
    k1 = k1
    k2 = k2
    p1 = p1
    p2 = p2
    c1 = c1
    c2 = c2
    c3 = c3
    e1 = e1
    e2 = e2
    t1 = t1
    t2 = t2
    Keys <- TwoKeys
    Prints <- TwoPrints
    Callers <- ThreeCallers
    Calls <- TwoCalls
    AbandonTimers <- TwoTimers
    MaxFinished = 1
    MaxPending = 2
    NoCall = NoCall
    NoTimer = NoTimer
INVARIANTS
    AtMostOnce
PROPERTIES
    CancelledOnlyAbandoned
    AbandonedIsCancelled
