SPECIFICATION Spec
CONSTANTS
    r1 = r1
    r2 = r2
    c1 = c1
    c2 = c2
    Recorders <- TwoRecorders
    Clients <- TwoClients
    NoOne = NoOne
    Setups <- JustEarly
    Timers = {}
    NoTimer = NoTimer
    Cooldowns = {FALSE}
INVARIANTS
    RecordingKeepsAwake
