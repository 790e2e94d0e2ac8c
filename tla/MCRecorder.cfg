SPECIFICATION Spec
CONSTANTS
    r1 = r1
    r2 = r2
    c1 = c1
    c2 = c2
    Recorders <- TwoRecorders
    Clients <- TwoClients
    NoOne = NoOne
    Setups <- PatientAndEarly
    Timers = {}
    NoTimer = NoTimer
    Cooldowns = {FALSE}
INVARIANTS
    PatientRecordingKeepsAwake
PROPERTIES
    ServedAfterFinalization
    ExitReleasesHold
