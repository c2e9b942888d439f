SPECIFICATION FairSpec
CONSTANTS
    LoopOpts <- RestingOpts
    Fingerprints = {f1}
    NoFingerprint = NoFingerprint
    Threshold = 2
    OnStall = "stop"
    MaxIndex = 3
    MaxUse = 2
    Handlers = {h1, h2}
    Inputs = {"plain", "start", "next", "now", "stop", "cancel", "budget", "inject"}
    BudgetCaps = {0, 1}
    DiskFails = FALSE
    MaxInputs = 3
    MaxCrashes = 1
    MaxQueue = 2
    MaxPending = 2
INVARIANTS
    EndIsEarned
PROPERTIES
    CountedLoopRests
    QueueDrains
CHECK_DEADLOCK FALSE
