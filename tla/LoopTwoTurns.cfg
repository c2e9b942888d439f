SPECIFICATION Spec
CONSTANTS
    LoopOpts <- VerifiedOpts
    Fingerprints = {f1}
    NoFingerprint = NoFingerprint
    Threshold = 2
    OnStall = "reflect_and_ask"
    MaxIndex = 3
    MaxUse = 2
    Handlers = {h1, h2}
    Inputs = {"start", "plain"}
    BudgetCaps = {0, 1}
    DiskFails = FALSE
    MaxInputs = 4
    MaxCrashes = 1
    MaxQueue = 2
    MaxPending = 2
INVARIANTS
    SingleTurn
CHECK_DEADLOCK FALSE
