SPECIFICATION Spec
CONSTANTS
    LoopOpts <- PlainOpts
    Fingerprints = {f1}
    NoFingerprint = NoFingerprint
    Threshold = 2
    OnStall = "reflect_and_ask"
    MaxIndex = 3
    MaxUse = 2
    Handlers = {h1, h2}
    Inputs <- AllInputs
    BudgetCaps = {0, 1}
    DiskFails = FALSE
    MaxInputs = 5
    MaxCrashes = 1
    MaxQueue = 2
    MaxPending = 2
INVARIANTS
    SingleTurn
    RestartLosesNothing
    CancelIsFinal
PROPERTIES
    GoesOnWithinLimits
    WaitsForPerson
    KeepsLifePromise
SYMMETRY HandlerSymmetry
CHECK_DEADLOCK FALSE
