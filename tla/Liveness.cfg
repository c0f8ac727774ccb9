SPECIFICATION LivenessSpec
CONSTANTS
    c1 = c1
    Orders = {o1, o2}
    Carts = {c1}
    Sellers = {s1}
    CartOf <- MCCartOf
    SellersOf <- MCSellersOf
    Hooks = {h1}
    Sweeps = {w1}
    NoOrder = NoOrder
    Loops = {"main", "daily"}
    Jobs = {"escrow", "expiry", "topup"}
    LoopOf <- MCLoopOf
    Replicas = {r1, r2}
    QueueOrder <- MCQueueOrder
    MaxWaiting = 1
    Subjects = {driver}
    RuleOf <- MCRuleOf
    Threshold <- MCThreshold
    Scanners = {x1, x2}
    Desks = {a1}
    Resolutions = {RESTORED}
    None = None
    MaxEvidence = 2
    MaxCases = 1
    MaxNotes = 0
    MaxFaults = 1
INVARIANTS
    NothingRunsAtDisconnect
PROPERTIES
    EveryOrderSettles
    CaptureIsAnswered
    KeepsSweeping
    ShutdownEnds
    KeepsRunning
    TrippingGetsACase
CHECK_DEADLOCK FALSE
