SPECIFICATION FairSpec
CONSTANTS
    s1 = s1
    w1 = w1
    r1 = r1
    x1 = x1
    Root = Root
    NoReason = NoReason
    Killed = Killed
    Subleads = {s1}
    Workers = {w1, r1, x1}
    LayerOf <- TreeLayer
    Resumed = {r1}
    KillOps = {"ctrlc", "cancel_actor", "cancel_run", "finalize"}
    Scenarios <- CascadeScenarios
CHECK_DEADLOCK FALSE
INVARIANTS
    NoMissedDrain
    CancelReachesEveryone
PROPERTIES
    DrainReachesWorkers
