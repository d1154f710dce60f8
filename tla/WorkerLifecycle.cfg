SPECIFICATION LifecycleFairSpec
CONSTANTS
    MaxInc = 3
    MaxOps = 4
    Requesters = {r1, r2}
    r1 = r1
    r2 = r2
    Menus <- LifecycleMenus
    Subtree = TRUE
CHECK_DEADLOCK FALSE
INVARIANTS
    EveryLiveSessionIsCancellable
    DoneIsTrue
PROPERTIES
    KilledSessionsEnd
