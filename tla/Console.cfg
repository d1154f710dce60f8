SPECIFICATION Spec
CHECK_DEADLOCK FALSE
CONSTANTS
    Menus <- MCMenus
    TaskOrder <- MCTaskOrder
    Subleads <- MCSubleads
    Template <- MCTemplate
    TileCols = 1
    Viewport = 1
    SnapshotCap = 3
    InboxCap = 1
    CacheTtl = 2
    BuildMax = 1
    ClockMax = 4
    MaxOpens = 2
INVARIANTS
    ConsoleIsTrue
    InsightsAreTrue
PROPERTIES
    FocusLossIsAnnounced
    ConsoleSettles
