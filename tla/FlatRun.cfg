CONSTANTS
    TailLines = 3
    DedupCap = 2
    Menus <- MCMenus
SPECIFICATION Spec
INVARIANTS FlatRunIsTrue MeasuresAreTrue HaltHolds
PROPERTY RunEnds
CHECK_DEADLOCK FALSE
