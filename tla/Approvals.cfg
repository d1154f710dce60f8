SPECIFICATION FairSpec
CONSTANTS
    p = p
    q = q
    A = A
    B = B
    R = R
    S = S
    None = None
    Requests = {p, q}
    Kind <- Kinds
    LayerOf <- LayersOf
    Conns = {A, B}
    Cap = 4
    Menus <- ApprovalMenus
CHECK_DEADLOCK FALSE
INVARIANTS
    NoLostResponder
    AnswersAreTrue
PROPERTIES
    SlotIsKept
    TtlCoverage
