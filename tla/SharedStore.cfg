SPECIFICATION FairSpec
CONSTANTS
    R = R
    S1 = S1
    S2 = S2
    A = A
    B = B
    C = C
    D = D
    k1 = k1
    k2 = k2
    k3 = k3
    n1 = n1
    n2 = n2
    Nobody = Nobody
    Root = R
    Subs = {S1, S2}
    Actors = {A, B, C, D}
    LayerOf <- TreeLayer
    Keys = {k1, k2, k3}
    Names = {n1, n2}
    Sizes = {1, 2}
    MaxKeys = 2
    MaxTotal = 2
    Capacity = 1
    Menus <- StoreMenus
CHECK_DEADLOCK FALSE
INVARIANTS
    StoreIsSound
PROPERTIES
    LeaseIsNotStolen
    CallsReturn
