SPECIFICATION FairSpec
CONSTANTS
  w1 = w1
  w2 = w2
  s1 = s1
  root = root
  Workers = {w1, w2}
  Subs = {s1}
  Root = root
  LayerOf <- MCLayerOf
  Calls = {c1}
  Fin = fin
  Cap = 1
  Menus <- MCMenus
CHECK_DEADLOCK FALSE
INVARIANTS
    RunEndIsTrue
PROPERTIES
    WaitsAnswered
    DrainNeedsNoDeadline
