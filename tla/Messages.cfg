SPECIFICATION Spec
CONSTANTS
  Actor <- MCActor
  Owner <- MCOwner
  Subs = {"s1", "s2"}
  Menus <- MCMenus
CHECK_DEADLOCK FALSE
INVARIANTS
    AccessFollowsTree
    LiveSessionsAreHeard
    AnsweredIsKept
