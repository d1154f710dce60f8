CONSTANT Menus <- MCMenus
SPECIFICATION Spec
INVARIANT FilesAreTrue
PROPERTIES KeepsRecords FollowersEnd
CHECK_DEADLOCK FALSE
