SPECIFICATION FairSpec
CONSTANTS
  p1 = p1
  p2 = p2
  c1 = c1
  c2 = c2
  web = web
  b1 = b1
  Producers = {p1, p2}
  Consoles = {c1, c2}
  Web = web
  Browsers = {b1}
  BusCap = 1
  QueueCap = 1
  WebCap = 1
  Menus <- MCMenus
CHECK_DEADLOCK FALSE
INVARIANTS
    LogIsTrue
PROPERTIES
    OneOrder
    StreamsSettle
