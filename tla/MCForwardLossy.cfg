SPECIFICATION Spec
CONSTANTS
  Nodes <- TriangleNodes
  Links <- TriangleLinks
  Gateway = 3
  NextHops <- AnyHop
  Severities <- Short
  MaxHops = 3
  QueueLimit = 2
  CacheSize = 1
  Burst = 1
  EventMode = FALSE
  Lossy = TRUE
  Origins <- TriangleNodes
  Operator = TRUE
  Failing <- OneFails
  MaxAlerts = 1
  MaxNumber = 2
  MaxRows = 1
INVARIANTS
  AgesExactly
  UnicastsDoNotCircle
  RowsAreNotDuplicated
CHECK_DEADLOCK FALSE
