SPECIFICATION FairSpec
CONSTANTS
  Nodes <- RingNodes
  Links <- RingLinks
  Gateway = 4
  NextHops <- RingHop
  Severities <- Ample
  MaxHops = 8
  QueueLimit = 12
  CacheSize = 8
  Burst = 2
  EventMode = TRUE
  Lossy = FALSE
  Origins <- OneOrigin
  Operator = FALSE
  Failing <- NoNodes
  MaxAlerts = 1
  MaxNumber = 2
  MaxRows = 0
INVARIANTS
  HandledOnce
PROPERTIES
  AlertsReachEveryone
  AcknowledgementsReturn
CHECK_DEADLOCK FALSE
