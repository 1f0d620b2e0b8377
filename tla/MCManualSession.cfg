SPECIFICATION FairSpec
CONSTANTS
  Nodes <- Five
  Links <- FiveLinks
  NextHops <- Shortest
  Flooded <- Floods
  Creations <- Requests
  MaxHops = 3
  generate_fault_acks = TRUE
  Lossy = TRUE
  Failing = {3}
INVARIANTS
  FloodReachesRadius
  AlertsAreAcknowledged
PROPERTIES
  TraceEnds
CHECK_DEADLOCK FALSE
