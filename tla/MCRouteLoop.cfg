SPECIFICATION Spec
CONSTANTS
  Nodes <- TriangleNodes
  Links <- TriangleLinks
  LinkCosts <- EvenTriangle
  Penalties <- OnePenalty
  Loads <- NoLoad
  RecoveredPenalty = 0
  MaxHops = 3
  Hysteresis = 1
  RouteLifetime = 2
  NeighborTimeout = 2
  AdvertInterval = 1
  RoundLimit = 4
  AirTime <- NoTime
  Lossy = {}
  Reordering = FALSE
  MaxSeq = 1
INVARIANTS
  NoForwardingLoop
CHECK_DEADLOCK FALSE
