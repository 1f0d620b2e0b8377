SPECIFICATION FreshSpec
CONSTANTS
  Nodes <- RingNodes
  Links <- RingLinks
  LinkCosts <- EvenRing
  Penalties <- OnePenalty
  Loads <- NoRingLoad
  RecoveredPenalty = 0
  MaxHops = 3
  Hysteresis = 1
  RouteLifetime = 1
  NeighborTimeout = 1
  AdvertInterval = 1
  RoundLimit = 1
  AirTime <- NoTime
  Lossy = {}
  Reordering = FALSE
  MaxSeq = 2
PROPERTIES
  NeverOlderThanAccepted
CHECK_DEADLOCK FALSE
