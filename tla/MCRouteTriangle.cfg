SPECIFICATION SteadySpec
CONSTANTS
  Nodes <- TriangleNodes
  Links <- TriangleLinks
  LinkCosts <- TriangleCosts
  Penalties <- OnePenalty
  Loads <- Loaded
  RecoveredPenalty = 0
  MaxHops = 2
  Hysteresis = 1
  RouteLifetime = 1
  NeighborTimeout = 1
  AdvertInterval = 1
  RoundLimit = 3
  AirTime <- NoTime
  Lossy = {"HELLO", "HEARTBEAT", "RERR"}
  Reordering = TRUE
  MaxSeq = 2
  Slack = 1
INVARIANTS
  SteadyRoutesLead
  DiscoverySpreads
  DiscoverySettles
  NoFutureSequence
  RouteIsBacked
  FailedIsForgotten
PROPERTIES
  SwitchIsJustified
CHECK_DEADLOCK FALSE
