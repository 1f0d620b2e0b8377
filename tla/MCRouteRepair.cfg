SPECIFICATION EditSpec
CONSTANTS
  Nodes <- KiteNodes
  Links <- KiteLinks
  LinkCosts <- KiteCosts
  Penalties <- OnePenalty
  Loads <- NoLoad
  RecoveredPenalty = 0
  MaxHops = 3
  Hysteresis = 1
  RouteLifetime = 1
  NeighborTimeout = 1
  AdvertInterval = 1
  RoundLimit = 6
  AirTime <- NoTime
  Lossy = {}
  Reordering = FALSE
  MaxSeq = 3
  Fallible = {4}
  Editable = {2}
  Cached = 2
  MaxEdits = 1
INVARIANTS
  DiscoveryConverges
  ExpiryRepairs
  DeadAreForgotten
PROPERTIES
  DeadDestinationsVanish
  RoutesRecover
CHECK_DEADLOCK FALSE
