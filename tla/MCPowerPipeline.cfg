SPECIFICATION PipelineSpec
CONSTANTS
  Nodes <- Buses
  Lines <- AllLines
  Ends <- LineEnds
  InitiallyClosed <- AtFirst
  NormallyClosed <- AtFirst
  preserve_radial = TRUE
  Commands <- Batch
  MaxCommands = 3
  PostEventWindow = 1
  Requests <- Asked
  FaultTypes <- Types
  MaxToggles = 2
  restoration_delay = 1
INVARIANTS
  StaysRadial
  IsolationHolds
  AcceptedPathIsClosed
  BreakersFollowThePlane
  FaultsAsDeclared
  SnapshotIsFinalState
  PreviewIsSimulated
  OnlyHardwareLimitsRefuse
CHECK_DEADLOCK FALSE
