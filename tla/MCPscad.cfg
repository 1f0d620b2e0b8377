SPECIFICATION FairSpec
CONSTANTS
  Items <- TwoItems
  Documents = {1, 2}
  Listening = {"down", "acknowledging", "stock"}
  Editors = {"closed", "shown"}
  MaxFaults = 1
  Clients <- TwoClients
  Port <- OnePort
  Host <- TwoHosts
  MaxPolls = 2
  Page = "dashboard"
  Entered = {1, 2}
  Default = 1
  PageJobs <- FullRun
  CliJobs <- OneCommandLine
  MaxActs = 2
INVARIANTS
  OneOwner
  TrustedOutput
  ShownIsCurrent
CHECK_DEADLOCK FALSE
PROPERTY
  ExecutionsReturn
