SPECIFICATION FairSpec
CONSTANTS
  Nodes <- RadioNodes
  Requests <- RadioRequests
  Sender <- RadioSender
  Receivers <- RadioReceivers
  Urgency <- RadioUrgency
  Unicast <- RadioUnicast
  AirTime <- RadioAirTime
  Period = 2
  Processing = 1
  RetryDelay = 0
  SubmitDelays <- Submissions
  MaxBackoffs = 1
  MaxRetries = 1
  MaxExponent = 1
INVARIANTS
  OneTransceiver
  HalfDuplex
  ServedOnce
  FreeChannelServesAll
PROPERTIES
  EveryFrameResolved
