\* One controller, with another protocol version, that fails, recovers and also sends
\* unasked; writes may fail.
SPECIFICATION FairSpec
CONSTANTS
  northbridge = northbridge
  lighting = lighting
  Nodes = {lighting}
  AnswersBroadcast = {lighting}
  Compatible = {}
  ClockMod = 4
  MaxStep = 1
  HeartbeatInterval = 1
  OfflineTimeout = 2
  RediscoveryInterval = 2
  WriteResults <- MayFail
  Unasked = {"other"}
INVARIANTS
  OnlineMeansHeard
  NeverStopsAsking
PROPERTIES
  DeadNodeIsNoticed
  LiveNodeIsSeen
