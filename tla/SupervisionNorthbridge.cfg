\* The northbridge on a link that loses nothing it must not, refuted.
SPECIFICATION FairSpec
CONSTANTS
  northbridge = northbridge
  lighting = lighting
  Nodes = {northbridge}
  AnswersBroadcast = {}
  Compatible = {northbridge}
  ClockMod = 4
  MaxStep = 1
  HeartbeatInterval = 1
  OfflineTimeout = 2
  RediscoveryInterval = 2
  WriteResults <- Works
  Unasked = {}
PROPERTIES
  NorthbridgeIsSeen
