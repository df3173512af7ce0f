\* Two bound nodes, two strangers for one free table entry; writes to one port or all may fail.
SPECIFICATION Spec
CONSTANTS
  main = main
  lighting = lighting
  stranger = stranger
  intruder = intruder
  Ports = {0, 1, 2}
  TableSize = 3
  Sources = {main, lighting, stranger, intruder}
  MainComputer = main
  SelfAddress = northbridge
  Broadcast = broadcast
  Bindings <- FirmwareBindings
  Enforced = TRUE
  Kinds = {"heartbeat", "other"}
  Outages <- SomeFail
  NoRoute = NoRoute
  MaxPackets = 3
SYMMETRY Strangers
CHECK_DEADLOCK FALSE
INVARIANTS
  TypeOK
  RoutesHold
  OnlyToItsOwner
  CountersBalance
