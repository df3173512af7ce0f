\* Two controllers, lost frames, NACKs, restarts, under a loop that keeps running.
SPECIFICATION FairSpec
CONSTANTS
  Peers = {lighting, security}
  MaxCommands = 2
  MaxSequence = 3
  QueueBound = 2
  MaxRetries = 2
  AckTimeout = 1
  ClockMod = 3
  MaxStep = 1
  SlowRestart = TRUE
INVARIANTS
  TypeOK
  GivenUpAfterAllRetries
PROPERTIES
  ImplementsService
  PendingIsSettled
