\* The left indicator, its switch and remote commands, a circuit that fails and recovers,
\* a shutdown that may fail, reports that are refused or lost, restarts of both computers.
SPECIFICATION FaultSpec
CONSTANTS
  main = main
  ClockMod = 3
  MaxStep = 1
  Debounce = 0
  HalfPeriod = 1
  Wired = {"left"}
  Commanded = {"left_indicator"}
  Controllers = {main}
  MainComputer = main
  Flaky = {}
  MayReboot = TRUE
  Monitored = {"left_indicator"}
  CutOff = {"left_indicator"}
  Resisting = {"left_indicator"}
  Confirm = 2
  PublishInterval = 1
  Fates = {"refused", "lost", "arrives"}
INVARIANTS
  ShutdownHolds
  OnlyShutdownsOverride
  MainShowsFaults
  DiagnosticsCatchUp
PROPERTIES
  LatchedAreConfirmed
