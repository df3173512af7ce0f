\* A running loop, power losses, short timings and a siren driver that may fail.
SPECIFICATION FairSpec
CONSTANTS
  ClockMod = 4
  MaxStep = 1
  StopConfirm = 2
  WarningConfirm = 0
  TriggerConfirm = 1
  AlarmDuration = 1
  MainComputer = main
  Controllers = {main}
  StoreOutcomes <- Working
  DriverOutcomes <- MayFail
  MayReboot = TRUE
INVARIANTS
  InhibitOnlyWhenStopped
  LockedMeansInhibited
PROPERTIES
  NeverAssertedWhileRunning
  AlarmEnds
  PendingLocks
