\* One controller, a working store and siren driver, power losses, watched by the
\* history variables.
SPECIFICATION MonitorSpec
CONSTANTS
  ClockMod = 5
  MaxStep = 2
  StopConfirm = 2
  WarningConfirm = 0
  TriggerConfirm = 2
  AlarmDuration = 2
  MainComputer = main
  Controllers = {main}
  StoreOutcomes <- Working
  DriverOutcomes <- Working
  MayReboot = TRUE
INVARIANTS
  TypeOK
  SirenHasTimer
  PersistedIntent
  InhibitAfterConfirmedStop
  SirenIsBounded
  AcknowledgedIntentSurvives
  ModeIsReported
PROPERTIES
  SirenNeedsFreshTrigger
  ImplementsImmobiliser
