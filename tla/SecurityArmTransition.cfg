\* The claim of the server's own test, refuted.
SPECIFICATION Spec
CONSTANTS
  ClockMod = 6
  MaxStep = 2
  StopConfirm = 2
  WarningConfirm = 1
  TriggerConfirm = 2
  AlarmDuration = 3
  MainComputer = main
  Controllers = {main}
  StoreOutcomes <- Working
  DriverOutcomes <- Working
  MayReboot = TRUE
PROPERTIES
  NoAlarmAtArmTransition
