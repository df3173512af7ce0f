\* A brake switch, both indicator switches and the flasher; one output's writes may fail.
SPECIFICATION Spec
CONSTANTS
  main = main
  ClockMod = 4
  MaxStep = 1
  Debounce = 2
  HalfPeriod = 2
  Wired = {"rear", "left", "right"}
  Commanded = {"brake_bright", "left_indicator"}
  Controllers = {main}
  MainComputer = main
  Flaky = {"left_indicator"}
  MayReboot = TRUE
INVARIANTS
  PhysicalControlsWin
  MainIsTold
PROPERTIES
  BouncesIgnored
  FlashesOnTime
