\* The README's claim for the brake, refuted.
SPECIFICATION Spec
CONSTANTS
  main = main
  ClockMod = 4
  MaxStep = 1
  Debounce = 2
  HalfPeriod = 1
  Wired = {"front"}
  Commanded = {"brake_bright"}
  Controllers = {main}
  MainComputer = main
  Flaky = {}
  MayReboot = FALSE
INVARIANTS
  BrakeForcesOn
