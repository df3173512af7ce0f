\* Three nodes, clock wrap during and between runs.
SPECIFICATION Spec
CONSTANTS
  northbridge = northbridge
  lighting = lighting
  security = security
  Northbridge = northbridge
  Lighting = lighting
  Security = security
  Incompatible = {}
  ClockMod = 5
  MaxStep = 2
  Timeout = 2
  Shapes = {"short", "whole"}
INVARIANTS
  RunIsBounded
  ReportIsEarned
