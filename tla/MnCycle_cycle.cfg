CONSTANTS
  Req = {r1}
  StartCycles = 1
  Weight = 1
  Threshold = 2
  Lag = 1
  MaxFaults = 1
SPECIFICATION Spec
INVARIANT Attributed
PROPERTIES BufferStable SoaGoesOn
CHECK_DEADLOCK FALSE
