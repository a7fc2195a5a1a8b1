SPECIFICATION Spec
CONSTANTS
  Weight = 2
  Threshold = 3
  MaxLosses = 2
  MaxCommands = 2
  Lag = 1
INVARIANT LossOncePerCycle
CHECK_DEADLOCK FALSE
