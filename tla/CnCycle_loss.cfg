SPECIFICATION FairSpec
CONSTANTS
  Weight = 2
  Threshold = 3
  MaxLosses = 2
  MaxCommands = 2
  Lag = 1
INVARIANTS SocLossReal PreqLossReal
PROPERTIES SilenceDetected CountersRecover
CHECK_DEADLOCK FALSE
