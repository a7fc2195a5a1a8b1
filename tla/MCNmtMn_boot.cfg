CONSTANTS
  Cn = {c1, c2}
  Mandatory = {c1}
  AsyncOnly = {}
  ToConfigure = {c1}
  Objects <- OneByOne
  Waits = FALSE
  Flaky = {c1, c2}
  CountMod = 8
  MaxFaults = 1
SPECIFICATION FairSpec
INVARIANTS SignalExact Watched
PROPERTIES BootCompletes
CHECK_DEADLOCK FALSE
