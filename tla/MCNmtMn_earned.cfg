CONSTANTS
  Cn = {c1, c2}
  Mandatory = {c1}
  AsyncOnly = {}
  ToConfigure = {c1}
  Objects <- AllObjects
  Waits = FALSE
  Flaky = {c1, c2}
  CountMod = 8
  MaxFaults = 1
SPECIFICATION Spec
PROPERTIES Earned
CHECK_DEADLOCK FALSE
