SPECIFICATION LayersSpec
CONSTANTS
    KernelCaller = {driver, timer}
    UserCaller = {app}
    Capacity = 2
    MaxPost = 4
    MaxRestart = 1
    MaxWrites = 6
INVARIANTS NoLostWakeup CountHolds NotTorn
PROPERTIES Drained AtMostOneBack
CHECK_DEADLOCK FALSE
