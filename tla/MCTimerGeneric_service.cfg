SPECIFICATION FairSpec
CONSTANTS
    led = led  nmt = nmt  sdo = sdo
    TIMERU_MAX_ENTRIES = 3
    Client = {led, nmt, sdo}
    SdoClient = {sdo}
    Timeout <- TwoTimeouts
    TickMod = 3
    Uptime = 1
    MaxTime = 2
    MaxEvents = 1
INVARIANTS PoolOK DeadlinesKept
PROPERTIES ImplementsTimers DueExpires
CHECK_DEADLOCK FALSE
