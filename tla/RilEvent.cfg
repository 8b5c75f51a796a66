SPECIFICATION FairSpec
CONSTANTS
    NULL = NULL
    wk = wk
    b = b
    tm1 = tm1
    tm2 = tm2
    x = x
    y = y
    Events <- MCEvents
    Timers <- MCTimers
    Threads <- MCThreads
    Wakeup = wk
    FdOf <- MCFdOf
    Persistent <- MCPersistent
    Delays = {0, 1}
    MAX_FD_EVENTS = 2
    MaxFd = 2
    MaxTime = 2
    PipeCap = 1
INVARIANTS TableConsistent NoLostWakeup
PROPERTIES TimerService EventsServed
