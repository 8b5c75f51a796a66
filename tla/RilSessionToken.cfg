SPECIFICATION Spec
CONSTANTS
    NULL = NULL
    Loop = Loop
    a1 = a1
    a2 = a2
    v1 = v1
    Events <- MCEvents
    MAX_FD_EVENTS = 4
    MaxFd = 4
    NumConns = 1
    ReqsPerConn = 2
    Addrs = {a1}
    VendorThreads = {v1}
    s_maxNumClients = 2
    Kinds = {"plain", "radioTech"}
    Visitors <- Phone0
    DebugOptions = {}
    EagerReconnect = FALSE
    CompleteTwice = TRUE
CHECK_DEADLOCK FALSE
INVARIANT CompletesItsOwn
