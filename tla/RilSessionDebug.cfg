SPECIFICATION Spec
CONSTANTS
    NULL = NULL
    Loop = Loop
    a1 = a1
    a2 = a2
    v1 = v1
    Events <- MCEvents
    MAX_FD_EVENTS = 4
    MaxFd = 4
    NumConns = 2
    ReqsPerConn = 1
    Addrs = {a1, a2}
    VendorThreads = {v1}
    s_maxNumClients = 2
    Kinds = {"plain", "radioTech"}
    Visitors <- Phone0
    DebugOptions = {"request", "radioOn", "nothing", "powerOff", "abort"}
    EagerReconnect = FALSE
    CompleteTwice = FALSE
CHECK_DEADLOCK FALSE
INVARIANT CommandFdAssertion
