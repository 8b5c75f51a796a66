SPECIFICATION Spec
CONSTANTS
    MaxRequests = 2
    MaxInits = 1
    GlueClients = {"a", "b"}
    LOC_API_CB_MAX_CLIENTS = 2
    MaxHandles = 3
    XTRA_BLOCK_SIZE = 2
    UINT8 = 6
    UINT16 = 8
    XtraLengths = {1, 2, 3, 4, 5, 6, 7, 8, 9, 10, 11, 12, 13, 14, 15}
    MaxParts = 14
    MaxHosts = 3
    Messages = {"m", "n"}
    Receivers = {"r1", "r2"}
    Elements = {"e1", "e2", "e3"}
    MaxQueues = 2
    RPCROUTER_MSGSIZE_MAX = 18432
    XdrLengths = {0, 1, 5, 80, 256, 257, 18352, 18353}
CHECK_DEADLOCK FALSE
INVARIANTS NoForeignEvent XtraWhole ServerCurrent PayloadIntact
PROPERTIES NiServed QueueIsFifo
