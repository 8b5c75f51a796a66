SPECIFICATION XdrSpec
CONSTANTS
    RPCROUTER_MSGSIZE_MAX = 18432
    XdrLengths = {0, 1, 5, 80, 256, 257, 18352, 18353}
CHECK_DEADLOCK FALSE
INVARIANT EventDelivered
