SPECIFICATION FairSpec
CONSTANTS
    NULL = NULL
    c1 = c1
    c2 = c2
    c3 = c3
    x = x
    y = y
    Callers = {c1, c2, c3}
    LOC_SYNC_CALL_BUFFER_SIZE = 2
    Types = {x, y}
    TypesOf <- OwnType
    MaxCalls = 1
    EngineRefuses = TRUE
    EngineForgets = TRUE
    SpuriousWakeups = TRUE
INVARIANTS SlotsOwned NoLostSignal
PROPERTIES RightType CallsReturn
CHECK_DEADLOCK FALSE
