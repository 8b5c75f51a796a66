SPECIFICATION Spec
CONSTANTS
    NULL = NULL
    c1 = c1
    c2 = c2
    c3 = c3
    x = x
    y = y
    Callers = {c1, c2}
    LOC_SYNC_CALL_BUFFER_SIZE = 2
    Types = {x, y}
    TypesOf <- OwnType
    MaxCalls = 2
    EngineRefuses = FALSE
    EngineForgets = FALSE
    SpuriousWakeups = FALSE
PROPERTY ReportRemembered
CHECK_DEADLOCK FALSE
