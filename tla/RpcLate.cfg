SPECIFICATION Spec
CONSTANTS
    Callers = {c1}
    MaxCalls = 2
    MaxCallbacks = 1
    MaxResets = 0
    Nested = FALSE
CHECK_DEADLOCK FALSE
INVARIANT NoLateCall
