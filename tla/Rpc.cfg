SPECIFICATION Spec
CONSTANTS
    Callers = {c1}
    MaxCalls = 2
    MaxCallbacks = 2
    MaxResets = 1
    Nested = FALSE
CHECK_DEADLOCK FALSE
INVARIANTS OwnReply NoUseAfterFree WakeReleased
PROPERTIES InputConsumed CallsReturn Delivered
