SPECIFICATION Spec
CONSTANTS
    MaxEvents = 2
    MaxOps = 3
CHECK_DEADLOCK FALSE
INVARIANTS WakeWhilePending EngineTold
PROPERTIES StopObeyed CleanupReturns
