SPECIFICATION NiSpec
CONSTANTS
    MaxRequests = 3
    MaxInits = 1
CHECK_DEADLOCK FALSE
INVARIANT ConsentIsOwn
