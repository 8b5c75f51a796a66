SPECIFICATION Spec
CONSTANTS
    Counts = {0, 1, 2, 7}
    Versions = {2, 3, 4, 6, 7}
    DigitsMax = 2
    CARD_MAX_APPS = 8
    NUM_SERVICE_CLASSES = 3
    RIL_CDMA_MAX_NUMBER_OF_INFO_RECS = 5
    MaxRadio = 3
    MaxCards = 2
    DriverFails = TRUE
    MaxVoipOps = 5
    MaxLines = 2
    MaxFilterOps = 3
    Devices = {1, 2}
    Rates = {1, 2}
    MaxRouteOps = 3
    MaxPolicyOps = 4
    MaxRefs = 2
CHECK_DEADLOCK FALSE
INVARIANTS NoMadeUpNumbers WireAgrees ContractKept MvsReleased FiltersWhole RouteFollows DevicesFollow
PROPERTIES CardSeen
