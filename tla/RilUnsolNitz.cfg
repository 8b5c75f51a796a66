SPECIFICATION Spec
CONSTANTS
    NULL = NULL
    Loop = Loop
    i1 = i1
    i2 = i2
    i3 = i3
    v1 = v1
    v2 = v2
    VendorThreads = {v1, v2}
    Infos = {i1, i2, i3}
    MaxNitz = 1
    MaxConnects = 1
    MaxNested = 0
INVARIANT NitzDelivered
