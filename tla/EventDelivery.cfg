SPECIFICATION Spec
CONSTANTS
    e1 = e1
    e2 = e2
    e3 = e3
    i1 = i1
    i2 = i2
    t1 = t1
    t2 = t2
    k1 = k1
    k2 = k2
    Events = {e1, e2, e3}
    Ids = {i1, i2}
    IdOf <- MCIdOf
    Earlier = {e3}
    Tabs = {t1, t2}
    Device = Device
    Lacking = {{}, {t1, t2}}
    Gone = Gone
    GaveUp = GaveUp
    Slots = {k1, k2}
    Horizon = 1
    Ahead = 1
    Latency = 0
    DedupTTL = 3
    RetryMax = 1
    MaxFaults = 1
SYMMETRY Symmetry
INVARIANTS TypeOK StoredOnce AcceptedIsStored CountedWithinStored KeptWhilePageLives
PROPERTIES RejectedWritesNothing
CHECK_DEADLOCK FALSE
