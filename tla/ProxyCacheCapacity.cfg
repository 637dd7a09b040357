CONSTANTS
    t1 = t1
    k1 = k1
    k2 = k2
    k3 = k3
    Thread = {t1, t2, t3}
    Key = {k1, k2}
    Requests <- MCAnyRequests
    Addr = {a1, a2, a3}
    Head = head
    Tail = tail
    NULL = null
    MaxCacheSize = 3
    MaxObjectSize = 3
SPECIFICATION Spec
INVARIANT CapacityRespected
