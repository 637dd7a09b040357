CONSTANTS
    t1 = t1
    k1 = k1
    k2 = k2
    k3 = k3
    Thread = {t1, t2, t3, t4}
    Key = {k1, k2}
    Requests <- MCRequests
    Addr = {a1, a2, a3}
    Head = head
    Tail = tail
    NULL = null
    MaxCacheSize = 3
    MaxObjectSize = 2
SPECIFICATION FairSpec
INVARIANTS TypeOK MutualExclusion CheckedOutIntact ListIntact NoResponseLost CacheLeftExact
PROPERTIES KeepsPromise CacheCallsReturn
