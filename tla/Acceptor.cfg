CONSTANTS
    Conn = {c1, c2, c3}
    Thread = {t1, t2, t3}
    Cell = {p1, p2}
    MaxFd = 3
    Free = free
    Server = server
    NULL = null
SPECIFICATION FairSpec
INVARIANTS TypeOK CellsExclusive ConnectionsExclusive
PROPERTIES ConnectionsServed
