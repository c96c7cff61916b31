\* Call chains may begin several transactions, and connections are scarce.
SPECIFICATION FairSpec
CONSTANTS
    s1 = s1
    s2 = s2
    c1 = c1
    c2 = c2
    NoTx = NoTx
    Procs = {p1, p2}
    Shards = {s1, s2}
    Conns = {c1, c2}
    PoolOf <- OwnPools
    Tx = {t1, t2}
    MaxDepth = 2
    Features <- Mixed
    p1 = p1
    p2 = p2
    Faults = {"sql", "lostReply"}
INVARIANTS
    NoLeak
PROPERTY
    EveryCallReturns
\* Goroutines that hold a connection can wait for each other for ever.
CHECK_DEADLOCK FALSE
