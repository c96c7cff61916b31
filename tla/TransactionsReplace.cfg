\* Replace is called without a transaction.
SPECIFICATION Spec
CONSTANTS
    s1 = s1
    s2 = s2
    c1 = c1
    c2 = c2
    NoTx = NoTx
    Procs = {p1}
    Shards = {s1, s2}
    Conns = {c1, c2}
    PoolOf <- SharedPool
    Tx = {t1, t2}
    MaxDepth = 1
    Features <- Replaces
    p1 = p1
    p2 = p2
    Faults = {}
INVARIANT
    OneTxPerChain
