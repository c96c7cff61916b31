\* Two goroutines share a pool of two connections, everything can fail.
SPECIFICATION Spec
CONSTANTS
    s1 = s1
    s2 = s2
    c1 = c1
    c2 = c2
    NoTx = NoTx
    Procs = {p1, p2}
    Shards = {s1, s2}
    Conns = {c1, c2}
    PoolOf <- SharedPool
    Tx = {t1, t2, t3}
    MaxDepth = 2
    Features <- Walks
    p1 = p1
    p2 = p2
    Faults = {"begin", "sql", "call", "commit", "cancel"}
SYMMETRY Symmetry
INVARIANTS
    TypeOK
    OneTxPerChain
    NoHoldAndWait
    NoLeak
    SearchPathSet
    AllOrNothing
    ResultTellsFate
PROPERTY
    ImplementsAtomicCalls
