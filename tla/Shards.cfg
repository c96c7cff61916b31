\* Callbacks may do anything with the registry, and so may wait for ever.
SPECIFICATION FairSpec
CONSTANTS
    Procs = {p1, p2}
    NoProc = NoProc
    NoId = NoId
    Ids = {"a", "b"}
    MaxStores = 4
    CallbackOps = {"lookup", "set", "delete"}
CHECK_DEADLOCK FALSE
INVARIANTS
    WalkIsASnapshot
    SomeoneCanGoOn
PROPERTY
    EveryCallReturns
