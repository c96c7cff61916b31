\* Two goroutines, three types, two of them of one name.
SPECIFICATION FairSpec
CONSTANTS
    NoProc = NoProc
    NoType = NoType
    Procs = {p1, p2}
    Types <- MCTypes
    TypeName <- MCTypeName
    Asking = {"There"}
    Programs <- MCPrograms
\* A model that asks for a description while its own is made waits for ever.
CHECK_DEADLOCK FALSE
INVARIANTS
    OneDescription
    DescriptionFits
PROPERTY
    EveryCallReturns
