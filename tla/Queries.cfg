SPECIFICATION Spec
CONSTANTS
    M1 = M1
    M2 = M2
    U = U
    S = S
    F = F
    G = G
    MaxPlaceholders = 3
    MaxMentions = 4
    MaxArgs = 2
    MaxSlice = 2
    Names <- MCNames
    Models <- MCModels
    Fields <- MCFields
    FieldsOf <- MCFieldsOf
    Shards <- MCShards
    Requests <- MCRequests
INVARIANTS
    TypeOK
    EveryNumberIsSet
    ValuesInPlace
    NamesResolved
    RefusedForAReason
\* A call ends when its statement is sent or refused.
CHECK_DEADLOCK FALSE
