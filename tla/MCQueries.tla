------------------------------ MODULE MCQueries ------------------------------
(* Every short query over the placeholders with every short list of        *)
(* arguments, and every query of four tokens over the mentions.            *)
EXTENDS QueryMeaning

CONSTANTS M1, M2, U, S, F, G, MaxPlaceholders, MaxMentions, MaxArgs, MaxSlice

MCNames == {M1, M2, U}
MCModels == {M1, M2}
MCFields == {F, G}
MCFieldsOf == [m \in MCModels |-> IF m = M1 THEN {F} ELSE {F, G}]
MCShards == {S}

PlaceholderTokens == {Text, Bind, Escape, Operator, Comment, Numbered(0), Numbered(1), Numbered(2)}

MentionTokens ==
    {Bind}
      \cup {Mention(NoSchema, m) : m \in MCNames} \cup {Mention(Current, M1), Mention(Of(S), M1)}
      \cup {Field(NoModel, f) : f \in MCFields} \cup {Field(By(m), F) : m \in MCModels}

UpTo(X, n) == UNION {[1..k -> X] : k \in 0..n}

Arguments == [slice : {TRUE}, length : 0..MaxSlice] \cup {[slice |-> FALSE, length |-> 1]}

MCRequests ==
    [query : UpTo(PlaceholderTokens, MaxPlaceholders), args : UpTo(Arguments, MaxArgs)]
      \cup [query : UpTo(MentionTokens, MaxMentions),
            args : {[i \in 1..1 |-> [slice |-> FALSE, length |-> 1]]}]

==============================================================================
