------------------------------- MODULE MCMdRepo -------------------------------
EXTENDS MdRepo

\* There and Here are types of one name in two packages.
MCTypes == {"One", "Here", "There"}
MCTypeName == [One |-> "One", Here |-> "Both", There |-> "Both"]

\* Where a field may be: in the struct, one or two embedded structs deep, or
\* in an embedded struct that is not exported.
Places == {<<0, TRUE>>, <<1, TRUE>>, <<2, TRUE>>, <<1, FALSE>>}

\* Two fields: of one name, in one column, or with one name in JSON.
Nested == {<<Field("A", "a", TRUE, "A", f[1], f[2]), Field(name, "b", TRUE, "b", g[1], g[2])>> :
              f, g \in Places, name \in {"A", "B"}}

Tagged == {<<Field("A", "a", store, "A", 0, TRUE), Field("B", column, TRUE, "b", 1, TRUE)>> :
              store \in BOOLEAN, column \in {"", "a", "b"}}

Sent == {<<Field("A", "a", TRUE, f, 0, TRUE), Field("B", "b", TRUE, g, 1, TRUE)>> :
            f \in {"", "-,", "A", "B"}, g \in {"", "-,", "A", "B"}}

\* Go refuses two fields of one name in one struct.
Legal(s) == \A i, j \in DOMAIN s : i # j /\ s[i].name = s[j].name => s[i].depth + s[j].depth > 0

Plain == <<Field("A", "a", TRUE, "A", 0, TRUE)>>

MCPrograms ==
    {[t \in MCTypes |-> CASE t = "One" -> s [] t = "Here" -> Plain [] OTHER -> <<>>] :
        s \in {s \in Nested \cup Tagged \cup Sent : Legal(s)}}
=============================================================================
