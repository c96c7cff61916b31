------------------------------- MODULE Structs -------------------------------
(***************************************************************************)
(* What a model description knows of a Go struct (fd.go,                   *)
(* structmodeller.go and ModelDesc.Init in md.go).                         *)
(*                                                                         *)
(* A struct is the row of its fields, those of embedded structs in their   *)
(* place.  A field has                                                     *)
(*   name      of the field in Go,                                         *)
(*   column    its name in the database, "" for the tag db:"-",            *)
(*   store     FALSE for the tag store:"-",                                *)
(*   json      its name in JSON, "" for the tag json:"-", and "-," for the *)
(*             tag json:"-,",                                              *)
(*   depth     the number of embedded structs it is in,                    *)
(*   exported  FALSE in an embedded struct whose type is not exported.     *)
(***************************************************************************)
EXTENDS Naturals

Field(name, column, store, json, depth, exported) ==
    [name |-> name, column |-> column, store |-> store, json |-> json,
     depth |-> depth, exported |-> exported]

IsStruct(s) == DOMAIN s \subseteq Nat /\ \A i \in DOMAIN s : s[i].depth \in Nat

\* NewFDByStructField; of is the field that is described.  JsonFieldName drops
\* what follows a comma and so finds no name in json:"-,", which does not skip
\* the field.
NewFD(f) ==
    [FieldName |-> f.name, DatabaseName |-> f.column,
     JsonName |-> IF f.json = "-," THEN "" ELSE f.json,
     Skip |-> f.column = "" \/ ~f.store, JsonSkip |-> f.json = "", of |-> f]

\* structFields: also the fields of embedded structs, but not those that are
\* hidden in a struct that is not exported.  They keep their positions in s.
Fields(s) == [i \in {i \in DOMAIN s : s[i].exported} |-> NewFD(s[i])]

\* Mutant: the columns are compared.
NotUniqueColumn(s) ==
    \E i, j \in DOMAIN Fields(s) : i # j /\ Fields(s)[i].DatabaseName = Fields(s)[j].DatabaseName

\* Init refuses a second field of one name.
NotUnique(s) ==
    \E i, j \in DOMAIN Fields(s) : i # j /\ Fields(s)[i].FieldName = Fields(s)[j].FieldName

\* Init enters the fields in their order: of two with one key the last stays.
Indexed(fds, At) == {fds[i] : i \in {i \in At : \A j \in At : j <= i}}

ColumnByFieldName(s, name) ==
    Indexed(Fields(s), {i \in DOMAIN Fields(s) : Fields(s)[i].FieldName = name})

ColumnByDatabaseName(s, column) ==
    Indexed(Fields(s), {i \in DOMAIN Fields(s) : Fields(s)[i].DatabaseName = column})

\* A field without a name in JSON is entered with its own.
JsonKey(fd) == IF fd.JsonName = "" THEN fd.FieldName ELSE fd.JsonName

ColumnByJsonName(s, key) ==
    Indexed(Fields(s), {i \in DOMAIN Fields(s) : JsonKey(Fields(s)[i]) = key})

\* reflect.Value.FieldByName: the field nearest to the top, if there is one.
FieldByName(s, name) ==
    LET named == {f \in {s[i] : i \in DOMAIN s} : f.name = name}
        top == {f \in named : \A g \in named : f.depth <= g.depth}
        once(f) == \A i, j \in DOMAIN s : s[i] = f /\ s[j] = f => i = j
    IN  IF \A f, g \in top : f = g /\ once(f) THEN top ELSE {}
=============================================================================
