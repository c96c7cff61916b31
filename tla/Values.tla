-------------------------------- MODULE Values --------------------------------
(***************************************************************************)
(* Two variables of value types, a column and a JSON text between them.    *)
(* What a type does is in the table ValueTypes; this module applies it.    *)
(***************************************************************************)
EXTENDS ValueTypes, Naturals, FiniteSets

CONSTANTS Vars, Nobody

VARIABLES
    type,    \* the names of the variables' types, of one family
    var,     \* their value, Valid, and the struct that a JsonB points to
    carried, \* what was stored or sent last
    torn,    \* variables to which a call returned an error, since they were set
    last     \* the last call, and whether it returned an error

valueVars == <<type, var, carried, torn, last>>

T(p) == Types[type[p]]

Family(p) == T(p).family

ValuesOf(family) ==
    CASE family = "bool"    -> {"zero", "a"}
      [] family = "time"    -> {"zero", "milli", "micro"}
      [] family = "decimal" -> {"zero", "nought", "a"}
      [] family = "json"    -> {"zero", "a", "b", "ab"}
      [] family = "string"  -> {"zero", "a", "quoted"}
      [] OTHER              -> {"zero", "a", "b"}

Valuables == UNION {ValuesOf(Types[n].family) : n \in DOMAIN Types}

NoStruct == 0
Structs == 1 .. Cardinality(Vars)

Nothing == [in |-> "none", what |-> "bad", form |-> "plain", val |-> "zero",
            from |-> Nobody, meant |-> "zero"]

Did(call, of, err) == [call |-> call, of |-> of, err |-> err]

ValuesInit ==
    /\ type \in {t \in [Vars -> DOMAIN Types] :
                    \A p, q \in Vars : Types[t[p]].family = Types[t[q]].family}
    /\ var = [p \in Vars |-> [val |-> "zero", valid |-> ~T(p).nullable, into |-> NoStruct]]
    /\ carried = Nothing
    /\ torn = {}
    /\ last = Did("none", Nobody, FALSE)

\* The nil XID is NULL in the database, also where it is no null type.
IsNull(p) == ~var[p].valid \/ var[p].val \in T(p).storedNull

Meant(p) == IF var[p].valid THEN var[p].val ELSE "NULL"
-----------------------------------------------------------------------------
Assign(p) ==
    /\ \E v \in ValuesOf(Family(p)) \ {"quoted"}, valid \in BOOLEAN, s \in {NoStruct} \cup Structs :
           /\ ~valid => T(p).nullable /\ v = "zero"
           /\ s # NoStruct =>
                /\ Family(p) = "json" /\ v # "zero"
                /\ \A q \in Vars \ {p} : var[q].into # s
           /\ var' = [var EXCEPT ![p] = [val |-> v, valid |-> valid, into |-> s]]
    /\ torn' = torn \ {p}
    /\ last' = Did("assign", p, FALSE)
    /\ UNCHANGED <<type, carried>>

\* Value(): what the column gets.
Stored(p) ==
    LET v == IF var[p].val = "zero" /\ Family(p) = "decimal" THEN "nought" ELSE var[p].val
    IN  [in |-> "cell", form |-> "plain", val |-> v, from |-> p, meant |-> Meant(p),
         what |-> IF IsNull(p) THEN "null"
                  ELSE IF Family(p) = "string" /\ v = "zero" THEN "empty"
                  ELSE "good"]

\* The tag nullable decides whether the column takes NULL.
Store(p) ==
    \E notNull \in BOOLEAN :
        LET refused == type[p] = "XIDJsonTyped" \/ (IsNull(p) /\ notNull)
        IN  /\ carried' = IF refused THEN carried ELSE Stored(p)
            /\ last' = Did("make", p, refused)
            /\ UNCHANGED <<type, var, torn>>

\* Mutant: Valid is not looked at.
SentInvalid(p) ==
    [in |-> "text", form |-> T(p).form, val |-> IF var[p].val = "micro" THEN "milli" ELSE var[p].val,
     from |-> p, meant |-> Meant(p),
     what |-> IF var[p].val \in T(p).sentNull THEN "null"
              ELSE IF Family(p) = "string" /\ var[p].val = "zero" THEN "empty"
              ELSE "good"]

\* MarshalJSON: times in milliseconds.
Sent(p) ==
    [in |-> "text", form |-> T(p).form, val |-> IF var[p].val = "micro" THEN "milli" ELSE var[p].val,
     from |-> p, meant |-> Meant(p),
     what |-> IF Meant(p) \in T(p).sentNull \cup {"NULL"} THEN "null"
              ELSE IF Family(p) = "string" /\ var[p].val = "zero" THEN "empty"
              ELSE "good"]

\* XIDJsonTyped puts its prefix into the text null, which is no JSON then.
Send(p) ==
    LET refused == type[p] = "XIDJsonTyped" /\ var[p].val = "zero"
    IN  /\ carried' = IF refused THEN carried ELSE Sent(p)
        /\ last' = Did("make", p, refused)
        /\ UNCHANGED <<type, var, torn>>

\* Columns and texts of others.
Replace ==
    /\ \E p \in Vars, in \in {"cell", "text"}, what \in {"null", "empty", "bad", "other"} :
           /\ what = "other" => in = "cell"
           /\ what = "empty" /\ in = "text" => Family(p) # "json"
           /\ what = "bad" /\ in = "cell" => Family(p) # "string"
           /\ carried' = [Nothing EXCEPT !.in = in, !.what = what,
                           !.val = IF what = "other" THEN "a" ELSE "zero",
                           !.meant = IF what = "null" THEN "NULL" ELSE IF what = "other" THEN "a" ELSE "zero"]
    /\ last' = Did("replace", Nobody, FALSE)
    /\ UNCHANGED <<type, var, torn>>
-----------------------------------------------------------------------------
\* What Scan or UnmarshalJSON of type t comes to.
Reading(t) ==
    IF carried.in = "cell" THEN t.scan[carried.what]
    ELSE IF carried.what = "good" /\ carried.form \notin t.reads THEN t.json["bad"]
    ELSE t.json[carried.what]

Outcomes(t) ==
    LET o == Reading(t)
    IN  {o} \cup IF o.err /\ carried.in \in t.clears THEN {[o EXCEPT !.val = "zero"]} ELSE {}

\* json.Unmarshal fills the struct that Val points to, and leaves its other
\* fields.
Merged(v, w) == IF v = w THEN v ELSE "ab"

\* Mutant: the flag is not reset.
AfterKeepingValid(o, x, v) ==
    LET w == CASE o.val = "old"  -> x.val
               [] o.val = "new"  -> IF x.into # NoStruct /\ v # "zero" THEN Merged(x.val, v) ELSE v
               [] OTHER          -> o.val
    IN  [val |-> w, valid |-> o.valid = "yes" \/ x.valid,
         into |-> IF w = "zero" THEN NoStruct ELSE x.into]

\* Mutant: NULL resets the flag alone.
AfterKeepingValue(o, x, v) ==
    LET w == CASE o.val = "old" \/ o.valid = "no" -> x.val
               [] o.val = "new"  -> IF x.into # NoStruct /\ v # "zero" THEN Merged(x.val, v) ELSE v
               [] OTHER          -> o.val
    IN  [val |-> w, valid |-> o.valid = "yes" \/ (o.valid = "old" /\ x.valid),
         into |-> IF w = "zero" THEN NoStruct ELSE x.into]

\* Mutant: the variable is written before the value is known to be good.
AfterWritingFirst(o, x, v) ==
    LET w == CASE o.val = "old" /\ ~o.err -> x.val
               [] o.val = "new" \/ o.err -> IF x.into # NoStruct /\ v # "zero" THEN Merged(x.val, v) ELSE v
               [] OTHER          -> o.val
    IN  [val |-> w, valid |-> o.valid = "yes" \/ (o.valid = "old" /\ x.valid),
         into |-> IF w = "zero" THEN NoStruct ELSE x.into]

After(o, x, v) ==
    LET w == CASE o.val = "old"  -> x.val
               [] o.val = "new"  -> IF x.into # NoStruct /\ v # "zero" THEN Merged(x.val, v) ELSE v
               [] OTHER          -> o.val
    IN  [val |-> w, valid |-> o.valid = "yes" \/ (o.valid = "old" /\ x.valid),
         into |-> IF w = "zero" THEN NoStruct ELSE x.into]

\* Two variables may point to one struct.
Put(p, x) ==
    var' = [q \in Vars |->
              IF q = p THEN x
              ELSE IF x.into # NoStruct /\ var[q].into = x.into THEN [var[q] EXCEPT !.val = x.val]
              ELSE var[q]]

\* UUIDJsonTyped and XIDJsonTyped cut the prefix out of the caller's bytes.
UsesUp(t) == carried.in = "text" /\ carried.what = "good" /\ carried.form = "prefixed" /\ t.form = "prefixed"

Read(p) ==
    /\ \E o \in Outcomes(T(p)) :
           /\ Put(p, After(o, var[p], carried.val))
           /\ last' = Did("read", p, o.err)
           /\ torn' = IF o.err THEN torn \cup {p} ELSE IF o.val = "old" THEN torn ELSE torn \ {p}
    /\ carried' = IF UsesUp(T(p)) THEN [carried EXCEPT !.what = "bad"] ELSE carried
    /\ UNCHANGED type

\* A document that has a field of another type: json.Unmarshal fills the other
\* fields of the struct, and its error takes Valid away.
ReadInPart(p) ==
    /\ var[p].into # NoStruct
    /\ carried.what \in {"good", "bad"}
    /\ \E v \in {"a", "b"} :
           Put(p, [var[p] EXCEPT !.val = Merged(var[p].val, v), !.valid = ~T(p).nullable])
    /\ last' = Did("read", p, TRUE)
    /\ torn' = torn \cup {p}
    /\ UNCHANGED <<type, carried>>

Scan(p) == carried.in = "cell" /\ (Read(p) \/ ReadInPart(p))

UnmarshalJSON(p) == carried.in = "text" /\ (Read(p) \/ ReadInPart(p))

HowConverted(p, q) == {c[3] : c \in {c \in Converts : c[1] = type[p] /\ c[2] = type[q]}}

ConvertFrom(p, q) ==
    /\ \E how \in HowConverted(p, q) :
           var' = [var EXCEPT ![p] =
                     CASE how = "copy"  -> var[q]
                       [] how = "take"  -> [var[q] EXCEPT !.valid = TRUE]
                       [] how = "wrap"  -> [var[q] EXCEPT !.valid = TRUE, !.into = NoStruct]
                       [] how = "quote" -> [var[q] EXCEPT !.valid = TRUE, !.val = "quoted"]]
    /\ torn' = IF q \in torn THEN torn \cup {p} ELSE torn \ {p}
    /\ last' = Did("convert", p, FALSE)
    /\ UNCHANGED <<type, carried>>

ConvertFails(p, q) ==
    /\ type[p] \in Converters
    /\ HowConverted(p, q) = {}
    /\ torn' = torn \cup {p}
    /\ last' = Did("convert", p, TRUE)
    /\ UNCHANGED <<type, var, carried>>

ValuesNext ==
    \/ Replace
    \/ \E p \in Vars :
        \/ Assign(p) \/ Store(p) \/ Send(p) \/ Scan(p) \/ UnmarshalJSON(p)
        \/ \E q \in Vars : ConvertFrom(p, q) \/ ConvertFails(p, q)

ValuesSpec == ValuesInit /\ [][ValuesNext]_valueVars
-----------------------------------------------------------------------------
\* The empty text of a Decimal and 0 are one number.
Plain(v) == IF v = "nought" THEN "zero" ELSE v

RoundedValue(v) == IF v = "micro" THEN "milli" ELSE v

\* What a variable holds after a reading is what was meant: NULL where the type
\* has it, and zero where it has not; a zero that travels as NULL becomes either.
Arrived(t, x, meant) ==
    \/ x.valid /\ Plain(x.val) = Plain(meant)
    \/ /\ meant = "NULL" \/ (meant = "zero" /\ carried.what = "null")
       /\ IF t.nullable THEN ~x.valid ELSE Plain(x.val) = "zero"

\* Ids keep what they hold when NULL or "" is read, against their comment
\* (EmptyIdIsNull), and arrays what is no []byte, without an error (uuid.go:55,
\* stringarray.go:34).
Deaf(t) == \E what \in DOMAIN t.scan : t.scan[what].val = "old" /\ ~t.scan[what].err

\* What a variable stored, every type of its family reads from the column, NULLs
\* included, whatever it held before and whatever calls failed (Scan and Value
\* of all types).  Not so Text, whose Scan always returns an error (text.go:33),
\* XIDJsonTyped, and a JsonB that points to a struct.
StoredComesBack ==
    carried.in = "cell" /\ carried.from # Nobody =>
        \A p \in Vars :
            \/ type[p] \in {"Text", "XIDJsonTyped"}
            \/ var[p].into # NoStruct
            \/ Deaf(T(p)) /\ carried.what = "null"
            \/ \A o \in Outcomes(T(p)) :
                   ~o.err /\ Arrived(T(p), After(o, var[p], carried.val), carried.meant)

\* What a variable sent as JSON, every type that knows the form reads, to the
\* millisecond (MarshalJSON and UnmarshalJSON of all types), unless the text was
\* used up by a type with a prefix (typeduuid.go:150).
SentComesBack ==
    carried.in = "text" /\ carried.from # Nobody /\ carried.what # "bad" =>
        \A p \in Vars :
            \/ carried.form \notin T(p).reads /\ carried.what = "good"
            \/ var[p].into # NoStruct
            \/ type[p] = "Text" /\ carried.what = "null"
            \/ \A o \in Outcomes(T(p)) :
                   ~o.err /\ Arrived(T(p), After(o, var[p], carried.val), RoundedValue(carried.meant))

\* p is the variable of the last call, or has the struct of that one.
Touched(p) == p = last.of \/ var[p].into = var[last.of].into

\* A call that returns an error shows no value that was not there: every variable
\* is as it was, zero or NULL (sql.NullInt64 turns NULL into zero).  Text alone
\* has the new value; and of the variables that point to a struct of the program,
\* those with the one that was read into may show it filled in part (jsonb.go:72).
FailureIsContained ==
    [][last'.err =>
          \A p \in Vars :
              \/ Meant(p)' \in {Meant(p), "zero", "NULL"}
              \/ type[p] = "Text"
              \/ var[p].into # NoStruct /\ Touched(p)']_valueVars

\* An id into which an empty text is scanned without an error is the null one
\* ("if an empty UUID comes from a table, we return a null UUID", uuid.go:58,
\* typeduuid.go:77, xid.go:78), whatever it held before.  What the code keeps:
\* TLC finds an id that shows the row before.
EmptyIdIsNull ==
    /\ last.call = "read" /\ ~last.err
    /\ carried.in = "cell" /\ carried.what = "empty"
    /\ Family(last.of) \in {"uuid", "xid"}
    => Meant(last.of) \in {"zero", "NULL"}

\* ValueCopies says what the conversions promise, and to which types and
\* variables they do not promise it.
Unsafe(p) == p \in torn \/ var[p].into # NoStruct

Place == [p \in Vars |-> IF Unsafe(p) THEN "unusable" ELSE Plain(Meant(p))]

Transit ==
    CASE carried.what = "bad" -> "unusable"
      [] carried.what = "other" -> IF \E p \in Vars : Family(p) = "string" THEN "a" ELSE "unusable"
      [] carried.what = "null" -> "NULL"
      [] OTHER -> Plain(carried.val)

Copies == INSTANCE ValueCopies WITH
    Values <- Valuables \ {"nought"},
    Rounded <- [v \in Valuables \cup {"NULL"} |-> RoundedValue(v)],
    Null <- "NULL", Unusable <- "unusable", Quoted <- "quoted",
    deaf <- {p \in Vars : Deaf(T(p))}, place <- Place, transit <- Transit

ImplementsValueCopies == Copies!Spec
=============================================================================
