------------------------------ MODULE ValueTypes ------------------------------
(***************************************************************************)
(* The value types of fields (null*.go, uuid*.go, time.go, decimal.go ...) *)
(* as a table: what Scan and UnmarshalJSON make of a variable, what Value  *)
(* and MarshalJSON cannot tell apart, and what ConvertFrom takes.          *)
(*                                                                         *)
(* A variable has a value and the flag Valid, which the types without one  *)
(* always have.  "zero" is the zero value of the Go type.                  *)
(***************************************************************************)

(* What a call makes of a variable: its new value, its flag, an error.     *)
Outcome(val, valid, err) == [val |-> val, valid |-> valid, err |-> err]

Got   == Outcome("new", "yes", FALSE)   \* what was read
Zero  == Outcome("zero", "yes", FALSE)
Nil   == Outcome("zero", "no", FALSE)   \* NULL
Keep  == Outcome("old", "old", FALSE)   \* nothing, without an error
Valid == Outcome("old", "yes", FALSE)

Fails      == Outcome("old", "old", TRUE)
FailsValid == Outcome("old", "yes", TRUE)
FailsNull  == Outcome("old", "no", TRUE)
FailsZero  == Outcome("zero", "yes", TRUE)
FailsNil   == Outcome("zero", "no", TRUE)
FailsGot   == Outcome("new", "yes", TRUE)

(* What comes in: NULL or null, "", a text that is none of the type, a     *)
(* value of a Go type that Scan does not know, or a good one.              *)
Scans(null, empty, bad, other) ==
    [null |-> null, empty |-> empty, bad |-> bad, other |-> other, good |-> Got]

Unmarshals(null, empty, bad) ==
    [null |-> null, empty |-> empty, bad |-> bad, good |-> Got]

(* JSON texts of one value differ by type: of the ids some are in base58,  *)
(* some have a prefix.                                                     *)
Type(family, nullable, scan, json) ==
    [family |-> family, nullable |-> nullable, scan |-> scan, json |-> json,
     form |-> "plain", reads |-> {"plain"}, sentNull |-> {}, storedNull |-> {},
     clears |-> {}]
-----------------------------------------------------------------------------
Int64 == Type("int", FALSE, Scans(Zero, Fails, Fails, Fails), Unmarshals(Zero, Fails, Fails))

\* sql.NullInt64 sets Valid before it converts.
SqlNull == Scans(Nil, FailsValid, FailsValid, FailsValid)

NullInt64 == Type("int", TRUE, SqlNull, Unmarshals(Nil, Fails, Fails))

BigSerial == Type("int", TRUE, SqlNull, Unmarshals(Nil, Fails, Fails))

Bool == Type("bool", FALSE, Scans(Zero, Fails, Fails, Fails), Unmarshals(Zero, Fails, Fails))

NullBool == Type("bool", TRUE, SqlNull, Unmarshals(Nil, Fails, Fails))

Float64 == Type("float", FALSE, Scans(Zero, Fails, Fails, Fails), Unmarshals(Zero, Fails, Fails))

NullFloat64 == Type("float", TRUE, SqlNull, Unmarshals(Nil, Fails, Fails))

\* Every value of the driver becomes a text.
String == Type("string", FALSE, Scans(Zero, Got, Got, Got), Unmarshals(Zero, Got, Fails))

NullString == Type("string", TRUE, Scans(Nil, Got, Got, Got), Unmarshals(Nil, Got, Fails))

NullText == Type("string", TRUE, Scans(Nil, Got, Got, Got), Unmarshals(Nil, Got, Fails))

\* Text has no UnmarshalJSON, and its Scan falls out of the switch.
Text ==
    [Type("string", FALSE, Scans(Keep, Keep, FailsGot, Fails), Unmarshals(Keep, Got, Fails))
        EXCEPT !.scan.good = FailsGot]

TimeScan == Scans(Zero, FailsZero, FailsZero, Fails)

TimeJSON == Unmarshals(Zero, Zero, Fails)

Time == [Type("time", FALSE, TimeScan, TimeJSON) EXCEPT !.sentNull = {"zero"}]

NullTime ==
    [Type("time", TRUE, Scans(Nil, FailsNil, FailsNil, FailsNull), Unmarshals(Nil, Zero, FailsNull))
        EXCEPT !.sentNull = {"zero"}]

\* NULL and null become the text 0; the empty text is a number as well.
Nought == Outcome("nought", "yes", FALSE)

Decimal ==
    [Type("decimal", FALSE, Scans(Nought, Got, Fails, Fails), Unmarshals(Nought, Fails, Fails))
        EXCEPT !.sentNull = {"zero"}]

NullDecimal ==
    [Type("decimal", TRUE, Scans(Nil, Got, Fails, Fails), Unmarshals(Nil, Fails, Fails))
        EXCEPT !.sentNull = {"zero"}]

UUIDv4 == Type("uuid", FALSE, Scans(Keep, Keep, Fails, Fails), Unmarshals(Zero, Zero, Fails))

UUID58 == [UUIDv4 EXCEPT !.form = "base58", !.reads = {"base58"}]

UUIDOf == Type("uuid", FALSE, Scans(Keep, Keep, Fails, Fails), Unmarshals(Zero, Zero, Fails))

UUIDJsonTyped == [UUIDOf EXCEPT !.form = "prefixed", !.reads = {"plain", "prefixed"}]

\* An empty text leaves the id and sets Valid.
NullUUIDv4 == Type("uuid", TRUE, Scans(Nil, Valid, Fails, Fails), Unmarshals(Nil, Zero, Fails))

\* The package xid may set the nil id when a text is wrong.
XID ==
    [Type("xid", FALSE, Scans(Keep, Keep, Fails, Fails), Unmarshals(Zero, Zero, Fails))
        EXCEPT !.sentNull = {"zero"}, !.storedNull = {"zero"}, !.clears = {"cell", "text"}]

\* Neither Scan nor Value: database/sql does not know what to do with it.
XIDJsonTyped ==
    [XID EXCEPT !.form = "prefixed", !.reads = {"plain", "prefixed"}, !.clears = {"text"},
                !.scan = [what \in {"null", "empty", "bad", "other", "good"} |-> Fails]]

JsonB ==
    [Type("json", FALSE, Scans(Zero, Fails, Fails, Fails), Unmarshals(Zero, Got, Fails))
        EXCEPT !.sentNull = {"zero"}]

NullJsonB ==
    [Type("json", TRUE, Scans(Nil, FailsNull, FailsNull, Fails), Unmarshals(Nil, Got, FailsNull))
        EXCEPT !.sentNull = {"zero"}]

\* What is no []byte is passed over in silence.
StringArray == Type("strings", FALSE, Scans(Zero, Fails, Fails, Keep), Unmarshals(Zero, Fails, Fails))

UUIDv4Array == Type("uuids", FALSE, Scans(Zero, Fails, Fails, Keep), Unmarshals(Zero, Fails, Fails))

Uint64Array == Type("numbers", FALSE, Scans(Zero, Fails, Fails, Keep), Unmarshals(Zero, Fails, Fails))

AnyObjectMap == Type("map", FALSE, Scans(Zero, Fails, Fails, Keep), Unmarshals(Zero, Fails, Fails))

(* FD[T] scans into a fresh T, and unmarshals into the T it has.           *)
FDOf(t) ==
    LET Scanned(o) == IF o.err THEN Fails ELSE IF o.val = "old" THEN Zero ELSE o
        Unmarshalled(o) == [o EXCEPT !.valid = IF o.err THEN "no" ELSE "yes"]
    IN  [t EXCEPT !.nullable = TRUE, !.clears = @ \ {"cell"},
            !.scan = [what \in DOMAIN t.scan |-> IF what = "null" THEN Nil ELSE Scanned(t.scan[what])],
            !.json = [what \in DOMAIN t.json |-> IF what = "null" THEN Nil ELSE Unmarshalled(t.json[what])]]

Types ==
    [Int64 |-> Int64, NullInt64 |-> NullInt64, BigSerial |-> BigSerial, FDInt64 |-> FDOf(Int64),
     Bool |-> Bool, NullBool |-> NullBool, Float64 |-> Float64, NullFloat64 |-> NullFloat64,
     String |-> String, NullString |-> NullString, Text |-> Text, NullText |-> NullText,
     Time |-> Time, NullTime |-> NullTime, FDTime |-> FDOf(Time),
     Decimal |-> Decimal, NullDecimal |-> NullDecimal,
     UUIDv4 |-> UUIDv4, UUID58 |-> UUID58, UUIDOf |-> UUIDOf, UUIDJsonTyped |-> UUIDJsonTyped,
     NullUUIDv4 |-> NullUUIDv4, FDUUIDv4 |-> FDOf(UUIDv4),
     XID |-> XID, XIDJsonTyped |-> XIDJsonTyped, FDXID |-> FDOf(XID),
     JsonB |-> JsonB, NullJsonB |-> NullJsonB,
     StringArray |-> StringArray, UUIDv4Array |-> UUIDv4Array, Uint64Array |-> Uint64Array,
     AnyObjectMap |-> AnyObjectMap]

-----------------------------------------------------------------------------
(* ConvertFrom, between variables of one family: the flag is copied, or    *)
(* the value is taken whatever the flag says, or its JSON is taken.        *)
IntConverts ==
    {<<"Int64", "Int64", "take">>, <<"Int64", "NullInt64", "take">>,
     <<"NullInt64", "NullInt64", "copy">>, <<"NullInt64", "Int64", "take">>}

SerialConverts == {<<"BigSerial", "BigSerial", "copy">>, <<"BigSerial", "Int64", "take">>}

\* A Bool is no bool.
BoolConverts == {<<"Bool", "NullBool", "take">>, <<"NullBool", "NullBool", "copy">>}

FloatConverts ==
    {<<"Float64", "Float64", "take">>, <<"Float64", "NullFloat64", "take">>,
     <<"NullFloat64", "NullFloat64", "copy">>, <<"NullFloat64", "Float64", "take">>}

\* A String is no string: it arrives with its quotes.
StringConverts ==
    {<<"NullString", "NullString", "copy">>, <<"String", "String", "quote">>, <<"NullString", "String", "quote">>}
        \cup {<<"String", s, "take">> : s \in {"NullString", "Text", "NullText"}}
        \cup {<<"NullString", s, "take">> : s \in {"Text", "NullText"}}

TextConverts ==
    {<<"Text", "String", "quote">>} \cup {<<"Text", s, "take">> : s \in {"Text", "NullString", "NullText"}}

NullTextConverts ==
    {<<"NullText", "NullText", "copy">>, <<"NullText", "String", "quote">>}
        \cup {<<"NullText", s, "take">> : s \in {"Text", "NullString"}}

TimeConverts == {<<"Time", s, "take">> : s \in {"Time", "NullTime"}}

NullTimeConverts == {<<"NullTime", "NullTime", "copy">>, <<"NullTime", "Time", "take">>}

DecimalConverts == {<<"Decimal", s, "take">> : s \in {"Decimal", "NullDecimal"}}

NullDecimalConverts == {<<"NullDecimal", "NullDecimal", "copy">>, <<"NullDecimal", "Decimal", "take">>}

UUIDv4Converts == {<<"UUIDv4", "UUIDv4", "take">>}

UUID58Converts == {<<"UUID58", s, "take">> : s \in {"UUID58", "UUIDv4"}}

UUIDOfConverts == {<<"UUIDOf", s, "take">> : s \in {"UUIDOf", "UUIDv4"}}

JsonBConverts == {<<"JsonB", s, "take">> : s \in {"JsonB", "NullJsonB"}}

NullJsonBConverts == {<<"NullJsonB", "NullJsonB", "copy">>, <<"NullJsonB", "JsonB", "wrap">>}

Converts ==
    UNION {IntConverts, SerialConverts, BoolConverts, FloatConverts, StringConverts, TextConverts,
           NullTextConverts, TimeConverts, NullTimeConverts, DecimalConverts, NullDecimalConverts,
           UUIDv4Converts, UUID58Converts, UUIDOfConverts, JsonBConverts, NullJsonBConverts}

\* The types that have ConvertFrom.
Converters == {c[1] : c \in Converts}
=============================================================================
