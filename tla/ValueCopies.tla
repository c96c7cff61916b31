----------------------------- MODULE ValueCopies -----------------------------
(***************************************************************************)
(* What the conversions of values promise: variables hold a value or NULL, *)
(* and what is stored or sent by one arrives at another.  A zero value and *)
(* NULL may be taken for each other on the way, and a value may be rounded *)
(* once.  After an error a variable must not be used before it is set.     *)
(***************************************************************************)
CONSTANTS
    Vars, Nobody, Values,
    Rounded,        \* what a value may become on the way
    Quoted,         \* what a text becomes that is converted to its JSON
    Null,           \* no value
    Unusable        \* a variable after an error, and a text nobody can read

VARIABLES
    place,    \* what the variables hold
    transit,  \* what is in the column or in the text
    deaf,     \* variables that may pass over NULL, "" and what they do not know
    last      \* the last call

vars == <<place, transit, deaf, last>>

Contents == Values \cup {Null, Unusable}

Init ==
    /\ place \in [Vars -> {"zero", Null}]
    /\ transit = Unusable
    /\ deaf \subseteq Vars
    /\ last = [call |-> "none", of |-> Nobody, err |-> FALSE]

Did(call, of, err) == last' = [call |-> call, of |-> of, err |-> err] /\ UNCHANGED deaf

\* Zero values and NULL are not told apart everywhere.
Like(v) == IF v \in {"zero", Null} THEN {"zero", Null} ELSE {v}

Assign(p) ==
    /\ Did("assign", p, FALSE)
    /\ \E v \in Contents : place' = [place EXCEPT ![p] = v]
    /\ UNCHANGED transit

Make(p) ==
    /\ Did("make", p, FALSE)
    /\ transit' \in IF place[p] = Unusable THEN Contents
                    ELSE Like(place[p]) \cup {Rounded[place[p]]}
    /\ UNCHANGED place

MakeFails(p) == Did("make", p, TRUE) /\ UNCHANGED <<place, transit>>

Replace ==
    /\ Did("replace", Nobody, FALSE)
    /\ transit' \in Contents
    /\ UNCHANGED place

\* A reading may use the text up.
Read(p) ==
    /\ Did("read", p, FALSE)
    /\ transit # Unusable
    /\ \E v \in Like(transit) : place' = [place EXCEPT ![p] = v]
    /\ transit' \in {transit, Unusable}

Pass(p) ==
    /\ Did("read", p, FALSE)
    /\ p \in deaf
    /\ transit \in {"zero", Null, Unusable}
    /\ UNCHANGED <<place, transit>>

\* An unusable variable that points to a struct of the program stays so.
ReadInto(p) ==
    /\ Did("read", p, FALSE)
    /\ place[p] = Unusable
    /\ UNCHANGED <<place, transit>>

Fail(p) ==
    /\ Did("read", p, TRUE)
    /\ place' = [place EXCEPT ![p] = Unusable]
    /\ transit' \in {transit, Unusable}

Convert(p, q) ==
    /\ Did("convert", p, FALSE)
    /\ \E v \in IF place[q] = Unusable THEN Contents ELSE Like(place[q]) \cup {Quoted} :
           place' = [place EXCEPT ![p] = v]
    /\ UNCHANGED transit

ConvertFails(p) ==
    /\ Did("convert", p, TRUE)
    /\ place' = [place EXCEPT ![p] = Unusable]
    /\ UNCHANGED transit

Next ==
    \/ Replace
    \/ \E p \in Vars :
        \/ Assign(p) \/ Make(p) \/ MakeFails(p)
        \/ Read(p) \/ Pass(p) \/ ReadInto(p) \/ Fail(p)
        \/ ConvertFails(p) \/ \E q \in Vars : Convert(p, q)

Spec == Init /\ [][Next]_vars
=============================================================================
