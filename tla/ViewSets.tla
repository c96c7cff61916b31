------------------------------ MODULE ViewSets ------------------------------
(***************************************************************************)
(* What the users of views see: a view is a value of the model and a set   *)
(* of its fields, those that were given.  Views share nothing: a call      *)
(* changes the view it is made on and no other.                            *)
(***************************************************************************)
CONSTANTS Fields, Values, Zero, Views

VARIABLE content   \* content[v]: the value, the fields given, and whether there is a view

Zeros == [f \in Fields |-> Zero]

Empty == [is |-> TRUE, val |-> Zeros, given |-> {}]

None == [Empty EXCEPT !.is = FALSE]

Init == content = [v \in Views |-> Empty]

Becomes(v, c) == content'[v] = c

OthersStay(v) == content' = [content EXCEPT ![v] = content'[v]]

Clear(v) == content'[v] \in {Empty, None}

\* Which fields are given stays as it is: what they hold is the caller's.
Assign(v, f, x) == Becomes(v, [content[v] EXCEPT !.val[f] = x])

Give(v, f) == Becomes(v, [content[v] EXCEPT !.given = @ \cup {f}])

Take(v) == /\ content'[v].given \subseteq content[v].given
           /\ Becomes(v, [content[v] EXCEPT !.given = content'[v].given])

\* A field that is not given is zero after a view was read.
Read(v) ==
    content'[v] \in {c \in [is : {TRUE}, val : [Fields -> Values], given : SUBSET Fields] :
                        \A f \in Fields \ c.given : c.val[f] = Zero}

Copy(v, w) == content[w].is /\ Becomes(v, content[w])

Next ==
    \E v \in Views :
        /\ OthersStay(v)
        /\ \/ Clear(v) \/ Read(v)
           \/ \E w \in Views \ {v} : Copy(v, w)
           \/ /\ content[v].is
              /\ \/ Take(v)
                 \/ \E f \in Fields : Give(v, f)
                 \/ \E f \in Fields, x \in Values : Assign(v, f, x)

Spec == Init /\ [][Next]_content
=============================================================================
