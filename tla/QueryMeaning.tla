---------------------------- MODULE QueryMeaning ----------------------------
(***************************************************************************)
(* What the text of a call means, said at once and for the whole text,     *)
(* with nothing of the stages of Queries: the statement that PostgreSQL    *)
(* gets, with the values of its arguments in it, must be that.             *)
(***************************************************************************)
EXTENDS Queries, FiniteSets, FiniteSetsExt

asked == request.query

Binds(i) == Cardinality({k \in 1..i : asked[k] = Bind})

\* The k-th ? stands for the k-th argument, $n for the n-th.
ArgOf(i) == IF asked[i].kind = "$" THEN asked[i].n
            ELSE Binds(i)

Placeholders == {i \in DOMAIN asked : asked[i].kind \in {"?", "$"}}

ValueToken(v) == [kind |-> "value", value |-> v]

\* The models the query mentions, by where it does so.
Mentioned == {i \in DOMAIN asked : asked[i].kind = "&" /\ asked[i].schema = NoSchema
                                                      /\ asked[i].model \in Models}

\* The places that give field f a column.
Sources(f) == {i \in Mentioned : f \in FieldsOf[asked[i].model]}

WantedModel(t) == IF t.model \in Models THEN Table(t.model) ELSE t

WantedField(t) ==
    IF t.model = NoModel
    THEN IF Sources(t.field) = {} THEN t
         ELSE Column(NoModel, asked[Min(Sources(t.field))].model, t.field)
    ELSE IF \E i \in Sources(t.field) : t.model = By(asked[i].model)
         THEN Column(t.model, t.model[2], t.field) ELSE t

\* What a mention or a field of the query stands for in the statement.
WantedName(t) == IF t.kind = "&" THEN WantedModel(t) ELSE WantedField(t)

\* How many tokens of the statement a token of the query stands for.
Width == [i \in DOMAIN asked |->
             IF i \in Placeholders /\ ArgOf(i) \in DOMAIN args THEN args[ArgOf(i)].length
             ELSE IF asked[i] = Comment THEN 0 ELSE 1]

\* The e-th of them, if it is no name.
WantedValue(i, e) ==
    IF i \in Placeholders THEN ValueToken(Value(ArgOf(i), e))
    ELSE IF asked[i] = Escape THEN Question ELSE asked[i]

\* The sum of w[1] to w[i].
Total(w, i) == Cardinality(UNION {{k} \X (1..w[k]) : k \in 1..i})

\* The statement that was sent, with the arguments in it.
Sent == [i \in DOMAIN done |->
            IF done[i].kind = "$" /\ done[i].n \in DOMAIN flat
            THEN ValueToken(flat[done[i].n]) ELSE done[i]]

IsName(t) == t.kind \in {"&", ":", "table", "column", "garbled"}

NamesUpTo(text, i) == Cardinality({k \in 1..i : IsName(text[k])})

\* The caller passed every argument the query refers to.
AllPassed == \A i \in Placeholders : ArgOf(i) \in DOMAIN args

\* With slices, In takes the question marks of operators and comments for
\* placeholders: queries with both are left out.
Clear == AnySlice => \A i \in DOMAIN asked : asked[i] \notin {Operator, Comment}

\* No mention names a schema.
NoSchemas == \A i \in DOMAIN asked : asked[i].kind = "&" => asked[i].schema = NoSchema

-----------------------------------------------------------------------------
(***************************************************************************)
(* Every value arrives where the caller put its placeholder, the elements  *)
(* of a slice in their order, and ?? arrives as one question mark:         *)
(* whichever of In and Rebind numbered it, and with ? and $n in any        *)
(* mixture (inbind.go 14-16, rebind.go 8-9).                               *)
(***************************************************************************)
ValuesInPlace ==
    stage = "ran" /\ AllPassed /\ Clear =>
        /\ Len(Sent) = Total(Width, Len(asked))
        /\ \A i \in DOMAIN asked : \A e \in 1..Width[i] :
              LET token == Sent[Total(Width, i - 1) + e]
              IN  IF IsName(asked[i]) THEN IsName(token) ELSE token = WantedValue(i, e)

(***************************************************************************)
(* A mention of a registered model becomes its table, a field the column   *)
(* of the model that is mentioned first among those that have it, also     *)
(* when the field comes before the mention; what nothing is known of       *)
(* stays (qreplace.go 15-70, qrepl.go 9-36).  Mentions with a schema are   *)
(* left out: the code resolves none of them.                               *)
(***************************************************************************)
NamesResolved ==
    stage = "ran" /\ NoSchemas =>
        /\ NamesUpTo(Sent, Len(Sent)) = NamesUpTo(asked, Len(asked))
        /\ \A i \in DOMAIN asked, k \in DOMAIN Sent :
              IsName(asked[i]) /\ IsName(Sent[k]) /\ NamesUpTo(asked, i) = NamesUpTo(Sent, k)
                  => Sent[k] = WantedName(asked[i])

(***************************************************************************)
(* With slices, In refuses every query "if an argument wasn't passed"      *)
(* (inbind.go:86, 113) or is an empty slice: none is sent.  And it refuses *)
(* no other but those where, although all were passed, all are taken when  *)
(* a mark follows that takes none, ?? or $n: it counts before it looks.    *)
(***************************************************************************)
AllTakenBefore(i) ==
    /\ Stops(asked[i]) /\ asked[i] # Bind
    /\ Binds(i - 1) >= Len(args)

NoneEmpty == \A i \in DOMAIN args : args[i].length > 0

RefusedForAReason ==
    /\ stage = "refused" /\ Clear => \/ ~AllPassed \/ ~NoneEmpty
                                     \/ \E i \in DOMAIN asked : AllTakenBefore(i)
    /\ stage = "ran" /\ AnySlice /\ Clear => AllPassed /\ NoneEmpty

\* What makes it inductive: In knows how many arguments the placeholders behind
\* it have taken, and has the rest of the query ahead.
Behind == Len(asked) - Len(todo)

InCounts ==
    /\ stage = "measure" => todo = asked /\ arg = 0
    /\ stage = "in" =>
          /\ Behind \in Nat
          /\ \A k \in DOMAIN todo : todo[k] = asked[Behind + k]
          /\ Len(meta) = Len(args)
          /\ Clear => arg = Binds(Behind)
=============================================================================
