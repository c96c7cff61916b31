------------------------------ MODULE Queries ------------------------------
(***************************************************************************)
(* From the text a caller writes to the statement PostgreSQL runs.  Every  *)
(* call that sends SQL (PrepGet, PrepSelect, PrepExec, PrepQueryx, the     *)
(* cursor walk) passes its text through the same stages:                   *)
(*                                                                         *)
(*   In                      expands slices among the arguments and, when  *)
(*                           there are any, numbers the placeholders       *)
(*   AnalyzeAndReplaceQuery  drops comments and writes tables and columns  *)
(*                           for the mentions of models and fields         *)
(*   Rebind                  numbers the placeholders In left              *)
(*                                                                         *)
(* The stages know nothing of one another: In numbers by where the values  *)
(* of a slice fall, Rebind by order, and each has its own idea of which    *)
(* question mark is a placeholder.                                         *)
(*                                                                         *)
(* A text is a sequence of tokens, separated by blanks: only what a stage  *)
(* treats in its own way is a token kind.  The loops of the code run token *)
(* by token: todo is what a loop has ahead, done what it has written.      *)
(***************************************************************************)
EXTENDS Naturals, Sequences

CONSTANTS
    Names,          \* the names of models a query may mention
    Models,         \* the models registered in the store that runs the query
    Fields,         \* the names of fields a query may mention
    FieldsOf,       \* FieldsOf[m]: the fields of m that have a column
    Shards,         \* the shards a mention S.&M may name
    Requests        \* the calls: records of a query and its arguments

\* The tokens a caller writes ...
Text == [kind |-> "text"]
Bind == [kind |-> "?"]
Escape == [kind |-> "??"]
Operator == [kind |-> "?|"]             \* the jsonb operators ?| and ?&
Comment == [kind |-> "--?"]             \* a comment with a question mark in it
Numbered(n) == [kind |-> "$", n |-> n]  \* n is 0 for $0, and for a $ alone
Mention(s, m) == [kind |-> "&", schema |-> s, model |-> m]
Field(m, f) == [kind |-> ":", model |-> m, field |-> f]

NoSchema == <<"none">>                  \* &M
Current == <<"&CURRSCHEMA">>            \* &CURRSCHEMA.&M
Of(s) == <<"shard", s>>                 \* S.&M
NoModel == <<"none">>                   \* :F
By(m) == <<"model", m>>                 \* :M.F

Token ==
    {Text, Bind, Escape, Operator, Comment}
      \cup [kind : {"$"}, n : Nat]
      \cup [kind : {"&"}, schema : {NoSchema, Current} \cup {Of(s) : s \in Shards}, model : Names]
      \cup [kind : {":"}, model : {NoModel} \cup {By(m) : m \in Names}, field : Fields]

\* What is left of an argument when its Value() has been asked.  An error of
\* Value() leaves nil, a scalar; a pointer to a slice, which In measures by a
\* call that panics, is no argument here.
Argument == [slice : BOOLEAN, length : Nat]

ASSUME RequestsAssumption ==
    /\ Models \subseteq Names
    /\ FieldsOf \in [Models -> SUBSET Fields]
    /\ \A r \in Requests : /\ r.query \in Seq(Token)
                            /\ r.args \in Seq(Argument)
                            /\ \A i \in DOMAIN r.args : ~r.args[i].slice => r.args[i].length = 1

\* ... and those only the stages write.
Question == [kind |-> "question"]       \* a question mark PostgreSQL sees
Table(m) == [kind |-> "table", model |-> m]
Column(q, m, f) == [kind |-> "column", by |-> q, model |-> m, field |-> f]
Garbled(m) == [kind |-> "garbled", model |-> m]

Written ==
    Token \cup {Question}
      \cup [kind : {"table", "garbled"}, model : Names]
      \cup [kind : {"column"}, by : {NoModel} \cup {By(m) : m \in Names}, model : Names, field : Fields]

\* A value is the e-th element of the a-th argument; a scalar is its first.
Value(a, e) == <<a, e>>
Unset == <<0, 0>>

VARIABLES
    request,    \* the call
    stage,      \* where the text is
    todo, done, \* the text: what the loop of the stage has ahead, what it wrote
    meta,       \* In: where the values of each argument start, and how many
    flat,       \* the arguments the statement is sent with
    arg,        \* In: how many arguments the question marks have taken
    rpls,       \* AnalyzeAndReplaceQuery: the replacements of mentioned models
    j           \* Rebind: the last number given

vars == <<request, stage, todo, done, meta, flat, arg, rpls, j>>

args == request.args
AnySlice == \E i \in DOMAIN args : args[i].slice

Stages == {"measure", "in", "collect", "replace", "rebind", "ran", "refused", "panicked"}

Init ==
    /\ request \in Requests
    /\ stage = "measure"
    /\ todo = request.query /\ done = <<>>
    /\ meta = <<>> /\ flat = <<>>
    /\ arg = 0 /\ j = 0
    /\ rpls = <<>>

\* One turn of a loop over the text: the head is done, and became ts.
Write(ts) ==
    /\ done' = done \o ts
    /\ todo' = Tail(todo)

\* A stage hands what it wrote to the next one.
HandOver(next) ==
    /\ todo = <<>>
    /\ todo' = done /\ done' = <<>>
    /\ stage' = next

Refuse ==
    /\ stage' = "refused"
    /\ UNCHANGED <<request, todo, done, meta, flat, arg, rpls, j>>

-----------------------------------------------------------------------------
(* In, the first loop: it lays the values of all arguments in one row.     *)

\* A mutant: arguments are counted, not values.
CountsArguments == Len(meta)

flatArgsCount == IF meta = <<>> THEN 0
                 ELSE meta[Len(meta)].from + meta[Len(meta)].length - 1

\* A mutant: an empty slice is let through.
MeasureAny ==
    LET a == args[Len(meta) + 1]
    IN  /\ stage = "measure" /\ Len(meta) < Len(args)
        /\ meta' = Append(meta, [from |-> flatArgsCount + 1, length |-> a.length])
        /\ UNCHANGED <<request, stage, todo, done, flat, arg, rpls, j>>

\* The next argument starts where the row ends; an empty slice is an error.
MeasureArg ==
    LET a == args[Len(meta) + 1]
    IN  /\ stage = "measure" /\ Len(meta) < Len(args)
        /\ a.length > 0
        /\ meta' = Append(meta, [from |-> flatArgsCount + 1, length |-> a.length])
        /\ UNCHANGED <<request, stage, todo, done, flat, arg, rpls, j>>

MeasureRefuses ==
    /\ stage = "measure" /\ Len(meta) < Len(args)
    /\ args[Len(meta) + 1].length = 0
    /\ Refuse

\* Without slices In returns the query and the arguments as they came.
InSkips ==
    /\ stage = "measure" /\ Len(meta) = Len(args) /\ ~AnySlice
    /\ flat' = [k \in DOMAIN args |-> Value(k, 1)]
    /\ stage' = "collect"
    /\ UNCHANGED <<request, todo, done, meta, arg, rpls, j>>

InBegins ==
    /\ stage = "measure" /\ Len(meta) = Len(args) /\ AnySlice
    /\ flat' = [k \in 1..flatArgsCount |-> Unset]
    /\ stage' = "in"
    /\ UNCHANGED <<request, todo, done, meta, arg, rpls, j>>

-----------------------------------------------------------------------------
(* In, the second loop: it stops at every ? and $, wherever it is.         *)

Stops(t) == t.kind \in {"?", "??", "?|", "--?", "$"}

Row(a) == meta[a].from .. (meta[a].from + meta[a].length - 1)

Numbers(a) == [e \in 1..meta[a].length |-> Numbered(meta[a].from + e - 1)]

\* A mutant: only the first element of a slice gets its place.
FillFirst(a) == flat' = [flat EXCEPT ![meta[a].from] = Value(a, 1)]

\* The values of argument a take their places in the row.
Fill(a) == flat' = [k \in DOMAIN flat |->
                       IF k \in Row(a) THEN Value(a, k - meta[a].from + 1) ELSE flat[k]]

InCopies ==
    /\ stage = "in" /\ todo # <<>> /\ ~Stops(Head(todo))
    /\ Write(<<Head(todo)>>)
    /\ UNCHANGED <<request, stage, meta, flat, arg, rpls, j>>

\* Mutant: one argument is left when the loop gives up.
RunsOutEarly ==
    /\ stage = "in" /\ todo # <<>> /\ Stops(Head(todo))
    /\ arg + 1 >= Len(meta)
    /\ Refuse

\* The arguments are counted before the loop looks at what it stopped at.
InRunsOut ==
    /\ stage = "in" /\ todo # <<>> /\ Stops(Head(todo))
    /\ arg >= Len(meta)
    /\ Refuse

InSkipsEscape ==
    /\ stage = "in" /\ todo # <<>> /\ Head(todo) = Escape
    /\ arg < Len(meta)
    /\ Write(<<Escape>>)
    /\ UNCHANGED <<request, stage, meta, flat, arg, rpls, j>>

\* Of an operator ?| its bar stays; the numbers in a comment remain in it.
InQuestion ==
    /\ stage = "in" /\ todo # <<>> /\ Head(todo).kind \in {"?", "?|", "--?"}
    /\ arg < Len(meta)
    /\ arg' = arg + 1
    /\ Fill(arg + 1)
    /\ Write(IF Head(todo) = Comment THEN <<Comment>>
             ELSE IF Head(todo) = Operator THEN Append(Numbers(arg + 1), Text)
             ELSE Numbers(arg + 1))
    /\ UNCHANGED <<request, stage, meta, rpls, j>>

InNumber ==
    /\ stage = "in" /\ todo # <<>> /\ Head(todo).kind = "$"
    /\ arg < Len(meta)
    /\ Head(todo).n \in 1..Len(meta)
    /\ Fill(Head(todo).n)
    /\ Write(Numbers(Head(todo).n))
    /\ UNCHANGED <<request, stage, meta, arg, rpls, j>>

InOutOfRange ==
    /\ stage = "in" /\ todo # <<>> /\ Head(todo).kind = "$"
    /\ arg < Len(meta)
    /\ Head(todo).n > Len(meta)
    /\ Refuse

\* No number is looked up as argument 0: there is no element -1 of meta.  A
\* transaction recovers the panic, a cursor walk outside of one does not.
InPanics ==
    /\ stage = "in" /\ todo # <<>> /\ Head(todo) = Numbered(0)
    /\ arg < Len(meta)
    /\ stage' = "panicked"
    /\ UNCHANGED <<request, todo, done, meta, flat, arg, rpls, j>>

InEnds ==
    /\ stage = "in" /\ HandOver("collect")
    /\ UNCHANGED <<request, meta, flat, arg, rpls, j>>

-----------------------------------------------------------------------------
(* AnalyzeAndReplaceQuery                                                  *)

\* What a store's queryReplacers["&M"] holds: the table of M, its columns by
\* the name of the field and by model and field.
ReplaceEntries(m) ==
    [k \in {Mention(NoSchema, m)} \cup {Field(q, f) : q \in {NoModel, By(m)}, f \in FieldsOf[m]} |->
        IF k.kind = "&" THEN Table(m) ELSE Column(k.model, m, k.field)]

\* The replacements f, and those of g that f has not.
WithNew(f, g) == [k \in DOMAIN f \cup DOMAIN g |-> IF k \in DOMAIN f THEN f[k] ELSE g[k]]

\* A mutant: the model mentioned last gives a field its column.
CollectLast ==
    /\ stage = "collect" /\ todo # <<>>
    /\ LET t == Head(todo)
       IN  /\ Write(IF t = Comment THEN <<>> ELSE <<t>>)
           /\ rpls' = IF t.kind = "&" /\ t.schema = NoSchema /\ t.model \in Models
                      THEN WithNew(ReplaceEntries(t.model), rpls) ELSE rpls
    /\ UNCHANGED <<request, stage, meta, flat, arg, j>>

\* The scan drops comments.  A mention &M brings the entries of M, and
\* an entry that is there stays: the model mentioned first gives a field its
\* column.
Collect ==
    /\ stage = "collect" /\ todo # <<>>
    /\ LET t == Head(todo)
       IN  /\ Write(IF t = Comment THEN <<>> ELSE <<t>>)
           /\ rpls' = IF t.kind = "&" /\ t.schema = NoSchema /\ t.model \in Models
                      THEN WithNew(rpls, ReplaceEntries(t.model)) ELSE rpls
    /\ UNCHANGED <<request, stage, meta, flat, arg, j>>

CollectEnds ==
    /\ stage = "collect" /\ HandOver("replace")
    /\ UNCHANGED <<request, meta, flat, arg, rpls, j>>

\* A mention that is among the replacements is replaced, any other stays.
\* What the loop found for S.&M in the store of the shard S is overwritten
\* by the mention itself, and &CURRSCHEMA.&M has the schema put before it and
\* only its second half replaced: neither becomes a table.
Replace ==
    /\ stage = "replace" /\ todo # <<>>
    /\ LET t == Head(todo)
       IN  Write(<<IF t.kind = "&" /\ t.schema = Current THEN Garbled(t.model)
                   ELSE IF t.kind \in {"&", ":"} /\ t \in DOMAIN rpls THEN rpls[t]
                   ELSE t>>)
    /\ UNCHANGED <<request, stage, meta, flat, arg, rpls, j>>

ReplaceEnds ==
    /\ stage = "replace" /\ HandOver("rebind")
    /\ UNCHANGED <<request, meta, flat, arg, rpls, j>>

-----------------------------------------------------------------------------
(* Rebind                                                                  *)

RebindCopies ==
    /\ stage = "rebind" /\ todo # <<>> /\ Head(todo).kind # "?"
    /\ Write(<<IF Head(todo) = Escape THEN Question ELSE Head(todo)>>)
    /\ UNCHANGED <<request, stage, meta, flat, arg, rpls, j>>

RebindNumbers ==
    /\ stage = "rebind" /\ todo # <<>> /\ Head(todo).kind = "?"
    /\ j' = j + 1
    /\ Write(<<Numbered(j + 1)>>)
    /\ UNCHANGED <<request, stage, meta, flat, arg, rpls>>

\* The statement, done, is sent with the arguments flat.
Run ==
    /\ stage = "rebind" /\ todo = <<>>
    /\ stage' = "ran"
    /\ UNCHANGED <<request, todo, done, meta, flat, arg, rpls, j>>

Next ==
    \/ MeasureArg \/ MeasureRefuses \/ InSkips \/ InBegins
    \/ InCopies \/ InRunsOut \/ InSkipsEscape \/ InQuestion \/ InNumber
    \/ InOutOfRange \/ InPanics \/ InEnds
    \/ Collect \/ CollectEnds \/ Replace \/ ReplaceEnds
    \/ RebindCopies \/ RebindNumbers \/ Run

Spec == Init /\ [][Next]_vars

-----------------------------------------------------------------------------
(* Properties.                                                             *)

\* Every variable holds values of its kind.
TypeOK ==
    /\ request \in Requests
    /\ stage \in Stages
    /\ todo \in Seq(Written) /\ done \in Seq(Written)
    /\ meta \in Seq([from : Nat \ {0}, length : Nat \ {0}]) /\ Len(meta) <= Len(args)
    /\ flat \in Seq(Nat \X Nat)
    /\ arg \in Nat /\ j \in Nat

\* The text past In, and what In has done of it, when there are slices: no
\* placeholder is left, and a number stands for a value that is in the row.
Settled == {t \in Written : /\ t.kind # "?"
                            /\ t.kind = "$" => t.n \in DOMAIN flat /\ flat[t.n] # Unset}

(***************************************************************************)
(* A statement expanded from slices never has a number without a value:    *)
(* In allots the row of values before it reads the text, numbers by it,    *)
(* and puts a value in when it first writes its number, so what it has     *)
(* not put in is not referred to; and Rebind, which counts from one again, *)
(* finds no placeholder left to number (inbind.go 79-151, rebind.go        *)
(* 17-36).                                                                 *)
(***************************************************************************)
EveryNumberIsSet ==
    stage = "ran" /\ AnySlice => \A i \in DOMAIN done : done[i] \in Settled

\* The parts of an inductive invariant.
RowsFit == \A i \in DOMAIN meta : meta[i].from + meta[i].length - 1 <= flatArgsCount

RowIsMade ==
    stage \in {"in", "collect", "replace", "rebind", "ran"} /\ AnySlice
        => flat \in [1..flatArgsCount -> Nat \X Nat]

TextIsSettled ==
    /\ stage = "measure" => done = <<>>
    /\ stage = "ran" => todo = <<>>
    /\ stage = "in" => AnySlice /\ done \in Seq(Settled)
    /\ stage \in {"collect", "replace", "rebind", "ran"} /\ AnySlice
          => todo \in Seq(Settled) /\ done \in Seq(Settled)

NamesAreKept == /\ DOMAIN rpls \subseteq Written
                /\ \A k \in DOMAIN rpls : rpls[k] \in Written /\ rpls[k].kind \in {"table", "column"}

Inv == TypeOK /\ RowsFit /\ RowIsMade /\ TextIsSettled /\ NamesAreKept

=============================================================================
