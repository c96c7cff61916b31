---------------------------- MODULE QueriesProofs ----------------------------
(***************************************************************************)
(* Whatever the queries, the arguments and the models: a statement that    *)
(* was expanded from slices never has a number without a value, no call is *)
(* refused without a reason, and every value and every name of a query     *)
(* arrives in its place.  The last two follow from Layout: at every turn   *)
(* of every loop, each token is where the sum of the widths of those       *)
(* before it puts it.                                                      *)
(***************************************************************************)
EXTENDS QueryMeaning, FiniteSetTheorems, WellFoundedInduction, TLAPS

\* A sequence over a set is one over any larger set.
LEMMA SeqGrows ==
  ASSUME NEW S, NEW T, S \subseteq T, NEW s \in Seq(S)
  PROVE  s \in Seq(T)
  <1>1. s \in [1..Len(s) -> S] /\ Len(s) \in Nat
    OBVIOUS
  <1>2. s \in [1..Len(s) -> T]
    BY <1>1
  <1> QED
    BY <1>1, <1>2

LEMMA Elements ==
  ASSUME NEW S, NEW s \in Seq(S)
  PROVE  /\ \A i \in DOMAIN s : s[i] \in S
         /\ DOMAIN s = 1..Len(s) /\ Len(s) \in Nat
         /\ s # <<>> => Len(s) \in DOMAIN s /\ Len(s) > 0
         /\ s = <<>> => Len(s) = 0
  OBVIOUS

\* One turn of a loop keeps what is said of the two halves of the text.
LEMMA WriteTyped ==
  ASSUME NEW S, NEW T, NEW ts \in Seq(T), todo \in Seq(S), todo # <<>>,
         done \in Seq(T), Write(ts)
  PROVE  /\ Head(todo) \in S
         /\ todo' \in Seq(S)
         /\ done' \in Seq(T)
  BY DEF Write

LEMMA HandOverTyped ==
  ASSUME NEW T, NEW next, done \in Seq(T), HandOver(next)
  PROVE  todo' \in Seq(T) /\ done' \in Seq(T) /\ stage' = next
  BY DEF HandOver

\* What the stages write are tokens.
LEMMA WrittenTokens ==
  /\ Token \subseteq Written
  /\ Text \in Written /\ Escape \in Written /\ Comment \in Written /\ Question \in Written
  /\ \A n \in Nat : Numbered(n) \in Written
  /\ \A m \in Names : Table(m) \in Written /\ Garbled(m) \in Written
  /\ \A m \in Names, f \in Fields :
        \A q \in {NoModel, By(m)} : Column(q, m, f) \in Written
  <1>1. Token \subseteq Written /\ Question \in Written
    BY DEF Written
  <1>2. {Text, Escape, Comment} \subseteq Token
    BY DEF Token
  <1>3. \A n \in Nat : Numbered(n) \in Token
    BY DEF Token, Numbered
  <1>4. \A m \in Names : Table(m) \in Written /\ Garbled(m) \in Written
    BY DEF Written, Table, Garbled
  <1>5. \A m \in Names, f \in Fields :
        \A q \in {NoModel, By(m)} : Column(q, m, f) \in Written
    BY DEF Written, Column
  <1> QED
    BY <1>1, <1>2, <1>3, <1>4, <1>5

LEMMA Kinds ==
  ASSUME NEW t \in Written
  PROVE  /\ t.kind = "$" => t.n \in Nat
         /\ t.kind = "&" => t.model \in Names
         /\ t = Escape => t.kind = "??"
         /\ t = Comment => t.kind = "--?"
  <1>1. CASE t \in {Text, Bind, Escape, Operator, Comment, Question}
    BY <1>1 DEF Text, Bind, Escape, Operator, Comment, Question
  <1>2. CASE t \in [kind : {"$"}, n : Nat]
    BY <1>2 DEF Escape, Comment
  <1>3. CASE t \in [kind : {"&"}, schema : {NoSchema, Current} \cup {Of(s) : s \in Shards}, model : Names]
    BY <1>3 DEF Escape, Comment
  <1>4. CASE t \in [kind : {":"}, model : {NoModel} \cup {By(m) : m \in Names}, field : Fields]
    BY <1>4 DEF Escape, Comment
  <1>5. CASE t \in [kind : {"table", "garbled"}, model : Names]
    BY <1>5 DEF Escape, Comment
  <1>6. CASE t \in [kind : {"column"}, by : {NoModel} \cup {By(m) : m \in Names}, model : Names, field : Fields]
    BY <1>6 DEF Escape, Comment
  <1> QED
    BY <1>1, <1>2, <1>3, <1>4, <1>5, <1>6 DEF Written, Token

\* The row of values has a length, and holds the places of every argument.
LEMMA RowTyped ==
  ASSUME TypeOK
  PROVE  /\ flatArgsCount \in Nat
         /\ meta # <<>> => flatArgsCount = meta[Len(meta)].from + meta[Len(meta)].length - 1
         /\ meta = <<>> => flatArgsCount = 0
         /\ \A i \in DOMAIN meta : meta[i].from \in Nat \ {0} /\ meta[i].length \in Nat \ {0}
         /\ DOMAIN meta = 1..Len(meta) /\ Len(meta) \in Nat
  <1> DEFINE R == [from : Nat \ {0}, length : Nat \ {0}]
  <1>1. meta \in Seq(R)
    BY DEF TypeOK
  <1>2. /\ \A i \in DOMAIN meta : meta[i] \in R
        /\ DOMAIN meta = 1..Len(meta) /\ Len(meta) \in Nat
        /\ meta # <<>> => Len(meta) \in DOMAIN meta /\ Len(meta) > 0
    <2> HIDE DEF R
    <2> QED
      BY <1>1, Elements
  <1>3. \A i \in DOMAIN meta : meta[i].from \in Nat \ {0} /\ meta[i].length \in Nat \ {0}
    BY <1>2
  <1>4. CASE meta = <<>>
    BY <1>2, <1>3, <1>4 DEF flatArgsCount
  <1>5. CASE meta # <<>>
    <2>1. flatArgsCount = meta[Len(meta)].from + meta[Len(meta)].length - 1
      BY <1>5 DEF flatArgsCount
    <2> QED
      BY <1>2, <1>3, <1>5, <2>1
  <1> QED
    BY <1>4, <1>5

\* The row of an argument lies in the row of all values.
LEMMA RowFits ==
  ASSUME TypeOK, RowsFit, NEW a \in DOMAIN meta
  PROVE  /\ Row(a) \subseteq 1..flatArgsCount
         /\ \A e \in 1..meta[a].length : meta[a].from + e - 1 \in Row(a)
  <1>1. /\ meta[a].from \in Nat \ {0} /\ meta[a].length \in Nat \ {0}
        /\ flatArgsCount \in Nat
    BY RowTyped
  <1>2. meta[a].from + meta[a].length - 1 <= flatArgsCount
    BY DEF RowsFit
  <1> QED
    BY <1>1, <1>2 DEF Row

\* In the loop of In: the values of argument a go in, and its numbers are
\* settled; so is what was.
LEMMA FillSettles ==
  ASSUME Inv, AnySlice, stage = "in", NEW a \in DOMAIN meta, Fill(a)
  PROVE  /\ flat' \in [1..flatArgsCount -> Nat \X Nat]
         /\ flat' \in Seq(Nat \X Nat)
         /\ Settled \subseteq Settled'
         /\ Numbers(a) \in Seq(Settled')
  <1>1. flat \in [1..flatArgsCount -> Nat \X Nat]
    BY DEF Inv, RowIsMade
  <1>2. /\ meta[a].from \in Nat \ {0} /\ meta[a].length \in Nat \ {0}
        /\ flatArgsCount \in Nat /\ a \in Nat \ {0}
    BY RowTyped DEF Inv
  <1>3. /\ Row(a) \subseteq 1..flatArgsCount
        /\ \A e \in 1..meta[a].length : meta[a].from + e - 1 \in Row(a)
    BY RowFits DEF Inv
  <1>4. \A k \in Row(a) : Value(a, k - meta[a].from + 1) \in (Nat \X Nat) \ {Unset}
    BY <1>2 DEF Row, Value, Unset
  <1>5. flat' = [k \in 1..flatArgsCount |->
                   IF k \in Row(a) THEN Value(a, k - meta[a].from + 1) ELSE flat[k]]
    BY <1>1 DEF Fill
  <1>6. flat' \in [1..flatArgsCount -> Nat \X Nat]
    <2>1. \A k \in 1..flatArgsCount : flat[k] \in Nat \X Nat
      BY <1>1
    <2> QED
      BY <1>4, <1>5, <2>1
  <1>7. flat' \in Seq(Nat \X Nat)
    BY <1>2, <1>6
  <1>8. Settled \subseteq Settled'
    <2> SUFFICES ASSUME NEW t \in Settled PROVE t \in Settled'
      OBVIOUS
    <2>1. t \in Written /\ t.kind # "?"
      BY DEF Settled
    <2>2. ASSUME t.kind = "$" PROVE t.n \in DOMAIN flat' /\ flat'[t.n] # Unset
      <3>1. t.n \in DOMAIN flat /\ flat[t.n] # Unset
        BY <2>2 DEF Settled
      <3> QED
        BY <1>1, <1>4, <1>5, <3>1
    <2> QED
      BY <2>1, <2>2 DEF Settled
  <1>9. Numbers(a) \in Seq(Settled')
    <2>1. ASSUME NEW e \in 1..meta[a].length
          PROVE  Numbered(meta[a].from + e - 1) \in Settled'
      <3> DEFINE n == meta[a].from + e - 1
      <3>1. n \in Row(a) /\ n \in Nat \ {0} /\ n \in 1..flatArgsCount
        BY <1>2, <1>3
      <3>2. n \in DOMAIN flat' /\ flat'[n] # Unset
        BY <1>4, <1>5, <3>1
      <3>3. Numbered(n) \in Written
        BY <3>1, WrittenTokens
      <3> HIDE DEF n
      <3>4. Numbered(n).kind = "$" /\ Numbered(n).n = n
        BY DEF Numbered
      <3> QED
        BY <3>2, <3>3, <3>4 DEF Settled, n
    <2> QED
      BY <1>2, <2>1 DEF Numbers
  <1> QED
    BY <1>6, <1>7, <1>8, <1>9

-----------------------------------------------------------------------------
LEMMA InitInv == Init => Inv
  <1> SUFFICES ASSUME Init PROVE Inv
    OBVIOUS
  <1>1. request \in Requests /\ request.query \in Seq(Token)
    BY RequestsAssumption DEF Init
  <1>2. request.query \in Seq(Written)
    BY <1>1, WrittenTokens, SeqGrows
  <1>3. Len(args) \in Nat
    BY <1>1, RequestsAssumption DEF args
  <1>4. TypeOK
    BY <1>1, <1>2, <1>3 DEF Init, TypeOK, Stages
  <1>5. RowsFit /\ RowIsMade /\ TextIsSettled
    BY DEF Init, RowsFit, RowIsMade, TextIsSettled
  <1>6. NamesAreKept
    BY DEF Init, NamesAreKept
  <1> QED
    BY <1>4, <1>5, <1>6 DEF Inv

\* In's first loop.
LEMMA MeasureArgInv ==
  ASSUME Inv, MeasureArg
  PROVE  Inv'
  <1> DEFINE new == [from |-> flatArgsCount + 1, length |-> args[Len(meta) + 1].length]
             R == [from : Nat \ {0}, length : Nat \ {0}]
  <1>1. /\ stage = "measure" /\ stage' = "measure" /\ Len(meta) < Len(args)
        /\ args[Len(meta) + 1].length > 0
        /\ meta' = Append(meta, new)
        /\ request' = request /\ todo' = todo /\ done' = done /\ flat' = flat
        /\ arg' = arg /\ rpls' = rpls /\ j' = j
    BY DEF MeasureArg
  <1>2. /\ flatArgsCount \in Nat /\ DOMAIN meta = 1..Len(meta) /\ Len(meta) \in Nat
        /\ \A i \in DOMAIN meta : meta[i].from \in Nat \ {0} /\ meta[i].length \in Nat \ {0}
    BY RowTyped DEF Inv
  <1>3. args \in Seq(Argument) /\ args' = args
    BY <1>1, RequestsAssumption DEF args, Inv, TypeOK
  <1>4. args[Len(meta) + 1].length \in Nat \ {0}
    <2>1. Len(meta) + 1 \in DOMAIN args
      BY <1>1, <1>2, <1>3
    <2>2. args[Len(meta) + 1] \in Argument
      BY <1>3, <2>1, Elements
    <2> QED
      BY <1>1, <2>2 DEF Argument
  <1>5. new \in R
    BY <1>2, <1>4
  <1>6. /\ meta' \in Seq(R) /\ Len(meta') = Len(meta) + 1
        /\ DOMAIN meta' = 1..(Len(meta) + 1)
        /\ meta'[Len(meta) + 1] = new
        /\ \A i \in DOMAIN meta : meta'[i] = meta[i]
    <2> HIDE DEF R, new
    <2>1. meta \in Seq(R)
      BY DEF Inv, TypeOK, R
    <2> QED
      BY <1>1, <1>2, <1>5, <2>1
  <1>7. TypeOK'
    BY <1>1, <1>2, <1>3, <1>6 DEF Inv, TypeOK
  <1>8. flatArgsCount' = flatArgsCount + args[Len(meta) + 1].length
    <2>1. meta' # <<>>
      BY <1>2, <1>6
    <2>2. flatArgsCount' = meta'[Len(meta')].from + meta'[Len(meta')].length - 1
      BY <1>7, <2>1, RowTyped DEF flatArgsCount
    <2> QED
      BY <1>2, <1>4, <1>6, <2>2
  <1>9. RowsFit'
    <2> SUFFICES ASSUME NEW i \in DOMAIN meta'
                 PROVE  meta'[i].from + meta'[i].length - 1 <= flatArgsCount'
      BY DEF RowsFit
    <2>1. CASE i \in DOMAIN meta
      <3>1. meta[i].from + meta[i].length - 1 <= flatArgsCount /\ meta'[i] = meta[i]
        BY <1>6, <2>1 DEF Inv, RowsFit
      <3>2. flatArgsCount <= flatArgsCount' /\ flatArgsCount' \in Nat
        BY <1>2, <1>4, <1>8
      <3> HIDE DEF new
      <3> QED
        BY <1>2, <2>1, <3>1, <3>2
    <2>2. CASE i = Len(meta) + 1
      <3>1. meta'[i].from = flatArgsCount + 1 /\ meta'[i].length = args[Len(meta) + 1].length
        BY <1>6, <2>2
      <3> DEFINE n == args[Len(meta) + 1].length
      <3>2. n \in Nat /\ meta'[i].from = flatArgsCount + 1 /\ meta'[i].length = n
            /\ flatArgsCount' = flatArgsCount + n /\ flatArgsCount \in Nat
        BY <1>2, <1>4, <1>8, <3>1
      <3> HIDE DEF n
      <3>3. meta'[i].from + meta'[i].length - 1 = flatArgsCount + n
        BY <3>2
      <3>4. flatArgsCount + n <= flatArgsCount'
        BY <3>2
      <3> QED
        BY <3>3, <3>4
    <2> QED
      BY <1>2, <1>6, <2>1, <2>2
  <1>10. RowIsMade' /\ TextIsSettled'
    BY <1>1 DEF Inv, RowIsMade, TextIsSettled
  <1>11. NamesAreKept'
    BY <1>1 DEF Inv, NamesAreKept
  <1> QED
    BY <1>7, <1>9, <1>10, <1>11 DEF Inv

LEMMA InSkipsInv ==
  ASSUME Inv, InSkips
  PROVE  Inv'
  <1>1. /\ ~AnySlice /\ stage' = "collect"
        /\ flat' = [k \in DOMAIN args |-> Value(k, 1)]
        /\ request' = request /\ todo' = todo /\ done' = done /\ meta' = meta
        /\ arg' = arg /\ rpls' = rpls /\ j' = j
    BY DEF InSkips
  <1>2. args \in Seq(Argument) /\ args' = args
    BY <1>1, RequestsAssumption DEF args, Inv, TypeOK
  <1>3. flat' \in Seq(Nat \X Nat)
    <2>1. DOMAIN args = 1..Len(args) /\ Len(args) \in Nat
      BY <1>2, Elements
    <2>2. \A k \in 1..Len(args) : Value(k, 1) \in Nat \X Nat
      BY DEF Value
    <2> QED
      BY <1>1, <2>1, <2>2
  <1>4. TypeOK'
    BY <1>1, <1>2, <1>3 DEF Inv, TypeOK, Stages
  <1>5. ~AnySlice'
    BY <1>1, <1>2 DEF AnySlice
  <1>6. RowsFit' /\ NamesAreKept'
    BY <1>1 DEF Inv, RowsFit, NamesAreKept, flatArgsCount
  <1>7. RowIsMade' /\ TextIsSettled'
    BY <1>1, <1>5 DEF RowIsMade, TextIsSettled
  <1> QED
    BY <1>4, <1>6, <1>7 DEF Inv

LEMMA InBeginsInv ==
  ASSUME Inv, InBegins
  PROVE  Inv'
  <1>1. /\ AnySlice /\ stage = "measure" /\ stage' = "in"
        /\ flat' = [k \in 1..flatArgsCount |-> Unset]
        /\ request' = request /\ todo' = todo /\ done' = done /\ meta' = meta
        /\ arg' = arg /\ rpls' = rpls /\ j' = j
    BY DEF InBegins
  <1>2. flatArgsCount \in Nat /\ flatArgsCount' = flatArgsCount
    BY <1>1, RowTyped DEF Inv, flatArgsCount
  <1>3. AnySlice' /\ args' = args
    BY <1>1 DEF AnySlice, args
  <1>4. /\ flat' \in [1..flatArgsCount -> Nat \X Nat]
        /\ flat' \in Seq(Nat \X Nat)
    BY <1>1, <1>2 DEF Unset
  <1>5. TypeOK'
    BY <1>1, <1>3, <1>4 DEF Inv, TypeOK, Stages
  <1>6. done = <<>>
    BY <1>1 DEF Inv, TextIsSettled
  <1>7. RowsFit' /\ NamesAreKept' /\ RowIsMade'
    BY <1>1, <1>2, <1>4 DEF Inv, RowsFit, NamesAreKept, RowIsMade
  <1>8. TextIsSettled'
    BY <1>1, <1>3, <1>6 DEF TextIsSettled
  <1> QED
    BY <1>5, <1>7, <1>8 DEF Inv

LEMMA RefuseInv ==
  ASSUME Inv, stage' \in {"refused", "panicked"},
         UNCHANGED <<request, todo, done, meta, flat, arg, rpls, j>>
  PROVE  Inv'
  <1>1. /\ stage' \in {"refused", "panicked"}
        /\ request' = request /\ todo' = todo /\ done' = done /\ meta' = meta
        /\ flat' = flat /\ arg' = arg /\ rpls' = rpls /\ j' = j
    OBVIOUS
  <1>2. TypeOK'
    BY <1>1 DEF Inv, TypeOK, Stages, args
  <1>3. RowsFit' /\ RowIsMade' /\ TextIsSettled' /\ NamesAreKept'
    BY <1>1 DEF Inv, RowsFit, RowIsMade, TextIsSettled, NamesAreKept, flatArgsCount
  <1> QED
    BY <1>2, <1>3 DEF Inv

-----------------------------------------------------------------------------
\* A turn of In's second loop that leaves the row as it is.
LEMMA InTurnInv ==
  ASSUME Inv, stage = "in", todo # <<>>, NEW ts \in Seq(Settled), Write(ts),
         UNCHANGED <<request, stage, meta, flat, arg, rpls, j>>
  PROVE  Inv'
  <1>1. ts \in Seq(Written)
    BY SeqGrows DEF Settled
  <1>2. todo' \in Seq(Written) /\ done' \in Seq(Written)
    BY <1>1, WriteTyped DEF Inv, TypeOK
  <1>3. TypeOK'
    BY <1>2 DEF Inv, TypeOK, args
  <1>4. done' \in Seq(Settled) /\ AnySlice
    BY <1>1, WriteTyped DEF Inv, TypeOK, TextIsSettled
  <1>5. Settled' = Settled /\ AnySlice'
    BY <1>4 DEF Settled, AnySlice, args
  <1>6. TextIsSettled'
    BY <1>4, <1>5 DEF TextIsSettled
  <1>7. RowsFit' /\ RowIsMade' /\ NamesAreKept'
    BY <1>5 DEF Inv, RowsFit, RowIsMade, NamesAreKept, flatArgsCount, TextIsSettled
  <1> QED
    BY <1>3, <1>6, <1>7 DEF Inv

\* A turn that puts the values of an argument in the row.
LEMMA InFillInv ==
  ASSUME Inv, stage = "in", todo # <<>>, NEW a \in DOMAIN meta, Fill(a),
         NEW ts \in Seq(Settled'), Write(ts), arg' \in Nat,
         UNCHANGED <<request, stage, meta, rpls, j>>
  PROVE  Inv'
  <1>1. AnySlice /\ done \in Seq(Settled)
    BY DEF Inv, TextIsSettled
  <1>2. /\ flat' \in [1..flatArgsCount -> Nat \X Nat]
        /\ flat' \in Seq(Nat \X Nat)
        /\ Settled \subseteq Settled'
    BY <1>1, FillSettles
  <1>3. ts \in Seq(Written)
    <2>1. Settled' \subseteq Written
      BY DEF Settled
    <2> QED
      BY <2>1, SeqGrows
  <1>4. todo' \in Seq(Written) /\ done' \in Seq(Written)
    BY <1>3, WriteTyped DEF Inv, TypeOK
  <1>5. TypeOK'
    BY <1>2, <1>4 DEF Inv, TypeOK, args
  <1>6. done' \in Seq(Settled')
    <2> DEFINE S == Settled'
    <2>1. done \in Seq(S) /\ ts \in Seq(S)
      BY <1>1, <1>2, SeqGrows
    <2>2. done' = done \o ts
      BY DEF Write
    <2> HIDE DEF S
    <2>3. done' \in Seq(S)
      BY <2>1, <2>2
    <2> QED
      BY <2>3 DEF S
  <1>7. AnySlice'
    BY <1>1 DEF AnySlice, args
  <1>8. TextIsSettled'
    BY <1>6, <1>7 DEF TextIsSettled
  <1>9. RowsFit' /\ RowIsMade' /\ NamesAreKept'
    BY <1>2 DEF Inv, RowsFit, RowIsMade, NamesAreKept, flatArgsCount
  <1> QED
    BY <1>5, <1>8, <1>9 DEF Inv

LEMMA InCopiesInv ==
  ASSUME Inv, InCopies \/ InSkipsEscape
  PROVE  Inv'
  <1>1. /\ stage = "in" /\ todo # <<>> /\ Write(<<Head(todo)>>)
        /\ Head(todo).kind # "?" /\ Head(todo).kind # "$"
        /\ UNCHANGED <<request, stage, meta, flat, arg, rpls, j>>
    BY DEF InCopies, InSkipsEscape, Stops, Escape
  <1>2. Head(todo) \in Written
    BY <1>1 DEF Inv, TypeOK
  <1>3. <<Head(todo)>> \in Seq(Settled)
    BY <1>1, <1>2 DEF Settled
  <1> QED
    BY <1>1, <1>3, InTurnInv

LEMMA InQuestionInv ==
  ASSUME Inv, InQuestion
  PROVE  Inv'
  <1>1. /\ stage = "in" /\ todo # <<>> /\ arg < Len(meta) /\ arg' = arg + 1
        /\ Fill(arg + 1)
        /\ UNCHANGED <<request, stage, meta, rpls, j>>
    BY DEF InQuestion
  <1>2. arg \in Nat /\ arg + 1 \in DOMAIN meta /\ AnySlice
    BY <1>1, RowTyped DEF Inv, TypeOK, TextIsSettled
  <1>3. Numbers(arg + 1) \in Seq(Settled')
    BY <1>1, <1>2, FillSettles
  <1>4. Comment \in Settled' /\ Text \in Settled'
    BY WrittenTokens DEF Settled, Comment, Text
  <1>5. <<Comment>> \in Seq(Settled') /\ Append(Numbers(arg + 1), Text) \in Seq(Settled')
    BY <1>3, <1>4
  <1>6. PICK ts \in Seq(Settled') : Write(ts)
    BY <1>3, <1>5 DEF InQuestion
  <1> QED
    BY <1>1, <1>2, <1>6, InFillInv

LEMMA InNumberInv ==
  ASSUME Inv, InNumber
  PROVE  Inv'
  <1> DEFINE a == Head(todo).n
  <1>1. /\ stage = "in" /\ todo # <<>> /\ Head(todo).kind = "$" /\ a \in 1..Len(meta)
        /\ Fill(a) /\ Write(Numbers(a)) /\ arg' = arg
        /\ UNCHANGED <<request, stage, meta, rpls, j>>
    BY DEF InNumber
  <1>2. Head(todo) \in Written
    BY <1>1 DEF Inv, TypeOK
  <1>3. a \in DOMAIN meta /\ AnySlice /\ arg' \in Nat
    <2>1. a \in Nat \ {0}
      BY <1>1
    <2>2. DOMAIN meta = 1..Len(meta)
      BY RowTyped DEF Inv
    <2>3. AnySlice /\ arg' \in Nat
      BY <1>1 DEF Inv, TypeOK, TextIsSettled
    <2> HIDE DEF a
    <2> QED
      BY <1>1, <2>1, <2>2, <2>3
  <1>4. Numbers(a) \in Seq(Settled')
    BY <1>1, <1>3, FillSettles
  <1> QED
    BY <1>1, <1>3, <1>4, InFillInv

-----------------------------------------------------------------------------
\* A turn of a loop past In.
LEMMA TurnInv ==
  ASSUME Inv, stage \in {"collect", "replace", "rebind"}, todo # <<>>,
         NEW ts \in Seq(Written), AnySlice => ts \in Seq(Settled), Write(ts),
         j' \in Nat, NamesAreKept',
         UNCHANGED <<request, stage, meta, flat, arg>>
  PROVE  Inv'
  <1>1. todo' \in Seq(Written) /\ done' \in Seq(Written)
    BY WriteTyped DEF Inv, TypeOK
  <1>2. TypeOK'
    BY <1>1 DEF Inv, TypeOK, args
  <1>3. Settled' = Settled /\ AnySlice' = AnySlice
    BY DEF Settled, AnySlice, args
  <1>4. AnySlice => todo' \in Seq(Settled) /\ done' \in Seq(Settled)
    BY WriteTyped DEF Inv, TextIsSettled
  <1>5. TextIsSettled'
    BY <1>3, <1>4 DEF TextIsSettled
  <1>6. RowsFit' /\ RowIsMade'
    BY <1>3 DEF Inv, RowsFit, RowIsMade, flatArgsCount
  <1> QED
    BY <1>2, <1>5, <1>6 DEF Inv

\* A stage hands the text to the next.
LEMMA HandOverInv ==
  ASSUME Inv, NEW next \in {"collect", "replace", "rebind"},
         stage \in {"in", "collect", "replace", "rebind"}, HandOver(next),
         UNCHANGED <<request, meta, flat, arg, rpls, j>>
  PROVE  Inv'
  <1>1. todo' = done /\ done' = <<>> /\ stage' = next
    BY DEF HandOver
  <1>2. TypeOK'
    BY <1>1 DEF Inv, TypeOK, Stages, args
  <1>3. Settled' = Settled /\ AnySlice' = AnySlice
    BY DEF Settled, AnySlice, args
  <1>4. AnySlice => done \in Seq(Settled)
    BY DEF Inv, TextIsSettled
  <1>5. TextIsSettled'
    BY <1>1, <1>3, <1>4 DEF TextIsSettled
  <1>6. RowsFit' /\ RowIsMade' /\ NamesAreKept'
    BY <1>1, <1>3 DEF Inv, RowsFit, RowIsMade, NamesAreKept, flatArgsCount
  <1> QED
    BY <1>2, <1>5, <1>6 DEF Inv

\* The entries of a model are tokens of the statement.
LEMMA EntriesTyped ==
  ASSUME NEW m \in Models
  PROVE  /\ DOMAIN ReplaceEntries(m) \subseteq Written
         /\ \A k \in DOMAIN ReplaceEntries(m) :
               /\ ReplaceEntries(m)[k] \in Written
               /\ ReplaceEntries(m)[k].kind \in {"table", "column"}
  <1> DEFINE D == {Mention(NoSchema, m)} \cup {Field(q, f) : q \in {NoModel, By(m)}, f \in FieldsOf[m]}
  <1>1. m \in Names /\ FieldsOf[m] \subseteq Fields
    BY RequestsAssumption
  <1>2. Mention(NoSchema, m) \in Token
    BY <1>1 DEF Token, Mention
  <1>3. \A q \in {NoModel, By(m)}, f \in FieldsOf[m] : Field(q, f) \in Token
    BY <1>1 DEF Token, Field
  <1>4. D \subseteq Written
    BY <1>2, <1>3, WrittenTokens
  <1>5. \A k \in D : k.kind = "&" \/ (k.field \in Fields /\ k.model \in {NoModel, By(m)})
    BY <1>1 DEF Mention, Field
  <1>6. ASSUME NEW k \in D
        PROVE  /\ ReplaceEntries(m)[k] = IF k.kind = "&" THEN Table(m)
                                         ELSE Column(k.model, m, k.field)
               /\ ReplaceEntries(m)[k] \in Written
               /\ ReplaceEntries(m)[k].kind \in {"table", "column"}
    <2>1. ReplaceEntries(m)[k] = IF k.kind = "&" THEN Table(m)
                                 ELSE Column(k.model, m, k.field)
      BY DEF ReplaceEntries
    <2>2. CASE k.kind = "&"
      BY <1>1, <2>1, <2>2, WrittenTokens DEF Table
    <2>3. CASE k.kind # "&"
      <3>1. k.model \in {NoModel, By(m)} /\ k.field \in Fields
        BY <1>5, <2>3
      <3>2. Column(k.model, m, k.field) \in Written
        BY <1>1, <3>1, WrittenTokens
      <3>3. Column(k.model, m, k.field).kind = "column"
        BY DEF Column
      <3> QED
        BY <2>1, <2>3, <3>2, <3>3
    <2> QED
      BY <2>1, <2>2, <2>3
  <1>7. DOMAIN ReplaceEntries(m) = D
    BY DEF ReplaceEntries
  <1> QED
    BY <1>4, <1>6, <1>7

LEMMA CollectInv ==
  ASSUME Inv, Collect
  PROVE  Inv'
  <1> DEFINE t == Head(todo)
             ts == IF t = Comment THEN <<>> ELSE <<t>>
  <1>1. /\ stage = "collect" /\ todo # <<>> /\ Write(ts) /\ j' = j
        /\ UNCHANGED <<request, stage, meta, flat, arg>>
        /\ rpls' = rpls \/ \E m \in Models : rpls' = WithNew(rpls, ReplaceEntries(m))
    BY DEF Collect
  <1>2. todo \in Seq(Written) /\ (AnySlice => todo \in Seq(Settled))
    BY <1>1 DEF Inv, TypeOK, TextIsSettled
  <1>3. t \in Written /\ (AnySlice => t \in Settled)
    BY <1>1, <1>2
  <1>4. ts \in Seq(Written) /\ (AnySlice => ts \in Seq(Settled))
    BY <1>3
  <1>5. NamesAreKept'
    <2>1. CASE rpls' = rpls
      BY <2>1 DEF Inv, NamesAreKept
    <2>2. ASSUME NEW m \in Models, rpls' = WithNew(rpls, ReplaceEntries(m)) PROVE NamesAreKept'
      BY <2>2, EntriesTyped DEF Inv, NamesAreKept, WithNew
    <2> QED
      BY <1>1, <2>1, <2>2
  <1> HIDE DEF ts
  <1> QED
    BY <1>1, <1>4, <1>5, TurnInv DEF Inv, TypeOK

LEMMA ReplaceInv ==
  ASSUME Inv, Replace
  PROVE  Inv'
  <1> DEFINE t == Head(todo)
             to == IF t.kind = "&" /\ t.schema = Current THEN Garbled(t.model)
                   ELSE IF t.kind \in {"&", ":"} /\ t \in DOMAIN rpls THEN rpls[t]
                   ELSE t
  <1>1. /\ stage = "replace" /\ todo # <<>> /\ Write(<<to>>) /\ j' = j /\ rpls' = rpls
        /\ UNCHANGED <<request, stage, meta, flat, arg>>
    BY DEF Replace
  <1>2. todo \in Seq(Written) /\ (AnySlice => todo \in Seq(Settled))
    BY <1>1 DEF Inv, TypeOK, TextIsSettled
  <1>3. t \in Written /\ (AnySlice => t \in Settled)
    BY <1>1, <1>2
  <1>4. to \in Written /\ (to = t \/ to.kind \notin {"?", "$"})
    <2>1. CASE t.kind = "&" /\ t.schema = Current
      <3>1. t.model \in Names
        BY <1>3, <2>1, Kinds
      <3>2. Garbled(t.model) \in Written /\ Garbled(t.model).kind = "garbled"
        BY <3>1, WrittenTokens DEF Garbled
      <3> QED
        BY <2>1, <3>2
    <2>2. CASE ~(t.kind = "&" /\ t.schema = Current) /\ t.kind \in {"&", ":"} /\ t \in DOMAIN rpls
      BY <2>2 DEF Inv, NamesAreKept
    <2>3. CASE ~(t.kind = "&" /\ t.schema = Current) /\ ~(t.kind \in {"&", ":"} /\ t \in DOMAIN rpls)
      BY <1>3, <2>3
    <2> QED
      BY <2>1, <2>2, <2>3
  <1> HIDE DEF to
  <1>5. <<to>> \in Seq(Written) /\ (AnySlice => <<to>> \in Seq(Settled))
    <2>1. AnySlice => to \in Settled
      BY <1>3, <1>4 DEF Settled
    <2> QED
      BY <1>4, <2>1
  <1>6. NamesAreKept'
    BY <1>1 DEF Inv, NamesAreKept
  <1> QED
    BY <1>1, <1>5, <1>6, TurnInv DEF Inv, TypeOK

LEMMA RebindCopiesInv ==
  ASSUME Inv, RebindCopies
  PROVE  Inv'
  <1> DEFINE to == IF Head(todo) = Escape THEN Question ELSE Head(todo)
  <1>1. /\ stage = "rebind" /\ todo # <<>> /\ Write(<<to>>) /\ j' = j /\ rpls' = rpls
        /\ UNCHANGED <<request, stage, meta, flat, arg>>
    BY DEF RebindCopies
  <1>2. todo \in Seq(Written) /\ (AnySlice => todo \in Seq(Settled))
    BY <1>1 DEF Inv, TypeOK, TextIsSettled
  <1>3. Question \in Written /\ Question \in Settled
    BY WrittenTokens DEF Settled, Question
  <1>4. <<to>> \in Seq(Written) /\ (AnySlice => <<to>> \in Seq(Settled))
    BY <1>1, <1>2, <1>3
  <1>5. NamesAreKept'
    BY <1>1 DEF Inv, NamesAreKept
  <1> HIDE DEF to
  <1> QED
    BY <1>1, <1>4, <1>5, TurnInv DEF Inv, TypeOK

\* With slices there is nothing left to number.
LEMMA RebindNumbersInv ==
  ASSUME Inv, RebindNumbers
  PROVE  Inv'
  <1>1. /\ stage = "rebind" /\ todo # <<>> /\ Head(todo).kind = "?"
        /\ Write(<<Numbered(j + 1)>>) /\ j' = j + 1 /\ rpls' = rpls
        /\ UNCHANGED <<request, stage, meta, flat, arg>>
    BY DEF RebindNumbers
  <1>2. AnySlice => Head(todo) \in Settled
    BY <1>1 DEF Inv, TextIsSettled
  <1>3. ~AnySlice
    BY <1>1, <1>2 DEF Settled
  <1>4. j \in Nat /\ <<Numbered(j + 1)>> \in Seq(Written)
    BY WrittenTokens DEF Inv, TypeOK
  <1>5. NamesAreKept'
    BY <1>1 DEF Inv, NamesAreKept
  <1>6. j' \in Nat
    BY <1>1, <1>4
  <1> QED
    BY <1>1, <1>3, <1>4, <1>5, <1>6, TurnInv

LEMMA RunInv ==
  ASSUME Inv, Run
  PROVE  Inv'
  <1>1. /\ stage = "rebind" /\ stage' = "ran" /\ todo = <<>>
        /\ request' = request /\ todo' = todo /\ done' = done /\ meta' = meta
        /\ flat' = flat /\ arg' = arg /\ rpls' = rpls /\ j' = j
    BY DEF Run
  <1>2. TypeOK'
    BY <1>1 DEF Inv, TypeOK, Stages, args
  <1>3. Settled' = Settled /\ AnySlice' = AnySlice
    BY <1>1 DEF Settled, AnySlice, args
  <1>4. RowsFit' /\ RowIsMade' /\ TextIsSettled' /\ NamesAreKept'
    BY <1>1, <1>3 DEF Inv, RowsFit, RowIsMade, TextIsSettled, NamesAreKept, flatArgsCount
  <1> QED
    BY <1>2, <1>4 DEF Inv

LEMMA NextInv == Inv /\ [Next]_vars => Inv'
  <1> SUFFICES ASSUME Inv, [Next]_vars PROVE Inv'
    OBVIOUS
  <1>1. CASE MeasureArg
    BY <1>1, MeasureArgInv
  <1>2. CASE MeasureRefuses \/ InRunsOut \/ InOutOfRange \/ InPanics
    BY <1>2, RefuseInv DEF MeasureRefuses, InRunsOut, InOutOfRange, InPanics, Refuse
  <1>3. CASE InSkips
    BY <1>3, InSkipsInv
  <1>4. CASE InBegins
    BY <1>4, InBeginsInv
  <1>5. CASE InCopies \/ InSkipsEscape
    BY <1>5, InCopiesInv
  <1>6. CASE InQuestion
    BY <1>6, InQuestionInv
  <1>7. CASE InNumber
    BY <1>7, InNumberInv
  <1>8. CASE InEnds \/ CollectEnds \/ ReplaceEnds
    BY <1>8, HandOverInv DEF InEnds, CollectEnds, ReplaceEnds
  <1>9. CASE Collect
    BY <1>9, CollectInv
  <1>10. CASE Replace
    BY <1>10, ReplaceInv
  <1>11. CASE RebindCopies
    BY <1>11, RebindCopiesInv
  <1>12. CASE RebindNumbers
    BY <1>12, RebindNumbersInv
  <1>13. CASE Run
    BY <1>13, RunInv
  <1>14. CASE UNCHANGED vars
    BY <1>14 DEF vars, Inv, TypeOK, RowsFit, RowIsMade, TextIsSettled, NamesAreKept,
                 flatArgsCount, Settled, AnySlice, args
  <1> QED
    BY <1>1, <1>2, <1>3, <1>4, <1>5, <1>6, <1>7, <1>8, <1>9, <1>10, <1>11, <1>12,
       <1>13, <1>14 DEF Next

\* The invariant holds, whatever the requests and the models: the rows of the
\* arguments lie in the row of values, and past In the text of a call with
\* slices has no placeholder and no number without a value.
THEOREM InvHolds == Spec => []Inv
  BY InitInv, NextInv, PTL DEF Spec

\* Every variable holds values of its kind.
THEOREM TypeHolds == Spec => []TypeOK
  <1>1. Inv => TypeOK
    BY DEF Inv
  <1> QED
    BY <1>1, InvHolds, PTL

\* In a statement expanded from slices every number has its value.
THEOREM EveryNumberIsSetHolds == Spec => []EveryNumberIsSet
  <1>1. Inv => EveryNumberIsSet
    BY DEF Inv, TextIsSettled, EveryNumberIsSet
  <1> QED
    BY <1>1, InvHolds, PTL

-----------------------------------------------------------------------------
(***************************************************************************)
(* Refusals.                                                               *)
(***************************************************************************)

LEMMA BindsTyped ==
  ASSUME NEW i \in Nat
  PROVE  /\ Binds(i) \in Nat
         /\ IsFiniteSet({k \in 1..i : asked[k] = Bind})
  <1> DEFINE B == {k \in 1..i : asked[k] = Bind}
  <1>1. IsFiniteSet(1..i)
    BY FS_Interval
  <1>2. B \subseteq 1..i
    OBVIOUS
  <1> HIDE DEF B
  <1>3. IsFiniteSet(B)
    BY <1>1, <1>2, FS_Subset
  <1>4. Cardinality(B) \in Nat
    BY <1>3, FS_CardinalityType
  <1> QED
    BY <1>3, <1>4 DEF B, Binds

LEMMA BindsNext ==
  ASSUME NEW i \in Nat
  PROVE  /\ asked[i + 1] = Bind => Binds(i + 1) = Binds(i) + 1
         /\ asked[i + 1] # Bind => Binds(i + 1) = Binds(i)
  <1> DEFINE B == {k \in 1..i : asked[k] = Bind}
             C == {k \in 1..(i + 1) : asked[k] = Bind}
  <1>1. IsFiniteSet(B) /\ Cardinality(B) = Binds(i) /\ Cardinality(C) = Binds(i + 1)
    BY BindsTyped DEF Binds
  <1>2. CASE asked[i + 1] = Bind
    <2>1. C = B \cup {i + 1} /\ i + 1 \notin B
      BY <1>2
    <2> HIDE DEF B, C
    <2>2. Cardinality(C) = Cardinality(B) + 1
      BY <1>1, <2>1, FS_AddElement
    <2> QED
      BY <1>1, <1>2, <2>2
  <1>3. CASE asked[i + 1] # Bind
    <2>1. C = B
      BY <1>3
    <2> HIDE DEF B, C
    <2> QED
      BY <1>1, <1>3, <2>1
  <1> QED
    BY <1>2, <1>3

\* What In stands at.
LEMMA InStandsAt ==
  ASSUME Inv, InCounts, stage = "in", todo # <<>>
  PROVE  /\ Behind \in Nat
         /\ Behind + 1 \in DOMAIN asked
         /\ Head(todo) = asked[Behind + 1]
         /\ asked[Behind + 1] \in Token
         /\ AnySlice
         /\ Len(meta) = Len(args) /\ Len(args) \in Nat /\ DOMAIN args = 1..Len(args)
  <1>1. todo \in Seq(Written) /\ request \in Requests /\ AnySlice
    BY DEF Inv, TypeOK, TextIsSettled
  <1>2. asked \in Seq(Token) /\ args \in Seq(Argument)
    BY <1>1, RequestsAssumption DEF asked, args
  <1>3. Len(todo) \in Nat /\ Len(todo) > 0 /\ 1 \in DOMAIN todo /\ Head(todo) = todo[1]
    BY <1>1
  <1>4. /\ Behind \in Nat /\ Len(meta) = Len(args)
        /\ \A k \in DOMAIN todo : todo[k] = asked[Behind + k]
    BY DEF InCounts
  <1>5. Len(asked) \in Nat /\ DOMAIN asked = 1..Len(asked) /\ \A i \in DOMAIN asked : asked[i] \in Token
    BY <1>2, Elements
  <1>6. Behind + 1 \in DOMAIN asked
    BY <1>3, <1>4, <1>5 DEF Behind
  <1>7. Len(args) \in Nat /\ DOMAIN args = 1..Len(args)
    BY <1>2
  <1> QED
    BY <1>1, <1>3, <1>4, <1>5, <1>6, <1>7

\* A turn of In's loop leaves one token more behind.
LEMMA InTurnCounts ==
  ASSUME Inv, InCounts, stage = "in", todo # <<>>, NEW ts, Write(ts),
         UNCHANGED <<request, stage, meta>>,
         Clear => arg' = IF Head(todo) = Bind THEN arg + 1 ELSE arg
  PROVE  InCounts'
  <1>1. /\ Behind \in Nat
        /\ Head(todo) = asked[Behind + 1]
        /\ Len(meta) = Len(args)
        /\ \A k \in DOMAIN todo : todo[k] = asked[Behind + k]
    BY InStandsAt DEF InCounts
  <1>2. todo \in Seq(Written) /\ todo' = Tail(todo)
    BY DEF Write, Inv, TypeOK
  <1>3. /\ Len(todo') = Len(todo) - 1 /\ DOMAIN todo' = 1..Len(todo) - 1
        /\ Len(todo) \in Nat /\ DOMAIN todo = 1..Len(todo)
        /\ \A k \in 1..Len(todo) - 1 : todo'[k] = todo[k + 1]
    BY <1>2
  <1>4. asked' = asked /\ args' = args /\ Clear' = Clear /\ AnySlice' = AnySlice
    BY DEF asked, args, Clear, AnySlice
  <1>5. Len(asked) \in Nat
    BY RequestsAssumption DEF Inv, TypeOK, asked
  <1>6. Behind' = Behind + 1
    BY <1>3, <1>4, <1>5 DEF Behind
  <1>7. \A k \in DOMAIN todo' : todo'[k] = asked[Behind + 1 + k]
    <2> SUFFICES ASSUME NEW k \in 1..Len(todo) - 1 PROVE todo'[k] = asked[Behind + 1 + k]
      BY <1>3
    <2>1. k + 1 \in DOMAIN todo /\ Behind + (k + 1) = Behind + 1 + k
      BY <1>1, <1>3
    <2> QED
      BY <1>1, <1>3, <2>1
  <1>8. ASSUME Clear PROVE arg' = Binds(Behind + 1)
    <2>1. arg = Binds(Behind)
      BY <1>8 DEF InCounts
    <2> QED
      BY <1>1, <1>8, <2>1, BindsNext
  <1>9. Binds(Behind)' = Binds(Behind + 1)
    BY <1>4, <1>6 DEF Binds
  <1> QED
    BY <1>1, <1>4, <1>6, <1>7, <1>8, <1>9 DEF InCounts

LEMMA NextCounts ==
  ASSUME Inv, InCounts, [Next]_vars
  PROVE  InCounts'
  <1>1. CASE stage' \notin {"measure", "in"}
    BY <1>1 DEF InCounts
  <1>2. CASE MeasureArg \/ UNCHANGED vars
    BY <1>2 DEF MeasureArg, vars, InCounts, asked, args, Behind, Clear, AnySlice, Binds
  <1>3. CASE InBegins
    <2>1. /\ request' = request /\ todo' = todo /\ arg' = arg /\ meta' = meta
          /\ stage = "measure" /\ stage' = "in" /\ Len(meta) = Len(args)
      BY <1>3 DEF InBegins
    <2>2. todo' = asked' /\ arg' = 0 /\ args' = args
      BY <2>1 DEF InCounts, asked, args
    <2>3. Len(asked') \in Nat
      BY <2>1, RequestsAssumption DEF Inv, TypeOK, asked
    <2>4. Behind' = 0
      BY <2>2, <2>3 DEF Behind
    <2>5. \A k \in DOMAIN asked' : 0 + k = k
      BY <2>1, RequestsAssumption DEF Inv, TypeOK, asked
    <2>6. Binds(Behind)' = 0
      <3>1. Binds(Behind)' = Cardinality({})
        BY <2>4 DEF Binds
      <3> QED
        BY <3>1, FS_EmptySet
    <2> QED
      BY <2>1, <2>2, <2>4, <2>5, <2>6 DEF InCounts
  <1>4. CASE InCopies \/ InSkipsEscape
    BY <1>4, InTurnCounts DEF InCopies, InSkipsEscape, Stops, Escape, Bind
  <1>5. CASE InNumber
    BY <1>5, InTurnCounts DEF InNumber, Bind
  <1>6. CASE InQuestion
    <2>1. /\ stage = "in" /\ todo # <<>> /\ Head(todo).kind \in {"?", "?|", "--?"}
          /\ arg' = arg + 1 /\ UNCHANGED <<request, stage, meta>>
      BY <1>6 DEF InQuestion
    <2>2. PICK ts : Write(ts)
      BY <1>6 DEF InQuestion
    <2>3. ASSUME Clear PROVE Head(todo) = Bind
      <3>1. Head(todo) \in Token /\ Head(todo) # Operator /\ Head(todo) # Comment
        BY <2>1, <2>3, InStandsAt DEF Clear
      <3> QED
        BY <2>1, <3>1 DEF Token, Text, Bind, Escape, Operator, Comment
    <2> QED
      BY <2>1, <2>2, <2>3, InTurnCounts
  <1> QED
    BY <1>1, <1>2, <1>3, <1>4, <1>5, <1>6
    DEF Next, MeasureRefuses, InSkips, InRunsOut, InOutOfRange, InPanics, InEnds, HandOver, Refuse,
        Collect, CollectEnds, Replace, ReplaceEnds, RebindCopies, RebindNumbers, Run, InCounts

\* The reasons for a refusal are in the request, which no call changes.
LEMMA ReasonsStay ==
  ASSUME request' = request
  PROVE  /\ Clear' = Clear /\ AllPassed' = AllPassed /\ args' = args
         /\ NoneEmpty' = NoneEmpty /\ AnySlice' = AnySlice
         /\ Placeholders' = Placeholders /\ \A i : ArgOf(i)' = ArgOf(i)
         /\ (\E i \in DOMAIN asked : AllTakenBefore(i))' = (\E i \in DOMAIN asked : AllTakenBefore(i))
  BY DEF asked, args, Clear, AnySlice, AllPassed, NoneEmpty, Placeholders, ArgOf, AllTakenBefore, Binds,
         Stops

\* One half of RefusedForAReason; the other needs the layout below.
OnlyForAReason ==
    stage = "refused" /\ Clear => \/ ~AllPassed \/ ~NoneEmpty
                                  \/ \E i \in DOMAIN asked : AllTakenBefore(i)

LEMMA NextRefuses ==
  ASSUME Inv, InCounts, OnlyForAReason, [Next]_vars
  PROVE  OnlyForAReason'
  <1> DEFINE reason == \/ ~AllPassed
                       \/ ~NoneEmpty
                       \/ \E i \in DOMAIN asked : AllTakenBefore(i)
  <1>1. ASSUME Clear, request' = request, reason PROVE OnlyForAReason'
    BY <1>1, ReasonsStay DEF OnlyForAReason
  <1>2. ASSUME ~Clear, request' = request PROVE OnlyForAReason'
    BY <1>2, ReasonsStay DEF OnlyForAReason
  <1>3. CASE stage' # "refused"
    BY <1>3 DEF OnlyForAReason
  <1>4. CASE UNCHANGED vars
    <2>1. request' = request /\ stage' = stage
      BY <1>4 DEF vars
    <2> QED
      BY <2>1, ReasonsStay DEF OnlyForAReason
  <1>5. CASE MeasureRefuses
    <2>1. request' = request /\ Len(meta) < Len(args) /\ args[Len(meta) + 1].length = 0
      BY <1>5 DEF MeasureRefuses, Refuse
    <2>2. args \in Seq(Argument) /\ Len(meta) \in Nat
      BY RequestsAssumption DEF Inv, TypeOK, args
    <2>3. Len(meta) + 1 \in DOMAIN args
      BY <2>1, <2>2
    <2>4. ~NoneEmpty
      BY <2>1, <2>3 DEF NoneEmpty
    <2> QED
      BY <1>1, <1>2, <2>1, <2>4
  <1> DEFINE i == Behind + 1
  <1>6. CASE InRunsOut
    <2>1. /\ stage = "in" /\ todo # <<>> /\ Stops(Head(todo)) /\ arg >= Len(meta)
          /\ request' = request
      BY <1>6 DEF InRunsOut, Refuse
    <2>2. /\ Behind \in Nat /\ i \in DOMAIN asked /\ Head(todo) = asked[i]
          /\ Len(meta) = Len(args) /\ Len(args) \in Nat /\ DOMAIN args = 1..Len(args)
      BY <2>1, InStandsAt
    <2>3. ASSUME Clear PROVE reason
      <3>1. arg = Binds(Behind) /\ Binds(Behind) \in Nat /\ Binds(Behind) >= Len(args)
        BY <2>1, <2>2, <2>3, BindsTyped DEF InCounts
      <3>2. CASE asked[i] = Bind
        <4>1. i \in Placeholders /\ ArgOf(i) = Binds(i)
          BY <2>2, <3>2 DEF Placeholders, ArgOf, Bind
        <4>2. Binds(i) = Binds(Behind) + 1
          BY <2>2, <3>2, BindsNext
        <4>3. ArgOf(i) \notin DOMAIN args
          BY <2>2, <3>1, <4>1, <4>2
        <4> QED
          BY <4>1, <4>3 DEF AllPassed
      <3>3. CASE asked[i] # Bind
        <4>1. i - 1 = Behind
          BY <2>2
        <4>2. AllTakenBefore(i)
          BY <2>1, <2>2, <3>1, <3>3, <4>1 DEF AllTakenBefore
        <4> QED
          BY <2>2, <4>2
      <3> QED
        BY <3>2, <3>3
    <2> HIDE DEF reason
    <2> QED
      BY <1>1, <1>2, <2>1, <2>3
  <1>7. CASE InOutOfRange
    <2>1. /\ stage = "in" /\ todo # <<>> /\ Head(todo).kind = "$" /\ Head(todo).n > Len(meta)
          /\ request' = request
      BY <1>7 DEF InOutOfRange, Refuse
    <2>2. /\ i \in DOMAIN asked /\ Head(todo) = asked[i] /\ asked[i] \in Token
          /\ Len(meta) = Len(args) /\ Len(args) \in Nat /\ DOMAIN args = 1..Len(args)
      BY <2>1, InStandsAt
    <2>3. i \in Placeholders /\ ArgOf(i) = asked[i].n
      BY <2>1, <2>2 DEF Placeholders, ArgOf
    <2>4. asked[i].n \in Nat
      BY <2>1, <2>2, Kinds, WrittenTokens
    <2>5. ArgOf(i) \notin DOMAIN args
      BY <2>1, <2>2, <2>3, <2>4
    <2>6. reason
      BY <2>3, <2>5 DEF AllPassed
    <2> HIDE DEF reason
    <2> QED
      BY <1>1, <1>2, <2>1, <2>6
  <1>8. CASE ~(MeasureRefuses \/ InRunsOut \/ InOutOfRange) /\ Next
    <2>1. stage # "refused" /\ (stage' = stage \/ stage' # "refused")
      BY <1>8 DEF Next, MeasureArg, InSkips, InBegins, InCopies, InSkipsEscape, InQuestion, InNumber,
                  InPanics, InEnds, HandOver, Collect, CollectEnds, Replace, ReplaceEnds,
                  RebindCopies, RebindNumbers, Run
    <2> QED
      BY <1>3, <2>1
  <1> QED
    BY <1>4, <1>5, <1>6, <1>7, <1>8

\* In refuses a call only if an argument is missing or empty, or if all are
\* taken when a mark follows that takes none.
LEMMA OnlyForAReasonHolds == Spec => []OnlyForAReason
  <1>1. Init => InCounts /\ OnlyForAReason
    BY DEF Init, InCounts, OnlyForAReason, asked
  <1>2. Inv /\ InCounts /\ OnlyForAReason /\ [Next]_vars => (InCounts /\ OnlyForAReason)'
    BY NextCounts, NextRefuses
  <1> QED
    BY <1>1, <1>2, InvHolds, PTL DEF Spec

-----------------------------------------------------------------------------
(***************************************************************************)
(* Where the tokens of a query are on their way.  In makes InWidth[i]      *)
(* tokens of token i, of which InToken(i, e) is the e-th; the comments are *)
(* dropped; the other loops write one token for one.                       *)
(***************************************************************************)

\* The marks that take the next argument, when there are slices.
Taken(i) == Cardinality({k \in 1..i : asked[k].kind \in {"?", "?|", "--?"}})

\* The argument that In puts in at token i.
ArgIn(i) == IF asked[i].kind = "$" THEN asked[i].n ELSE Taken(i)

Expanded(i) == AnySlice /\ asked[i].kind \in {"?", "?|", "$"} /\ ArgIn(i) \in DOMAIN args

InWidth == [i \in DOMAIN asked |->
               IF Expanded(i) THEN args[ArgIn(i)].length + (IF asked[i] = Operator THEN 1 ELSE 0)
               ELSE 1]

InToken(i, e) ==
    IF Expanded(i)
    THEN IF e <= args[ArgIn(i)].length THEN Numbered(meta[ArgIn(i)].from + e - 1) ELSE Text
    ELSE asked[i]

OutWidth == [i \in DOMAIN asked |-> IF asked[i] = Comment THEN 0 ELSE InWidth[i]]

\* The rows of the arguments do not overlap.
RowsApart ==
    /\ \A a \in DOMAIN meta : meta[a].length = args[a].length
    /\ \A a, b \in DOMAIN meta : a < b => meta[a].from + meta[a].length <= meta[b].from

Past == stage \notin {"measure", "refused", "panicked"}

\* What In has put into the row is in its place.
RowFilled ==
    Past => /\ Len(meta) = Len(args)
            /\ ~AnySlice => flat = [k \in DOMAIN args |-> Value(k, 1)]
            /\ AnySlice => \A a \in DOMAIN args : \A e \in 1..args[a].length :
                              flat[meta[a].from + e - 1] \in {Unset, Value(a, e)}

\* In is behind the first Behind tokens.
InLaid ==
    stage = "in" =>
        /\ arg = Taken(Behind)
        /\ Len(done) = Total(InWidth, Behind)
        /\ \A i \in 1..Behind : \A e \in 1..InWidth[i] : done[Total(InWidth, i - 1) + e] = InToken(i, e)

\* r holds the replacements of the mentions in B.
Collected(r, B) ==
    /\ \A m \in Names :
          LET k == Mention(NoSchema, m)
          IN  /\ k \in DOMAIN r <=> \E i \in Mentioned \cap B : asked[i].model = m
              /\ k \in DOMAIN r => r[k] = Table(m)
    /\ \A m \in Names, f \in Fields :
          LET k == Field(By(m), f)
          IN  /\ k \in DOMAIN r <=> \E i \in Sources(f) \cap B : asked[i].model = m
              /\ k \in DOMAIN r => r[k] = Column(By(m), m, f)
    /\ \A f \in Fields :
          LET k == Field(NoModel, f)
          IN  /\ k \in DOMAIN r <=> Sources(f) \cap B # {}
              /\ \A i \in Sources(f) \cap B :
                    (\A h \in Sources(f) : i <= h) => r[k] = Column(NoModel, asked[i].model, f)

\* The scan is behind the first Scanned tokens that In wrote.
Scanned == Total(InWidth, Len(asked)) - Len(todo)
Passed == {i \in DOMAIN asked : Total(InWidth, i) <= Scanned}

CollectLaid ==
    /\ stage \in {"measure", "in"} => DOMAIN rpls = {}
    /\ stage = "collect" =>
        /\ Scanned \in Nat
        /\ Scanned = 0 => done = <<>>
        /\ Collected(rpls, Passed)
        /\ \A i \in DOMAIN asked : \A e \in 1..InWidth[i] :
              LET at == Total(InWidth, i - 1) + e
              IN  /\ at > Scanned => todo[at - Scanned] = InToken(i, e)
                  /\ at = Scanned => Len(done) = Total(OutWidth, i - 1) + (IF asked[i] = Comment THEN 0 ELSE e)
                  /\ at <= Scanned /\ asked[i] # Comment =>
                        /\ Total(OutWidth, i - 1) + e \in DOMAIN done
                        /\ done[Total(OutWidth, i - 1) + e] = InToken(i, e)

\* Token t stands for the e-th of those of token i, names being replaced.
Named(i, e, t) ==
    IF IsName(asked[i]) THEN IsName(t) /\ (NoSchemas => t = WantedName(asked[i]))
    ELSE t = InToken(i, e)

ReplaceLaid ==
    stage = "replace" =>
        /\ Len(done) + Len(todo) = Total(OutWidth, Len(asked))
        /\ Collected(rpls, DOMAIN asked)
        /\ \A i \in DOMAIN asked : \A e \in 1..OutWidth[i] :
              LET at == Total(OutWidth, i - 1) + e
              IN  /\ at > Len(done) => todo[at - Len(done)] = InToken(i, e)
                  /\ at <= Len(done) => Named(i, e, done[at])

\* And placeholders numbered.
Bound(i, e, t) ==
    IF asked[i] = Bind /\ ~AnySlice THEN t = Numbered(Binds(i))
    ELSE IF asked[i] = Escape THEN t = Question
    ELSE Named(i, e, t)

RebindLaid ==
    /\ stage \in {"measure", "in", "collect", "replace"} => j = 0
    /\ stage \in {"rebind", "ran"} =>
        /\ Len(done) + Len(todo) = Total(OutWidth, Len(asked))
        /\ ~AnySlice => \A i \in 0..Len(asked) : Total(OutWidth, i) = Len(done) => j = Binds(i)
        /\ \A i \in DOMAIN asked : \A e \in 1..OutWidth[i] :
              LET at == Total(OutWidth, i - 1) + e
              IN  /\ at > Len(done) => Named(i, e, todo[at - Len(done)])
                  /\ at <= Len(done) => Bound(i, e, done[at])

Layout == RowsApart /\ RowFilled /\ InLaid /\ CollectLaid /\ ReplaceLaid /\ RebindLaid

-----------------------------------------------------------------------------
(* Sums of widths.                                                         *)

LEMMA LeastOne ==
  ASSUME NEW T \in SUBSET Nat, T # {}
  PROVE  \E m \in T : \A k \in T : m <= k
  <1>1. PICK m \in T : \A k \in T : ~(<<k, m>> \in OpToRel(<, Nat))
    BY NatLessThanWellFounded, WFMin
  <1>2. ASSUME NEW k \in T PROVE m <= k
    <2>1. <<k, m>> \notin OpToRel(<, Nat)
      BY <1>1
    <2>2. ~(k < m)
      BY <2>1 DEF OpToRel
    <2> QED
      BY <2>2
  <1> QED
    BY <1>2

\* The places that Total counts.
Places(w, i) == UNION {{k} \X (1..w[k]) : k \in 1..i}

LEMMA PlacesStep ==
  ASSUME NEW n \in Nat, NEW w \in [1..n -> Nat], NEW i \in 1..n
  PROVE  /\ Places(w, i) = Places(w, i - 1) \cup ({i} \X (1..w[i]))
         /\ Places(w, i - 1) \cap ({i} \X (1..w[i])) = {}
         /\ IsFiniteSet({i} \X (1..w[i])) /\ Cardinality({i} \X (1..w[i])) = w[i]
  <1>1. \A k : k \in 1..i <=> k \in 1..(i - 1) \/ k = i
    OBVIOUS
  <1>2. i \notin 1..(i - 1)
    OBVIOUS
  <1>3. Places(w, i) = Places(w, i - 1) \cup ({i} \X (1..w[i]))
    BY <1>1 DEF Places
  <1>4. Places(w, i - 1) \cap ({i} \X (1..w[i])) = {}
    BY <1>2 DEF Places
  <1>5. IsFiniteSet({i}) /\ Cardinality({i}) = 1
    BY FS_Singleton
  <1>6. IsFiniteSet(1..w[i]) /\ Cardinality(1..w[i]) = w[i]
    <2> DEFINE c == w[i]
    <2>1. c \in Nat
      OBVIOUS
    <2> HIDE DEF c
    <2>2. IsFiniteSet(1..c)
      BY <2>1, FS_Interval
    <2>3. 1 \in Int /\ c \in Int
      BY <2>1
    <2>4. Cardinality(1..c) = IF 1 > c THEN 0 ELSE c - 1 + 1
      BY <2>3, FS_Interval
    <2> QED
      BY <2>1, <2>2, <2>4 DEF c
  <1>7. IsFiniteSet({i} \X (1..w[i])) /\ Cardinality({i} \X (1..w[i])) = 1 * w[i]
    <2> DEFINE A == {i}
               B == 1..w[i]
    <2>1. IsFiniteSet(A) /\ IsFiniteSet(B) /\ Cardinality(A) = 1 /\ Cardinality(B) = w[i]
      BY <1>5, <1>6
    <2> HIDE DEF A, B
    <2>2. IsFiniteSet(A \X B) /\ Cardinality(A \X B) = 1 * w[i]
      BY <2>1, FS_Product
    <2> QED
      BY <2>2 DEF A, B
  <1>8. w[i] \in Nat
    OBVIOUS
  <1> QED
    BY <1>3, <1>4, <1>7, <1>8

LEMMA PlacesFinite ==
  ASSUME NEW n \in Nat, NEW w \in [1..n -> Nat]
  PROVE  /\ Places(w, 0) = {}
         /\ \A i \in 0..n : IsFiniteSet(Places(w, i))
  <1>1. Places(w, 0) = {}
    BY DEF Places
  <1> DEFINE T == {i \in 0..n : ~IsFiniteSet(Places(w, i))}
  <1>2. SUFFICES ASSUME T # {} PROVE FALSE
    BY <1>1
  <1>3. PICK m \in T : \A k \in T : m <= k
    <2>1. T \in SUBSET Nat
      OBVIOUS
    <2> HIDE DEF T
    <2> QED
      BY <1>2, <2>1, LeastOne
  <1>4. m # 0
    <2>1. IsFiniteSet(Places(w, 0))
      BY <1>1, FS_EmptySet
    <2> QED
      BY <2>1, <1>3
  <1>5. m \in 1..n /\ m - 1 \in 0..n /\ ~(m <= m - 1)
    BY <1>4, <1>3
  <1>6. IsFiniteSet(Places(w, m - 1))
    BY <1>3, <1>5
  <1>7. IsFiniteSet(Places(w, m))
    <2> DEFINE A == Places(w, m - 1)
               B == {m} \X (1..w[m])
    <2>1. Places(w, m) = A \cup B /\ IsFiniteSet(A) /\ IsFiniteSet(B)
      BY <1>5, <1>6, PlacesStep
    <2> HIDE DEF A, B
    <2> QED
      BY <2>1, FS_Union
  <1> QED
    BY <1>3, <1>7

LEMMA TotalSteps ==
  ASSUME NEW n \in Nat, NEW w \in [1..n -> Nat]
  PROVE  /\ Total(w, 0) = 0
         /\ \A i \in 0..n : Total(w, i) \in Nat
         /\ \A i \in 1..n : Total(w, i) = Total(w, i - 1) + w[i]
  <1>1. \A i : Total(w, i) = Cardinality(Places(w, i))
    BY DEF Total, Places
  <1>2. Total(w, 0) = 0
    BY <1>1, PlacesFinite, FS_EmptySet
  <1>3. \A i \in 0..n : Total(w, i) \in Nat
    BY <1>1, PlacesFinite, FS_CardinalityType
  <1>4. ASSUME NEW i \in 1..n PROVE Total(w, i) = Total(w, i - 1) + w[i]
    <2> DEFINE A == Places(w, i - 1)
               B == {i} \X (1..w[i])
    <2>1. IsFiniteSet(A)
      <3>1. i - 1 \in 0..n
        OBVIOUS
      <3> QED
        BY <3>1, PlacesFinite
    <2>2. Places(w, i) = A \cup B /\ A \cap B = {} /\ IsFiniteSet(B) /\ Cardinality(B) = w[i]
      BY PlacesStep
    <2>3. Cardinality(A) \in Nat /\ w[i] \in Nat
      BY <2>1, FS_CardinalityType
    <2> HIDE DEF A, B
    <2>4. Cardinality(A \cup B) = Cardinality(A) + Cardinality(B) - Cardinality(A \cap B)
      BY <2>1, <2>2, FS_Union
    <2>5. Cardinality(A \cap B) = 0
      BY <2>2, FS_EmptySet
    <2>6. Cardinality(Places(w, i)) = Cardinality(A) + w[i]
      BY <2>2, <2>3, <2>4, <2>5
    <2> QED
      BY <1>1, <2>6 DEF A
  <1> QED
    BY <1>2, <1>3, <1>4

LEMMA TotalGrows ==
  ASSUME NEW n \in Nat, NEW w \in [1..n -> Nat], NEW i \in 0..n, NEW k \in 0..n, i <= k
  PROVE  Total(w, i) <= Total(w, k)
  <1>1. Places(w, i) \subseteq Places(w, k)
    <2>1. 1..i \subseteq 1..k
      OBVIOUS
    <2> QED
      BY <2>1 DEF Places
  <1>2. IsFiniteSet(Places(w, k))
    BY PlacesFinite
  <1> QED
    BY <1>1, <1>2, FS_Subset DEF Total, Places

\* Every place lies in one block, and in no other.
LEMMA PlaceFound ==
  ASSUME NEW n \in Nat, NEW w \in [1..n -> Nat], NEW x \in 1..Total(w, n)
  PROVE  \E i \in 1..n : \E e \in 1..w[i] : x = Total(w, i - 1) + e
  <1> DEFINE T == {i \in 0..n : x <= Total(w, i)}
  <1>0. Total(w, 0) = 0 /\ Total(w, n) \in Nat /\ x \in Nat /\ x > 0 /\ x <= Total(w, n)
    BY TotalSteps
  <1>1. n \in T /\ T \in SUBSET Nat
    BY <1>0
  <1>2. PICK i \in T : \A k \in T : i <= k
    <2> HIDE DEF T
    <2> QED
      BY <1>1, LeastOne
  <1>3. i # 0
    BY <1>0, <1>2
  <1>4. i \in 1..n /\ i - 1 \in 0..n /\ ~(i <= i - 1)
    BY <1>2, <1>3
  <1>5. ~(x <= Total(w, i - 1)) /\ x <= Total(w, i)
    BY <1>2, <1>4
  <1>6. Total(w, i) = Total(w, i - 1) + w[i] /\ Total(w, i - 1) \in Nat /\ w[i] \in Nat
    BY <1>4, TotalSteps
  <1>7. x - Total(w, i - 1) \in 1..w[i]
    BY <1>0, <1>5, <1>6
  <1> QED
    BY <1>0, <1>4, <1>6, <1>7

LEMMA PlaceTyped ==
  ASSUME NEW n \in Nat, NEW w \in [1..n -> Nat], NEW i \in 1..n, NEW e \in 1..w[i]
  PROVE  /\ Total(w, i - 1) \in Nat /\ e \in Nat /\ 1 <= e
         /\ Total(w, i - 1) + e \in 1..Total(w, n)
         /\ Total(w, i - 1) + e <= Total(w, i)
  <1>1. i \in 0..n /\ n \in 0..n /\ i - 1 \in 0..n /\ i <= n
    OBVIOUS
  <1>2. /\ Total(w, i) = Total(w, i - 1) + w[i] /\ Total(w, i - 1) \in Nat
        /\ Total(w, i) \in Nat /\ w[i] \in Nat
    BY <1>1, TotalSteps
  <1>3. Total(w, i) <= Total(w, n) /\ Total(w, n) \in Nat
    BY <1>1, TotalGrows, TotalSteps
  <1>4. e \in Nat /\ 1 <= e /\ e <= w[i]
    BY <1>2
  <1>5. Total(w, i - 1) + e \in 1..Total(w, n) /\ Total(w, i - 1) + e <= Total(w, i)
    BY <1>2, <1>3, <1>4
  <1> QED
    BY <1>2, <1>4, <1>5

LEMMA PlaceUnique ==
  ASSUME NEW n \in Nat, NEW w \in [1..n -> Nat], NEW i \in 1..n, NEW k \in 1..n,
         NEW e \in 1..w[i], NEW d \in 1..w[k], Total(w, i - 1) + e <= Total(w, k - 1) + d
  PROVE  /\ i <= k
         /\ i = k => e <= d
  <1>1. /\ Total(w, i - 1) \in Nat /\ e \in Nat /\ 1 <= e
        /\ Total(w, k - 1) \in Nat /\ d \in Nat /\ Total(w, k - 1) + d <= Total(w, k)
    BY PlaceTyped
  <1>2. ASSUME k < i PROVE FALSE
    <2>1. k \in 0..n /\ i - 1 \in 0..n /\ k <= i - 1
      BY <1>2
    <2>2. Total(w, k) <= Total(w, i - 1) /\ Total(w, k) \in Nat
      BY <2>1, TotalGrows, TotalSteps
    <2> QED
      BY <1>1, <2>2
  <1>3. i = k => e <= d
    BY <1>1
  <1> QED
    BY <1>2, <1>3

LEMMA TotalOnes ==
  ASSUME NEW n \in Nat, NEW w \in [1..n -> Nat], \A i \in 1..n : w[i] = 1
  PROVE  \A i \in 0..n : Total(w, i) = i
  <1> DEFINE T == {i \in 0..n : Total(w, i) # i}
  <1>1. SUFFICES ASSUME T # {} PROVE FALSE
    OBVIOUS
  <1>2. PICK m \in T : \A k \in T : m <= k
    <2>1. T \in SUBSET Nat
      OBVIOUS
    <2> HIDE DEF T
    <2> QED
      BY <1>1, <2>1, LeastOne
  <1>3. m # 0
    BY <1>2, TotalSteps
  <1>4. m \in 1..n /\ m - 1 \in 0..n /\ ~(m <= m - 1)
    BY <1>2, <1>3
  <1>5. Total(w, m - 1) = m - 1
    BY <1>2, <1>4
  <1>6. Total(w, m) = Total(w, m - 1) + 1
    <2>1. Total(w, m) = Total(w, m - 1) + w[m]
      BY <1>4, TotalSteps
    <2> QED
      BY <1>4, <2>1
  <1> QED
    BY <1>2, <1>4, <1>5, <1>6

-----------------------------------------------------------------------------
(* The query, its tokens and their widths.                                 *)

LEMMA Request ==
  ASSUME Inv
  PROVE  /\ Len(asked) \in Nat /\ DOMAIN asked = 1..Len(asked)
         /\ \A i \in DOMAIN asked : asked[i] \in Token
         /\ Len(args) \in Nat /\ DOMAIN args = 1..Len(args)
         /\ \A a \in DOMAIN args : /\ args[a].length \in Nat
                                   /\ ~args[a].slice => args[a].length = 1
  <1>1. /\ asked \in Seq(Token) /\ args \in Seq(Argument)
        /\ \A a \in DOMAIN args : ~args[a].slice => args[a].length = 1
    BY RequestsAssumption DEF Inv, TypeOK, asked, args
  <1>2. \A a \in DOMAIN args : args[a] \in Argument
    BY <1>1, Elements
  <1> QED
    BY <1>1, <1>2, Elements DEF Argument

LEMMA TokenKinds ==
  ASSUME NEW t \in Token
  PROVE  /\ IsName(t) <=> t.kind \in {"&", ":"}
         /\ t.kind = "?" <=> t = Bind
         /\ t.kind = "??" <=> t = Escape
         /\ t.kind = "?|" <=> t = Operator
         /\ t.kind = "--?" <=> t = Comment
         /\ t.kind = "$" => t.n \in Nat /\ t = Numbered(t.n)
         /\ t.kind = "&" => t.model \in Names /\ t = Mention(t.schema, t.model)
         /\ t.kind = ":" => /\ t.field \in Fields /\ t = Field(t.model, t.field)
                            /\ t.model = NoModel \/ \E m \in Names : t.model = By(m)
         /\ t.kind # "question"
  <1>1. CASE t \in {Text, Bind, Escape, Operator, Comment}
    BY <1>1 DEF Text, Bind, Escape, Operator, Comment, IsName
  <1>2. CASE t \in [kind : {"$"}, n : Nat]
    BY <1>2 DEF Text, Bind, Escape, Operator, Comment, IsName, Numbered
  <1>3. CASE t \in [kind : {"&"}, schema : {NoSchema, Current} \cup {Of(s) : s \in Shards}, model : Names]
    BY <1>3 DEF Text, Bind, Escape, Operator, Comment, IsName, Mention
  <1>4. CASE t \in [kind : {":"}, model : {NoModel} \cup {By(m) : m \in Names}, field : Fields]
    <2> DEFINE Q == {NoModel} \cup {By(m) : m \in Names}
    <2>1. \A q \in Q : q = NoModel \/ \E m \in Names : q = By(m)
      OBVIOUS
    <2> HIDE DEF Q
    <2>2. t \in [kind : {":"}, model : Q, field : Fields]
      BY <1>4 DEF Q
    <2> QED
      BY <2>1, <2>2 DEF Text, Bind, Escape, Operator, Comment, IsName, Field
  <1> QED
    BY <1>1, <1>2, <1>3, <1>4 DEF Token

\* What each kind of a token comes to, when it is not expanded.
LEMMA Widths ==
  ASSUME Inv
  PROVE  /\ InWidth \in [1..Len(asked) -> Nat]
         /\ OutWidth \in [1..Len(asked) -> Nat]
         /\ \A i \in DOMAIN asked :
               /\ IsName(asked[i]) => ~Expanded(i)
               /\ ~Expanded(i) => InWidth[i] = 1
               /\ Expanded(i) => /\ ArgIn(i) \in DOMAIN args /\ asked[i] # Comment
                                 /\ InWidth[i] = args[ArgIn(i)].length + (IF asked[i] = Operator THEN 1 ELSE 0)
               /\ OutWidth[i] = IF asked[i] = Comment THEN 0 ELSE InWidth[i]
               /\ ~AnySlice => ~Expanded(i)
  <1>1. ASSUME NEW i \in DOMAIN asked PROVE InWidth[i] \in Nat
    <2>1. CASE Expanded(i)
      <3>1. args[ArgIn(i)].length \in Nat
        BY <2>1, Request DEF Expanded
      <3> QED
        BY <2>1, <3>1 DEF InWidth
    <2>2. CASE ~Expanded(i)
      BY <2>2 DEF InWidth
    <2> QED
      BY <2>1, <2>2
  <1>2. DOMAIN asked = 1..Len(asked)
    BY Request
  <1>3. InWidth \in [1..Len(asked) -> Nat]
    BY <1>1, <1>2 DEF InWidth
  <1>4. OutWidth \in [1..Len(asked) -> Nat]
    BY <1>1, <1>2 DEF OutWidth
  <1>5. ASSUME NEW i \in DOMAIN asked
        PROVE  /\ IsName(asked[i]) => ~Expanded(i)
               /\ ~Expanded(i) => InWidth[i] = 1
               /\ Expanded(i) => /\ ArgIn(i) \in DOMAIN args /\ asked[i] # Comment
                                 /\ InWidth[i] = args[ArgIn(i)].length + (IF asked[i] = Operator THEN 1 ELSE 0)
               /\ OutWidth[i] = IF asked[i] = Comment THEN 0 ELSE InWidth[i]
               /\ ~AnySlice => ~Expanded(i)
    <2>1. asked[i] \in Token
      BY Request
    <2>2. IsName(asked[i]) => ~Expanded(i)
      BY <2>1, TokenKinds DEF Expanded
    <2>3. Expanded(i) => ArgIn(i) \in DOMAIN args /\ asked[i] # Comment
      BY <2>1, TokenKinds DEF Expanded
    <2> QED
      BY <2>2, <2>3 DEF InWidth, OutWidth, Expanded
  <1> QED
    BY <1>3, <1>4, <1>5

\* None of the arguments that In has measured is empty.
LEMMA WidthsPositive ==
  ASSUME Inv, RowsApart, Len(meta) = Len(args), NEW i \in DOMAIN asked
  PROVE  InWidth[i] \in Nat \ {0}
  <1>1. DOMAIN meta = 1..Len(meta) /\ \A a \in DOMAIN meta : meta[a].length \in Nat \ {0}
    BY RowTyped DEF Inv
  <1>2. CASE Expanded(i)
    <2>1. ArgIn(i) \in DOMAIN args /\ DOMAIN args = 1..Len(args)
      BY <1>2, Request, Widths
    <2>2. args[ArgIn(i)].length \in Nat \ {0}
      BY <1>1, <2>1 DEF RowsApart
    <2>3. InWidth[i] = args[ArgIn(i)].length + (IF asked[i] = Operator THEN 1 ELSE 0)
      BY <1>2, Widths
    <2> QED
      BY <2>2, <2>3
  <1>3. CASE ~Expanded(i)
    BY <1>3, Widths
  <1> QED
    BY <1>2, <1>3

\* None of this changes past In's first loop.
LEMMA LayoutStays ==
  ASSUME request' = request, meta' = meta
  PROVE  /\ asked' = asked /\ args' = args /\ AnySlice' = AnySlice
         /\ InWidth' = InWidth /\ OutWidth' = OutWidth
         /\ \A i, e : InToken(i, e)' = InToken(i, e)
         /\ \A i : Taken(i)' = Taken(i) /\ Binds(i)' = Binds(i)
         /\ NoSchemas' = NoSchemas
         /\ Mentioned' = Mentioned /\ \A f : Sources(f)' = Sources(f)
         /\ RowsApart' = RowsApart
  <1>1. asked' = asked /\ args' = args /\ AnySlice' = AnySlice
    BY DEF asked, args, AnySlice
  <1>2. \A i : Taken(i)' = Taken(i) /\ Binds(i)' = Binds(i)
    BY <1>1 DEF Taken, Binds
  <1>3. \A i : ArgIn(i)' = ArgIn(i)
    BY <1>1, <1>2 DEF ArgIn
  <1>4. \A i : Expanded(i)' = Expanded(i)
    BY <1>1, <1>3 DEF Expanded
  <1>5. InWidth' = InWidth
    BY <1>1, <1>3, <1>4 DEF InWidth
  <1>6. OutWidth' = OutWidth
    BY <1>1, <1>5 DEF OutWidth
  <1>7. \A i, e : InToken(i, e)' = InToken(i, e)
    BY <1>1, <1>3, <1>4 DEF InToken
  <1>8. NoSchemas' = NoSchemas /\ Mentioned' = Mentioned /\ \A f : Sources(f)' = Sources(f)
    BY <1>1 DEF NoSchemas, Mentioned, Sources
  <1>9. RowsApart' = RowsApart
    BY <1>1 DEF RowsApart
  <1> QED
    BY <1>1, <1>2, <1>5, <1>6, <1>7, <1>8, <1>9

-----------------------------------------------------------------------------
(* In.                                                                     *)

LEMMA TakenNext ==
  ASSUME NEW i \in Nat
  PROVE  /\ Taken(i) \in Nat /\ Taken(0) = 0
         /\ Taken(i + 1) = Taken(i) + (IF asked[i + 1].kind \in {"?", "?|", "--?"} THEN 1 ELSE 0)
  <1> DEFINE takes(k) == asked[k].kind \in {"?", "?|", "--?"}
             B == {k \in 1..i : takes(k)}
             C == {k \in 1..(i + 1) : takes(k)}
  <1>0. IsFiniteSet(1..i)
    BY FS_Interval
  <1>1. IsFiniteSet(B) /\ Cardinality(B) \in Nat
    <2>1. B \subseteq 1..i
      OBVIOUS
    <2> HIDE DEF B
    <2>2. IsFiniteSet(B)
      BY <1>0, <2>1, FS_Subset
    <2> QED
      BY <2>2, FS_CardinalityType
  <1>2. Cardinality(B) = Taken(i) /\ Cardinality(C) = Taken(i + 1)
    BY DEF Taken
  <1>3. Taken(0) = 0
    <2>1. {k \in 1..0 : takes(k)} = {}
      OBVIOUS
    <2> QED
      BY <2>1, FS_EmptySet DEF Taken
  <1>4. CASE takes(i + 1)
    <2>1. C = B \cup {i + 1} /\ i + 1 \notin B
      BY <1>4
    <2> HIDE DEF B, C
    <2>2. Cardinality(C) = Cardinality(B) + 1
      BY <1>1, <2>1, FS_AddElement
    <2> QED
      BY <1>1, <1>2, <1>3, <1>4, <2>2
  <1>5. CASE ~takes(i + 1)
    <2>1. C = B
      BY <1>5
    <2> HIDE DEF B, C
    <2> QED
      BY <1>1, <1>2, <1>3, <1>5, <2>1
  <1> QED
    BY <1>4, <1>5

\* The next argument starts behind the row.
LEMMA MeasuredApart ==
  ASSUME Inv, RowsApart, MeasureArg
  PROVE  RowsApart'
  <1> DEFINE n == Len(meta)
             new == [from |-> flatArgsCount + 1, length |-> args[n + 1].length]
  <1>1. meta' = Append(meta, new) /\ args' = args
    BY DEF MeasureArg, args
  <1>2. /\ flatArgsCount \in Nat /\ DOMAIN meta = 1..n /\ n \in Nat
        /\ \A a \in DOMAIN meta : meta[a].from \in Nat \ {0} /\ meta[a].length \in Nat \ {0}
    BY RowTyped DEF Inv
  <1>3. /\ meta' \in Seq([from : Nat \ {0}, length : Nat \ {0}])
        /\ meta \in Seq([from : Nat \ {0}, length : Nat \ {0}])
    BY MeasureArgInv DEF Inv, TypeOK
  <1> HIDE DEF new, n
  <1>4. /\ DOMAIN meta' = 1..(n + 1) /\ meta'[n + 1] = new
        /\ \A a \in 1..n : meta'[a] = meta[a]
    BY <1>1, <1>2, <1>3 DEF n
  <1>5. new.from = flatArgsCount + 1 /\ new.length = args[n + 1].length
    BY DEF new
  <1>6. \A a \in 1..n : meta[a].from + meta[a].length - 1 <= flatArgsCount
    BY <1>2 DEF Inv, RowsFit
  <1>7. ASSUME NEW a \in 1..(n + 1), NEW b \in 1..(n + 1), a < b
        PROVE  meta'[a].from + meta'[a].length <= meta'[b].from
    <2>1. CASE b \in 1..n
      <3>1. a \in 1..n
        BY <1>2, <1>7, <2>1
      <3> QED
        BY <1>2, <1>4, <1>7, <2>1, <3>1 DEF RowsApart
    <2>2. CASE b = n + 1
      <3>1. a \in 1..n
        BY <1>2, <1>7, <2>2
      <3>2. /\ meta[a].from + meta[a].length - 1 <= flatArgsCount
            /\ meta[a].from \in Nat /\ meta[a].length \in Nat
        BY <1>2, <1>6, <3>1
      <3>3. meta[a].from + meta[a].length <= flatArgsCount + 1
        BY <1>2, <3>2
      <3> QED
        BY <1>4, <1>5, <2>2, <3>1, <3>3
    <2> QED
      BY <1>2, <2>1, <2>2
  <1>8. ASSUME NEW a \in 1..(n + 1) PROVE meta'[a].length = args[a].length
    <2>1. CASE a \in 1..n
      BY <1>2, <1>4, <2>1 DEF RowsApart
    <2>2. CASE a = n + 1
      BY <1>4, <1>5, <2>2
    <2> QED
      BY <1>2, <2>1, <2>2
  <1> QED
    BY <1>1, <1>4, <1>7, <1>8 DEF RowsApart

\* The values of one argument go into its own places.
LEMMA FillPlaces ==
  ASSUME Inv, RowsApart, RowFilled, stage = "in", NEW b \in DOMAIN meta, Fill(b),
         UNCHANGED <<request, stage, meta>>
  PROVE  RowFilled'
  <1>1. /\ AnySlice /\ AnySlice' /\ args' = args /\ Len(meta) = Len(args)
        /\ flat \in [1..flatArgsCount -> Nat \X Nat]
    BY DEF Inv, TextIsSettled, RowIsMade, RowFilled, Past, AnySlice, args
  <1>2. /\ DOMAIN meta = 1..Len(meta) /\ DOMAIN args = 1..Len(args)
        /\ \A a \in DOMAIN meta : /\ meta[a].from \in Nat \ {0} /\ meta[a].length \in Nat \ {0}
                                  /\ meta[a].length = args[a].length
    BY RowTyped, Request DEF Inv, RowsApart
  <1>3. ASSUME NEW a \in DOMAIN args, NEW e \in 1..args[a].length
        PROVE  flat'[meta[a].from + e - 1] \in {Unset, Value(a, e)}
    <2> DEFINE x == meta[a].from + e - 1
    <2>1. a \in DOMAIN meta /\ e \in 1..meta[a].length
      BY <1>1, <1>2
    <2>2. x \in Row(a) /\ x \in 1..flatArgsCount
      BY <2>1, RowFits DEF Inv
    <2>3. flat'[x] = IF x \in Row(b) THEN Value(b, x - meta[b].from + 1) ELSE flat[x]
      BY <1>1, <2>2 DEF Fill
    <2>4. CASE x \in Row(b)
      <3>1. /\ meta[a].from \in Nat /\ meta[b].from \in Nat /\ meta[a].length \in Nat
            /\ meta[b].length \in Nat /\ e \in Nat
        BY <1>2, <2>1
      <3>2. /\ meta[a].from <= x /\ x < meta[a].from + meta[a].length
            /\ meta[b].from <= x /\ x < meta[b].from + meta[b].length /\ x \in Nat
        BY <2>2, <2>4, <3>1 DEF Row
      <3>3. /\ a < b => meta[a].from + meta[a].length <= meta[b].from
            /\ b < a => meta[b].from + meta[b].length <= meta[a].from
            /\ a \in Nat /\ b \in Nat
        BY <1>2, <2>1 DEF RowsApart
      <3>4. a = b
        <4> HIDE DEF x
        <4> QED
          BY <3>1, <3>2, <3>3
      <3>5. x - meta[b].from + 1 = e
        BY <3>1, <3>4
      <3> QED
        BY <2>3, <2>4, <3>4, <3>5
    <2>5. CASE x \notin Row(b)
      <3>1. flat[x] \in {Unset, Value(a, e)}
        BY <1>1 DEF RowFilled, Past
      <3> QED
        BY <2>3, <2>5, <3>1
    <2> QED
      BY <2>4, <2>5
  <1> QED
    BY <1>1, <1>3 DEF RowFilled, Past

\* One token of the query is behind In, and its tokens are written.
LEMMA InTurnLaid ==
  ASSUME Inv, InCounts, InLaid, stage = "in", todo # <<>>,
         NEW ts \in Seq(Written), Write(ts), UNCHANGED <<request, stage, meta>>,
         Len(ts) = InWidth[Behind + 1],
         \A e \in 1..InWidth[Behind + 1] : ts[e] = InToken(Behind + 1, e),
         arg' = Taken(Behind + 1)
  PROVE  InLaid'
  <1> DEFINE b == Behind
             n == Len(asked)
  <1>1. b \in Nat /\ b + 1 \in DOMAIN asked
    BY InStandsAt
  <1>2. n \in Nat /\ DOMAIN asked = 1..n /\ InWidth \in [1..n -> Nat]
    BY Request, Widths
  <1>3. /\ asked' = asked /\ InWidth' = InWidth
        /\ \A i, e : InToken(i, e)' = InToken(i, e)
        /\ \A i : Taken(i)' = Taken(i)
    BY LayoutStays
  <1>4. Behind' = b + 1
    <2>1. todo \in Seq(Written) /\ todo' = Tail(todo)
      BY DEF Inv, TypeOK, Write
    <2>2. Len(todo') = Len(todo) - 1 /\ Len(todo) \in Nat
      BY <2>1
    <2> QED
      BY <1>2, <1>3, <2>2 DEF Behind
  <1>5. /\ done \in Seq(Written) /\ done' = done \o ts
        /\ Len(done) = Total(InWidth, b)
        /\ \A i \in 1..b : \A e \in 1..InWidth[i] : done[Total(InWidth, i - 1) + e] = InToken(i, e)
    BY DEF Inv, TypeOK, Write, InLaid
  <1> HIDE DEF b, n
  <1>6. /\ Total(InWidth, b + 1) = Total(InWidth, b) + InWidth[b + 1]
        /\ Total(InWidth, b) \in Nat /\ InWidth[b + 1] \in Nat
    <2>1. b + 1 \in 1..n /\ b \in 0..n /\ (b + 1) - 1 = b
      BY <1>1, <1>2 DEF b
    <2>2. Total(InWidth, b + 1) = Total(InWidth, (b + 1) - 1) + InWidth[b + 1]
      BY <1>2, <2>1, TotalSteps
    <2>3. Total(InWidth, b) \in Nat
      BY <1>2, <2>1, TotalSteps
    <2> QED
      BY <1>2, <2>1, <2>2, <2>3
  <1>7. /\ Len(done') = Len(done) + Len(ts) /\ Len(done) \in Nat /\ Len(ts) \in Nat
        /\ \A x \in 1..Len(done) : done'[x] = done[x]
        /\ \A e \in 1..Len(ts) : done'[Len(done) + e] = ts[e]
    <2>1. ts \in Seq(Written) /\ done \in Seq(Written) /\ done' = done \o ts
      BY <1>5
    <2> QED
      BY <2>1
  <1>8. ASSUME NEW i \in 1..(b + 1), NEW e \in 1..InWidth[i]
        PROVE  done'[Total(InWidth, i - 1) + e] = InToken(i, e)
    <2>1. CASE i = b + 1
      <3>1. i - 1 = b /\ e \in 1..Len(ts)
        BY <1>1, <2>1 DEF b
      <3>2. ts[e] = InToken(i, e)
        BY <2>1 DEF b
      <3> QED
        BY <1>5, <1>7, <3>1, <3>2
    <2>2. CASE i # b + 1
      <3>1. i \in 1..b /\ i \in 1..n /\ i - 1 \in 0..n /\ i \in 0..n /\ b \in 0..n /\ i <= b
        BY <1>1, <1>2, <2>2 DEF b
      <3>2. /\ Total(InWidth, i) = Total(InWidth, i - 1) + InWidth[i]
            /\ Total(InWidth, i - 1) \in Nat /\ InWidth[i] \in Nat
        BY <1>2, <3>1, TotalSteps
      <3>3. Total(InWidth, i) <= Total(InWidth, b)
        BY <1>2, <3>1, TotalGrows
      <3>4. Total(InWidth, i - 1) + e \in 1..Len(done)
        BY <1>5, <1>6, <3>2, <3>3
      <3> QED
        BY <1>5, <1>7, <3>1, <3>4
    <2> QED
      BY <2>1, <2>2
  <1>9. Len(done') = Total(InWidth, b + 1)
    BY <1>5, <1>6, <1>7 DEF b
  <1>10. arg' = Taken(b + 1)
    BY DEF b
  <1> QED
    BY <1>3, <1>4, <1>8, <1>9, <1>10 DEF InLaid

LEMMA InStaysLaid ==
  ASSUME Inv, InCounts, InLaid, InCopies \/ InSkipsEscape
  PROVE  InLaid'
  <1> DEFINE b == Behind
             t == asked[b + 1]
  <1>1. /\ stage = "in" /\ todo # <<>> /\ Write(<<Head(todo)>>)
        /\ Head(todo).kind \notin {"?", "?|", "--?", "$"}
        /\ UNCHANGED <<request, stage, meta>> /\ arg' = arg
    BY DEF InCopies, InSkipsEscape, Stops, Escape
  <1>2. b \in Nat /\ b + 1 \in DOMAIN asked /\ Head(todo) = t /\ t \in Token
    BY <1>1, InStandsAt
  <1>3. ~Expanded(b + 1)
    BY <1>1, <1>2 DEF Expanded
  <1>4. InWidth[b + 1] = 1 /\ InToken(b + 1, 1) = t
    BY <1>2, <1>3, Widths DEF InToken
  <1>5. arg' = Taken(b + 1)
    <2>1. Taken(b + 1) = Taken(b) + 0 /\ Taken(b) \in Nat
      BY <1>1, <1>2, TakenNext
    <2>2. arg = Taken(b)
      BY <1>1 DEF InLaid
    <2> QED
      BY <1>1, <2>1, <2>2
  <1>6. <<Head(todo)>> \in Seq(Written) /\ Len(<<Head(todo)>>) = 1 /\ <<Head(todo)>>[1] = t
    BY <1>2, WrittenTokens
  <1>7. \A e \in 1..InWidth[b + 1] : <<Head(todo)>>[e] = InToken(b + 1, e)
    BY <1>4, <1>6
  <1> QED
    BY <1>1, <1>4, <1>5, <1>6, <1>7, InTurnLaid

LEMMA NumbersAre ==
  ASSUME Inv, RowsApart, NEW a \in DOMAIN meta
  PROVE  /\ Numbers(a) \in Seq(Written)
         /\ Len(Numbers(a)) = args[a].length /\ args[a].length \in Nat
         /\ \A e \in 1..args[a].length : Numbers(a)[e] = Numbered(meta[a].from + e - 1)
  <1>1. /\ meta[a].from \in Nat \ {0} /\ meta[a].length \in Nat \ {0}
        /\ meta[a].length = args[a].length
    BY RowTyped DEF Inv, RowsApart
  <1>2. \A e \in 1..meta[a].length : Numbered(meta[a].from + e - 1) \in Written
    <2>1. \A e \in 1..meta[a].length : meta[a].from + e - 1 \in Nat \ {0}
      BY <1>1
    <2> QED
      BY <2>1, WrittenTokens
  <1> QED
    BY <1>1, <1>2 DEF Numbers

LEMMA InQuestionLaid ==
  ASSUME Inv, InCounts, InLaid, RowsApart, RowFilled, InQuestion
  PROVE  InLaid' /\ RowFilled'
  <1> DEFINE b == Behind
             t == asked[b + 1]
             a == arg + 1
  <1>1. /\ stage = "in" /\ todo # <<>> /\ Head(todo).kind \in {"?", "?|", "--?"}
        /\ arg < Len(meta) /\ arg' = a /\ Fill(a)
        /\ Write(IF Head(todo) = Comment THEN <<Comment>>
                 ELSE IF Head(todo) = Operator THEN Append(Numbers(a), Text)
                 ELSE Numbers(a))
        /\ UNCHANGED <<request, stage, meta>>
    BY DEF InQuestion
  <1>2. /\ b \in Nat /\ b + 1 \in DOMAIN asked /\ Head(todo) = t /\ t \in Token
        /\ AnySlice /\ Len(meta) = Len(args) /\ DOMAIN args = 1..Len(args) /\ Len(args) \in Nat
    BY <1>1, InStandsAt
  <1>3. a \in DOMAIN meta /\ a \in DOMAIN args /\ arg \in Nat
    BY <1>1, <1>2, RowTyped DEF Inv, TypeOK
  <1>4. RowFilled'
    BY <1>1, <1>3, FillPlaces
  <1>5. a = Taken(b + 1)
    <2>1. Taken(b + 1) = Taken(b) + 1
      BY <1>1, <1>2, TakenNext
    <2>2. arg = Taken(b)
      BY <1>1 DEF InLaid
    <2> QED
      BY <2>1, <2>2
  <1>6. ArgIn(b + 1) = a
    BY <1>1, <1>2, <1>5 DEF ArgIn
  <1>7. Expanded(b + 1) <=> t # Comment
    BY <1>1, <1>2, <1>3, <1>6, TokenKinds DEF Expanded
  <1>8. /\ Numbers(a) \in Seq(Written)
        /\ Len(Numbers(a)) = args[a].length /\ args[a].length \in Nat
        /\ \A e \in 1..args[a].length : Numbers(a)[e] = Numbered(meta[a].from + e - 1)
    BY <1>3, NumbersAre
  <1> HIDE DEF a
  <1>9. PICK ts \in Seq(Written) :
           /\ Write(ts) /\ Len(ts) = InWidth[b + 1]
           /\ \A e \in 1..InWidth[b + 1] : ts[e] = InToken(b + 1, e)
    <2>1. CASE t = Comment
      <3>1. InWidth[b + 1] = 1 /\ InToken(b + 1, 1) = Comment
        BY <1>2, <1>7, <2>1, Widths DEF InToken
      <3>2. Write(<<Comment>>) /\ <<Comment>> \in Seq(Written)
        BY <1>1, <1>2, <2>1, WrittenTokens
      <3> QED
        BY <3>1, <3>2
    <2>2. CASE t = Operator
      <3> DEFINE ts == Append(Numbers(a), Text)
      <3>1. Operator # Comment
        BY DEF Operator, Comment
      <3>2. Expanded(b + 1) /\ Write(ts)
        BY <1>1, <1>2, <1>7, <2>2, <3>1
      <3>3. InWidth[b + 1] = args[a].length + 1
        BY <1>2, <1>6, <2>2, <3>2, Widths
      <3>4. /\ ts \in Seq(Written) /\ Len(ts) = args[a].length + 1
            /\ \A e \in 1..args[a].length : ts[e] = Numbers(a)[e]
            /\ ts[args[a].length + 1] = Text
        BY <1>8, WrittenTokens
      <3>5. ASSUME NEW e \in 1..(args[a].length + 1) PROVE ts[e] = InToken(b + 1, e)
        <4> HIDE DEF ts
        <4>1. CASE e \in 1..args[a].length
          <5>1. InToken(b + 1, e) = Numbered(meta[a].from + e - 1)
            BY <1>6, <3>2, <4>1 DEF InToken
          <5> QED
            BY <1>8, <3>4, <4>1, <5>1
        <4>2. CASE e = args[a].length + 1
          <5>1. InToken(b + 1, e) = Text
            BY <1>6, <1>8, <3>2, <4>2 DEF InToken
          <5> QED
            BY <3>4, <4>2, <5>1
        <4> QED
          BY <1>8, <4>1, <4>2
      <3> HIDE DEF ts
      <3> QED
        BY <3>2, <3>3, <3>4, <3>5
    <2>3. CASE t # Comment /\ t # Operator
      <3>1. Expanded(b + 1) /\ Write(Numbers(a))
        BY <1>1, <1>2, <1>7, <2>3
      <3>2. InWidth[b + 1] = args[a].length
        BY <1>2, <1>6, <1>8, <2>3, <3>1, Widths
      <3>3. \A e \in 1..args[a].length : InToken(b + 1, e) = Numbered(meta[a].from + e - 1)
        BY <1>6, <3>1 DEF InToken
      <3> QED
        BY <1>8, <3>1, <3>2, <3>3
    <2> QED
      BY <2>1, <2>2, <2>3
  <1>10. arg' = Taken(b + 1)
    BY <1>1, <1>5
  <1> QED
    BY <1>1, <1>4, <1>9, <1>10, InTurnLaid

LEMMA InNumberLaid ==
  ASSUME Inv, InCounts, InLaid, RowsApart, RowFilled, InNumber
  PROVE  InLaid' /\ RowFilled'
  <1> DEFINE b == Behind
             t == asked[b + 1]
             a == Head(todo).n
  <1>1. /\ stage = "in" /\ todo # <<>> /\ Head(todo).kind = "$" /\ a \in 1..Len(meta)
        /\ arg' = arg /\ Fill(a) /\ Write(Numbers(a)) /\ UNCHANGED <<request, stage, meta>>
    BY DEF InNumber
  <1>2. /\ b \in Nat /\ b + 1 \in DOMAIN asked /\ Head(todo) = t /\ t \in Token
        /\ AnySlice /\ Len(meta) = Len(args) /\ DOMAIN args = 1..Len(args) /\ Len(args) \in Nat
    BY <1>1, InStandsAt
  <1>3. a \in DOMAIN meta /\ a \in DOMAIN args
    <2>1. a \in Nat \ {0}
      BY <1>1
    <2>2. DOMAIN meta = 1..Len(meta)
      BY RowTyped DEF Inv
    <2> HIDE DEF a
    <2> QED
      BY <1>1, <1>2, <2>1, <2>2
  <1>4. RowFilled'
    BY <1>1, <1>3, FillPlaces
  <1>5. ArgIn(b + 1) = a /\ Expanded(b + 1)
    BY <1>1, <1>2, <1>3 DEF ArgIn, Expanded
  <1>6. /\ Numbers(a) \in Seq(Written)
        /\ Len(Numbers(a)) = args[a].length /\ args[a].length \in Nat
        /\ \A e \in 1..args[a].length : Numbers(a)[e] = Numbered(meta[a].from + e - 1)
    BY <1>3, NumbersAre
  <1>7. t # Operator
    BY <1>1, <1>2 DEF Operator
  <1> HIDE DEF a
  <1>8. InWidth[b + 1] = args[a].length
    <2>1. InWidth[b + 1] = args[ArgIn(b + 1)].length + (IF t = Operator THEN 1 ELSE 0)
      BY <1>2, <1>5, Widths
    <2> QED
      BY <1>5, <1>6, <1>7, <2>1
  <1>9. \A e \in 1..InWidth[b + 1] : Numbers(a)[e] = InToken(b + 1, e)
    BY <1>5, <1>6, <1>8 DEF InToken
  <1>10. arg' = Taken(b + 1)
    <2>1. Taken(b + 1) = Taken(b) + 0 /\ Taken(b) \in Nat
      BY <1>1, <1>2, TakenNext
    <2>2. arg = Taken(b)
      BY <1>1 DEF InLaid
    <2> QED
      BY <1>1, <2>1, <2>2
  <1> QED
    BY <1>1, <1>4, <1>6, <1>8, <1>9, <1>10, InTurnLaid

LEMMA InBeginsLaid ==
  ASSUME Inv, InCounts, RowsApart, InBegins
  PROVE  InLaid' /\ RowFilled'
  <1>1. /\ stage = "measure" /\ stage' = "in" /\ AnySlice /\ Len(meta) = Len(args)
        /\ flat' = [k \in 1..flatArgsCount |-> Unset]
        /\ request' = request /\ todo' = todo /\ done' = done /\ meta' = meta /\ arg' = arg
    BY DEF InBegins
  <1>2. todo = asked /\ arg = 0 /\ done = <<>>
    BY <1>1 DEF InCounts, Inv, TextIsSettled
  <1>3. /\ asked' = asked /\ args' = args /\ AnySlice' = AnySlice /\ InWidth' = InWidth
        /\ \A i : Taken(i)' = Taken(i)
    BY <1>1, LayoutStays
  <1>4. Behind' = 0
    BY <1>1, <1>2, <1>3, Request DEF Behind
  <1>5. Taken(0) = 0 /\ Total(InWidth, 0) = 0
    BY TakenNext, TotalSteps, Widths, Request
  <1>6. InLaid'
    <2>1. Len(done') = Total(InWidth, 0) /\ arg' = Taken(0) /\ 1..0 = {}
      BY <1>1, <1>2, <1>5
    <2> QED
      BY <1>3, <1>4, <2>1 DEF InLaid
  <1>7. ASSUME NEW a \in DOMAIN args, NEW e \in 1..args[a].length
        PROVE  flat'[meta[a].from + e - 1] = Unset
    <2>1. a \in DOMAIN meta /\ e \in 1..meta[a].length
      BY <1>1, Request, RowTyped DEF Inv, RowsApart
    <2>2. meta[a].from + e - 1 \in 1..flatArgsCount
      BY <2>1, RowFits DEF Inv
    <2> QED
      BY <1>1, <2>2
  <1>8. RowFilled'
    BY <1>1, <1>3, <1>7 DEF RowFilled
  <1> QED
    BY <1>6, <1>8

-----------------------------------------------------------------------------
(* AnalyzeAndReplaceQuery.                                                 *)

LEMMA EntryOf ==
  ASSUME NEW m \in Models
  PROVE  LET E == ReplaceEntries(m)
         IN  /\ \A x : Mention(NoSchema, x) \in DOMAIN E <=> x = m
             /\ E[Mention(NoSchema, m)] = Table(m)
             /\ \A x, f : Field(By(x), f) \in DOMAIN E <=> x = m /\ f \in FieldsOf[m]
             /\ \A f \in FieldsOf[m] : E[Field(By(m), f)] = Column(By(m), m, f)
             /\ \A f : Field(NoModel, f) \in DOMAIN E <=> f \in FieldsOf[m]
             /\ \A f \in FieldsOf[m] : E[Field(NoModel, f)] = Column(NoModel, m, f)
  <1> DEFINE E == ReplaceEntries(m)
             D == {Mention(NoSchema, m)} \cup {Field(q, f) : q \in {NoModel, By(m)}, f \in FieldsOf[m]}
  <1>1. DOMAIN E = D
    BY DEF ReplaceEntries
  <1>2. \A k \in D : E[k] = IF k.kind = "&" THEN Table(m) ELSE Column(k.model, m, k.field)
    BY DEF ReplaceEntries
  <1>3. \A x : By(x) # NoModel /\ (By(x) = By(m) <=> x = m)
    BY DEF By, NoModel
  <1>4. \A x : Mention(NoSchema, x).kind = "&" /\ Mention(NoSchema, x).model = x
    BY DEF Mention
  <1>5. \A q, f : Field(q, f).kind = ":" /\ Field(q, f).model = q /\ Field(q, f).field = f
    BY DEF Field
  <1>6. \A x : Mention(NoSchema, x) \in D <=> x = m
    BY <1>4, <1>5
  <1>7. \A q, f : Field(q, f) \in D <=> q \in {NoModel, By(m)} /\ f \in FieldsOf[m]
    BY <1>4, <1>5
  <1> HIDE DEF D, E
  <1>8. \A x, f : Field(By(x), f) \in D <=> x = m /\ f \in FieldsOf[m]
    BY <1>3, <1>7
  <1>9. \A f \in FieldsOf[m], q \in {NoModel, By(m)} : E[Field(q, f)] = Column(q, m, f)
    <2> SUFFICES ASSUME NEW f \in FieldsOf[m], NEW q \in {NoModel, By(m)}
                 PROVE  E[Field(q, f)] = Column(q, m, f)
      OBVIOUS
    <2>1. Field(q, f) \in D /\ Field(q, f).kind # "&"
      BY <1>5, <1>7
    <2> QED
      BY <1>2, <1>5, <2>1
  <1>10. E[Mention(NoSchema, m)] = Table(m)
    BY <1>2, <1>4, <1>6
  <1> QED
    BY <1>1, <1>6, <1>7, <1>8, <1>9, <1>10 DEF E

\* A mention of a registered model brings its entries; what is there stays.
LEMMA CollectedMention ==
  ASSUME Inv, NEW i \in Mentioned, Collected(rpls, 1..(i - 1))
  PROVE  Collected(WithNew(rpls, ReplaceEntries(asked[i].model)), 1..i)
  <1> DEFINE m == asked[i].model
             E == ReplaceEntries(m)
             r == WithNew(rpls, E)
             A == 1..(i - 1)
             B == 1..i
  <1>1. m \in Models /\ m \in Names /\ i \in DOMAIN asked /\ DOMAIN asked = 1..Len(asked) /\ i \in Nat
    BY Request, RequestsAssumption DEF Mentioned
  <1>2. /\ DOMAIN r = DOMAIN rpls \cup DOMAIN E
        /\ \A k \in DOMAIN rpls : r[k] = rpls[k]
        /\ \A k \in DOMAIN E : k \notin DOMAIN rpls => r[k] = E[k]
    BY DEF WithNew
  <1>3. \A k : k \in B <=> k \in A \/ k = i
    BY <1>1
  <1>4. i \notin A
    BY <1>1
  <1>5. \A f : i \in Sources(f) <=> f \in FieldsOf[m]
    BY DEF Sources
  <1>6. /\ \A x : Mention(NoSchema, x) \in DOMAIN E <=> x = m
        /\ E[Mention(NoSchema, m)] = Table(m)
        /\ \A x, f : Field(By(x), f) \in DOMAIN E <=> x = m /\ f \in FieldsOf[m]
        /\ \A f \in FieldsOf[m] : E[Field(By(m), f)] = Column(By(m), m, f)
        /\ \A f : Field(NoModel, f) \in DOMAIN E <=> f \in FieldsOf[m]
        /\ \A f \in FieldsOf[m] : E[Field(NoModel, f)] = Column(NoModel, m, f)
    BY <1>1, EntryOf
  <1> HIDE DEF E, r, A, B
  <1>7. ASSUME NEW x \in Names
        PROVE  LET k == Mention(NoSchema, x)
               IN  /\ k \in DOMAIN r <=> \E h \in Mentioned \cap B : asked[h].model = x
                   /\ k \in DOMAIN r => r[k] = Table(x)
    <2> DEFINE k == Mention(NoSchema, x)
    <2>1. /\ k \in DOMAIN rpls <=> \E h \in Mentioned \cap A : asked[h].model = x
          /\ k \in DOMAIN rpls => rpls[k] = Table(x)
      BY DEF Collected, A
    <2>2. k \in DOMAIN E <=> x = m
      BY <1>6
    <2>3. k \in DOMAIN E => E[k] = Table(x)
      BY <1>6
    <2> HIDE DEF k
    <2>4. k \in DOMAIN r <=> \E h \in Mentioned \cap B : asked[h].model = x
      BY <1>2, <1>3, <2>1, <2>2
    <2>5. k \in DOMAIN r => r[k] = Table(x)
      BY <1>2, <2>1, <2>3
    <2> QED
      BY <2>4, <2>5 DEF k
  <1>8. ASSUME NEW x \in Names, NEW f \in Fields
        PROVE  LET k == Field(By(x), f)
               IN  /\ k \in DOMAIN r <=> \E h \in Sources(f) \cap B : asked[h].model = x
                   /\ k \in DOMAIN r => r[k] = Column(By(x), x, f)
    <2> DEFINE k == Field(By(x), f)
    <2>1. /\ k \in DOMAIN rpls <=> \E h \in Sources(f) \cap A : asked[h].model = x
          /\ k \in DOMAIN rpls => rpls[k] = Column(By(x), x, f)
      BY DEF Collected, A
    <2>2. k \in DOMAIN E <=> x = m /\ i \in Sources(f)
      BY <1>5, <1>6
    <2>3. k \in DOMAIN E => E[k] = Column(By(x), x, f)
      BY <1>6
    <2> HIDE DEF k
    <2>4. k \in DOMAIN r <=> \E h \in Sources(f) \cap B : asked[h].model = x
      BY <1>2, <1>3, <2>1, <2>2
    <2>5. k \in DOMAIN r => r[k] = Column(By(x), x, f)
      BY <1>2, <2>1, <2>3
    <2> QED
      BY <2>4, <2>5 DEF k
  <1>9. ASSUME NEW f \in Fields
        PROVE  LET k == Field(NoModel, f)
               IN  /\ k \in DOMAIN r <=> Sources(f) \cap B # {}
                   /\ \A h \in Sources(f) \cap B :
                         (\A g \in Sources(f) : h <= g) => r[k] = Column(NoModel, asked[h].model, f)
    <2> DEFINE k == Field(NoModel, f)
    <2>1. /\ k \in DOMAIN rpls <=> Sources(f) \cap A # {}
          /\ \A h \in Sources(f) \cap A :
                (\A g \in Sources(f) : h <= g) => rpls[k] = Column(NoModel, asked[h].model, f)
      BY DEF Collected, A
    <2>2. k \in DOMAIN E <=> i \in Sources(f)
      BY <1>5, <1>6
    <2>3. k \in DOMAIN E => E[k] = Column(NoModel, m, f)
      BY <1>6
    <2> HIDE DEF k
    <2>4. k \in DOMAIN r <=> Sources(f) \cap B # {}
      BY <1>2, <1>3, <2>1, <2>2
    <2>5. ASSUME NEW h \in Sources(f) \cap B, \A g \in Sources(f) : h <= g
          PROVE  r[k] = Column(NoModel, asked[h].model, f)
      <3>1. CASE h \in A
        BY <1>2, <2>1, <2>5, <3>1
      <3>2. CASE h = i
        <4>1. Sources(f) \cap A = {}
          <5> SUFFICES ASSUME NEW g \in Sources(f) \cap A PROVE FALSE
            OBVIOUS
          <5>1. i <= g /\ g \in 1..(i - 1)
            BY <2>5, <3>2 DEF A
          <5> QED
            BY <1>1, <5>1
        <4>2. k \notin DOMAIN rpls /\ k \in DOMAIN E
          BY <2>1, <2>2, <3>2, <4>1
        <4> QED
          BY <1>2, <2>3, <3>2, <4>2
      <3> QED
        BY <1>3, <3>1, <3>2
    <2> QED
      BY <2>4, <2>5 DEF k
  <1> QED
    BY <1>7, <1>8, <1>9 DEF Collected, r, B, E

\* Only the mentions among what is behind count.
LEMMA CollectedSame ==
  ASSUME NEW r, NEW A, NEW B, Collected(r, A), Mentioned \cap A = Mentioned \cap B
  PROVE  Collected(r, B)
  <1>1. \A f : Sources(f) \cap A = Sources(f) \cap B
    BY DEF Sources
  <1> QED
    BY <1>1 DEF Collected

\* The scan begins at the first token of what In wrote.
LEMMA CollectBegins ==
  ASSUME Inv, RowsApart, Len(meta) = Len(args), DOMAIN rpls = {},
         request' = request, meta' = meta, rpls' = rpls, stage' = "collect", done' = <<>>,
         Len(todo') = Total(InWidth, Len(asked)),
         \A i \in DOMAIN asked : \A e \in 1..InWidth[i] : todo'[Total(InWidth, i - 1) + e] = InToken(i, e)
  PROVE  CollectLaid'
  <1> DEFINE n == Len(asked)
  <1>1. /\ n \in Nat /\ DOMAIN asked = 1..n /\ InWidth \in [1..n -> Nat]
        /\ \A i \in 1..n : InWidth[i] \in Nat \ {0}
    BY Request, Widths, WidthsPositive
  <1>2. /\ asked' = asked /\ InWidth' = InWidth /\ OutWidth' = OutWidth
        /\ \A i, e : InToken(i, e)' = InToken(i, e)
        /\ Mentioned' = Mentioned /\ \A f : Sources(f)' = Sources(f)
    BY LayoutStays
  <1>3. Total(InWidth, n) \in Nat
    BY <1>1, TotalSteps
  <1>4. Scanned' = 0
    BY <1>2, <1>3 DEF Scanned
  <1>5. \A i \in 1..n : Total(InWidth, i - 1) \in Nat /\ Total(InWidth, i) > 0
    <2> SUFFICES ASSUME NEW i \in 1..n PROVE Total(InWidth, i - 1) \in Nat /\ Total(InWidth, i) > 0
      OBVIOUS
    <2>1. i - 1 \in 0..n
      OBVIOUS
    <2>2. Total(InWidth, i) = Total(InWidth, i - 1) + InWidth[i] /\ Total(InWidth, i - 1) \in Nat
      BY <1>1, <2>1, TotalSteps
    <2>3. InWidth[i] \in Nat \ {0}
      BY <1>1
    <2> QED
      BY <2>2, <2>3
  <1>6. Passed' = {}
    <2> SUFFICES ASSUME NEW i \in Passed' PROVE FALSE
      OBVIOUS
    <2>1. i \in 1..n /\ Total(InWidth, i) <= 0
      BY <1>1, <1>2, <1>4 DEF Passed
    <2>2. Total(InWidth, i) \in Nat /\ Total(InWidth, i) > 0
      <3>1. i \in 0..n
        BY <2>1
      <3> QED
        BY <1>1, <1>5, <2>1, <3>1, TotalSteps
    <2> QED
      BY <2>1, <2>2
  <1>7. Collected(rpls, Passed)'
    <2>1. DOMAIN rpls' = {}
      OBVIOUS
    <2>2. \A k : k \notin DOMAIN rpls' /\ k \notin Passed'
      BY <1>6, <2>1
    <2> QED
      BY <2>2 DEF Collected
  <1>8. ASSUME NEW i \in DOMAIN asked, NEW e \in 1..InWidth[i]
        PROVE  LET at == Total(InWidth, i - 1) + e
               IN  /\ at > 0 /\ at \in Nat
                   /\ todo'[at - 0] = InToken(i, e)
    <2>1. Total(InWidth, i - 1) \in Nat /\ e \in Nat /\ e > 0
      BY <1>1, <1>5
    <2>2. Total(InWidth, i - 1) + e \in Nat /\ Total(InWidth, i - 1) + e > 0
          /\ (Total(InWidth, i - 1) + e) - 0 = Total(InWidth, i - 1) + e
      BY <2>1
    <2> QED
      BY <2>2
  <1>9. CollectLaid'
    <2>1. ASSUME NEW i \in DOMAIN asked, NEW e \in 1..InWidth[i]
          PROVE  LET at == Total(InWidth, i - 1) + e
                 IN  /\ at > Scanned' => todo'[at - Scanned'] = InToken(i, e)
                     /\ ~(at = Scanned') /\ ~(at <= Scanned')
      <3>1. /\ Total(InWidth, i - 1) + e > 0 /\ Total(InWidth, i - 1) + e \in Nat
            /\ todo'[(Total(InWidth, i - 1) + e) - 0] = InToken(i, e)
        BY <1>8
      <3> QED
        BY <1>4, <3>1
    <2> QED
      BY <1>2, <1>4, <1>7, <2>1 DEF CollectLaid
  <1> QED
    BY <1>9

LEMMA InEndsLaid ==
  ASSUME Inv, InCounts, RowsApart, RowFilled, InLaid, CollectLaid, InEnds
  PROVE  CollectLaid'
  <1>1. /\ stage = "in" /\ stage' = "collect" /\ todo = <<>> /\ todo' = done /\ done' = <<>>
        /\ request' = request /\ meta' = meta /\ rpls' = rpls
    BY DEF InEnds, HandOver
  <1>2. Behind = Len(asked) /\ DOMAIN asked = 1..Len(asked)
    BY <1>1, Request DEF Behind
  <1>3. /\ Len(todo') = Total(InWidth, Len(asked))
        /\ \A i \in DOMAIN asked : \A e \in 1..InWidth[i] : todo'[Total(InWidth, i - 1) + e] = InToken(i, e)
    BY <1>1, <1>2 DEF InLaid
  <1>4. Len(meta) = Len(args) /\ DOMAIN rpls = {}
    BY <1>1 DEF RowFilled, Past, CollectLaid
  <1> QED
    BY <1>1, <1>3, <1>4, CollectBegins

LEMMA InSkipsLaid ==
  ASSUME Inv, InCounts, RowsApart, CollectLaid, InSkips
  PROVE  CollectLaid' /\ RowFilled'
  <1>1. /\ stage = "measure" /\ stage' = "collect" /\ ~AnySlice /\ Len(meta) = Len(args)
        /\ flat' = [k \in DOMAIN args |-> Value(k, 1)]
        /\ request' = request /\ todo' = todo /\ done' = done /\ meta' = meta /\ rpls' = rpls
    BY DEF InSkips
  <1>2. todo = asked /\ done = <<>> /\ DOMAIN rpls = {}
    BY <1>1 DEF InCounts, Inv, TextIsSettled, CollectLaid
  <1>3. /\ Len(asked) \in Nat /\ DOMAIN asked = 1..Len(asked) /\ InWidth \in [1..Len(asked) -> Nat]
        /\ \A i \in 1..Len(asked) : ~Expanded(i) /\ InWidth[i] = 1
    BY <1>1, Request, Widths
  <1>4. \A i \in 0..Len(asked) : Total(InWidth, i) = i
    BY <1>3, TotalOnes
  <1>5. Len(todo') = Total(InWidth, Len(asked))
    BY <1>1, <1>2, <1>3, <1>4
  <1>6. ASSUME NEW i \in DOMAIN asked, NEW e \in 1..InWidth[i]
        PROVE  todo'[Total(InWidth, i - 1) + e] = InToken(i, e)
    <2>1. i - 1 \in 0..Len(asked) /\ e = 1 /\ (i - 1) + 1 = i
      BY <1>3
    <2>2. Total(InWidth, i - 1) + e = i
      BY <1>4, <2>1
    <2>3. InToken(i, e) = asked[i]
      BY <1>3 DEF InToken
    <2> QED
      BY <1>1, <1>2, <2>2, <2>3
  <1>7. CollectLaid'
    BY <1>1, <1>2, <1>5, <1>6, CollectBegins
  <1>8. args' = args /\ AnySlice' = AnySlice
    BY <1>1, LayoutStays
  <1>9. RowFilled'
    BY <1>1, <1>8 DEF RowFilled
  <1> QED
    BY <1>7, <1>9

\* What token of the query the scan is at.
LEMMA ScanStandsAt ==
  ASSUME Inv, CollectLaid, stage = "collect", todo # <<>>
  PROVE  \E i \in DOMAIN asked : \E e \in 1..InWidth[i] :
            /\ Scanned + 1 = Total(InWidth, i - 1) + e
            /\ Head(todo) = InToken(i, e)
  <1> DEFINE n == Len(asked)
  <1>1. n \in Nat /\ DOMAIN asked = 1..n /\ InWidth \in [1..n -> Nat]
    BY Request, Widths
  <1>2. Len(todo) \in Nat \ {0} /\ Head(todo) = todo[1]
    <2>1. todo \in Seq(Written)
      BY DEF Inv, TypeOK
    <2> QED
      BY <2>1
  <1>3. Scanned \in Nat /\ Total(InWidth, n) \in Nat
    <2>1. n \in 0..n
      BY <1>1
    <2>2. Total(InWidth, n) \in Nat
      BY <1>1, <2>1, TotalSteps
    <2> QED
      BY <2>2 DEF CollectLaid
  <1>4. Scanned + 1 \in 1..Total(InWidth, n)
    BY <1>2, <1>3 DEF Scanned
  <1>5. PICK i \in 1..n : \E e \in 1..InWidth[i] : Scanned + 1 = Total(InWidth, i - 1) + e
    BY <1>1, <1>4, PlaceFound
  <1>6. PICK e \in 1..InWidth[i] : Scanned + 1 = Total(InWidth, i - 1) + e
    BY <1>5
  <1>7. (Scanned + 1) - Scanned = 1 /\ Scanned + 1 > Scanned
    BY <1>3
  <1>8. todo[(Scanned + 1) - Scanned] = InToken(i, e)
    BY <1>1, <1>6, <1>7 DEF CollectLaid
  <1> QED
    BY <1>1, <1>2, <1>6, <1>7, <1>8

\* Where the token that the scan is at goes.
LEMMA ScanWritesAt ==
  ASSUME Inv, RowsApart, RowFilled, CollectLaid, stage = "collect", todo # <<>>,
         NEW i \in DOMAIN asked, NEW e \in 1..InWidth[i], Scanned + 1 = Total(InWidth, i - 1) + e
  PROVE  Len(done) + 1 = Total(OutWidth, i - 1) + e
  <1> DEFINE n == Len(asked)
  <1>1. /\ n \in Nat /\ DOMAIN asked = 1..n
        /\ InWidth \in [1..n -> Nat] /\ OutWidth \in [1..n -> Nat]
    BY Request, Widths
  <1>2. Len(meta) = Len(args) /\ Scanned \in Nat /\ (Scanned = 0 => done = <<>>)
    BY DEF RowFilled, Past, CollectLaid
  <1>3. \A k \in 1..n : InWidth[k] \in Nat \ {0}
    BY <1>1, <1>2, WidthsPositive
  <1>4. \A k \in 1..n : \A d \in 1..InWidth[k] : Total(InWidth, k - 1) + d = Scanned =>
           Len(done) = Total(OutWidth, k - 1) + (IF asked[k] = Comment THEN 0 ELSE d)
    BY <1>1 DEF CollectLaid
  <1>5. i \in 1..n /\ i - 1 \in 0..n /\ e \in Nat /\ e >= 1 /\ e <= InWidth[i]
    BY <1>1, <1>3
  <1>6. Total(InWidth, i - 1) \in Nat /\ Total(OutWidth, i - 1) \in Nat
    BY <1>1, <1>5, TotalSteps
  <1>7. CASE e > 1
    <2>1. e - 1 \in 1..InWidth[i] /\ Total(InWidth, i - 1) + (e - 1) = Scanned
      <3>1. e - 1 \in 1..InWidth[i]
        BY <1>1, <1>5, <1>7
      <3> DEFINE s == Total(InWidth, i - 1)
      <3>2. s \in Nat /\ e \in Nat /\ Scanned \in Nat /\ Scanned + 1 = s + e
        BY <1>2, <1>5, <1>6
      <3> HIDE DEF s
      <3>3. s + (e - 1) = Scanned
        BY <3>2
      <3> QED
        BY <3>1, <3>3 DEF s
    <2>2. asked[i] # Comment
      <3> SUFFICES ASSUME asked[i] = Comment PROVE FALSE
        OBVIOUS
      <3>1. ~Expanded(i)
        BY <1>1, <1>5, Widths
      <3>2. InWidth[i] = 1
        BY <1>1, <1>5, <3>1, Widths
      <3> QED
        BY <1>5, <1>7, <3>2
    <2>3. Len(done) = Total(OutWidth, i - 1) + (e - 1)
      BY <1>4, <1>5, <2>1, <2>2
    <2> QED
      BY <1>5, <1>6, <2>3
  <1>8. CASE e = 1 /\ i = 1
    <2>1. i - 1 = 0 /\ Total(InWidth, 0) = 0 /\ Total(OutWidth, 0) = 0
      <3>1. Total(InWidth, 0) = 0
        BY <1>1, TotalSteps
      <3>2. Total(OutWidth, 0) = 0
        BY <1>1, TotalSteps
      <3> QED
        BY <1>8, <3>1, <3>2
    <2>2. Scanned = 0
      BY <1>2, <1>8, <2>1
    <2>3. Len(done) = 0
      BY <1>2, <2>2
    <2> QED
      BY <1>8, <2>1, <2>3
  <1>9. CASE e = 1 /\ i # 1
    <2> DEFINE k == i - 1
               d == InWidth[k]
    <2>1. k \in 1..n /\ k - 1 \in 0..n /\ d \in Nat \ {0} /\ d \in 1..InWidth[k]
      BY <1>3, <1>5, <1>9
    <2>2. Total(InWidth, k) = Total(InWidth, k - 1) + d /\ Total(InWidth, k - 1) \in Nat
      BY <1>1, <2>1, TotalSteps
    <2>3. Total(OutWidth, k) = Total(OutWidth, k - 1) + OutWidth[k]
      BY <1>1, <2>1, TotalSteps
    <2>4. OutWidth[k] = IF asked[k] = Comment THEN 0 ELSE d
      BY <1>1, <2>1, Widths
    <2>5. Scanned = Total(InWidth, k)
      BY <1>2, <1>6, <1>9
    <2> HIDE DEF k, d
    <2>6. Len(done) = Total(OutWidth, k - 1) + (IF asked[k] = Comment THEN 0 ELSE d)
      BY <1>4, <2>1, <2>2, <2>5
    <2>7. Len(done) = Total(OutWidth, k)
      BY <2>3, <2>4, <2>6
    <2> QED
      BY <1>6, <1>9, <2>7 DEF k
  <1> QED
    BY <1>5, <1>7, <1>8, <1>9

\* The mentions behind the scan before and after a turn.
LEMMA PassedNext ==
  ASSUME Inv, RowsApart, RowFilled, CollectLaid, stage = "collect", todo # <<>>,
         NEW i \in DOMAIN asked, NEW e \in 1..InWidth[i], Scanned + 1 = Total(InWidth, i - 1) + e,
         request' = request, meta' = meta, Scanned' = Scanned + 1
  PROVE  /\ i \in Mentioned => Passed = 1..(i - 1) /\ Passed' = 1..i
         /\ i \notin Mentioned => Mentioned \cap Passed' = Mentioned \cap Passed
  <1> DEFINE n == Len(asked)
             T(k) == Total(InWidth, k)
  <1>1. n \in Nat /\ DOMAIN asked = 1..n /\ InWidth \in [1..n -> Nat]
    BY Request, Widths
  <1>2. Len(meta) = Len(args) /\ Scanned \in Nat
    BY DEF RowFilled, Past, CollectLaid
  <1>3. \A k \in 1..n : InWidth[k] \in Nat \ {0}
    BY <1>1, <1>2, WidthsPositive
  <1>4. Passed = {k \in 1..n : T(k) <= Scanned} /\ Passed' = {k \in 1..n : T(k) <= Scanned + 1}
    BY <1>1, LayoutStays DEF Passed
  <1>5. i \in 1..n /\ i - 1 \in 0..n /\ e \in Nat /\ e >= 1 /\ e <= InWidth[i]
    BY <1>1, <1>3
  <1>6. T(i) = T(i - 1) + InWidth[i] /\ T(i - 1) \in Nat /\ T(i) \in Nat
    <2>1. i \in 0..n
      BY <1>5
    <2> QED
      BY <1>1, <1>5, <2>1, TotalSteps
  <1>7. \A k \in 1..n : T(k) \in Nat
    <2>1. \A k \in 1..n : k \in 0..n
      OBVIOUS
    <2> QED
      BY <1>1, <2>1, TotalSteps
  <1>8. ASSUME NEW k \in 1..n, k < i PROVE T(k) <= Scanned
    <2>1. k \in 0..n /\ i - 1 \in 0..n /\ k <= i - 1
      BY <1>5, <1>8
    <2>2. T(k) <= T(i - 1)
      BY <1>1, <2>1, TotalGrows
    <2> QED
      BY <1>2, <1>5, <1>6, <1>7, <2>2
  <1>9. ASSUME NEW k \in 1..n, k > i PROVE ~(T(k) <= Scanned + 1)
    <2>1. k \in 1..n /\ k - 1 \in 0..n /\ i \in 0..n /\ i <= k - 1
      BY <1>5, <1>9
    <2>2. T(i) <= T(k - 1)
      BY <1>1, <2>1, TotalGrows
    <2>3. T(k) = T(k - 1) + InWidth[k] /\ T(k - 1) \in Nat /\ InWidth[k] \in Nat \ {0}
      BY <1>1, <1>3, <2>1, TotalSteps
    <2> DEFINE s == T(i - 1)
    <2>4. /\ s \in Nat /\ e \in Nat /\ Scanned \in Nat /\ Scanned + 1 = s + e
          /\ T(i) = s + InWidth[i] /\ InWidth[i] \in Nat /\ e <= InWidth[i]
      BY <1>2, <1>3, <1>5, <1>6
    <2>5. T(i) \in Nat /\ T(k) \in Nat /\ T(i) >= Scanned + 1
      <3>1. T(i) \in Nat /\ T(k) \in Nat
        BY <1>6, <1>7
      <3> HIDE DEF s, T
      <3>2. s + InWidth[i] >= s + e
        BY <2>4
      <3> QED
        BY <2>4, <3>1, <3>2
    <2>6. T(k) > T(i)
      <3> HIDE DEF T
      <3> QED
        BY <2>2, <2>3, <2>5
    <2> HIDE DEF s, T
    <2> QED
      BY <2>4, <2>5, <2>6
  <1>10. CASE i \in Mentioned
    <2>1. InWidth[i] = 1
      <3>1. ~Expanded(i)
        BY <1>10 DEF Expanded, Mentioned
      <3> QED
        BY <1>1, <1>5, <3>1, Widths
    <2>2. T(i) = Scanned + 1
      BY <1>5, <1>6, <2>1
    <2> HIDE DEF T
    <2>3. \A k \in 1..n : T(k) <= Scanned <=> k < i
      <3> SUFFICES ASSUME NEW k \in 1..n PROVE T(k) <= Scanned <=> k < i
        OBVIOUS
      <3>1. T(k) \in Nat /\ k \in Nat /\ i \in Nat
        BY <1>5, <1>7
      <3>2. CASE k < i
        BY <1>8, <3>2
      <3>3. CASE k = i
        BY <1>2, <2>2, <3>1, <3>3
      <3>4. CASE k > i
        BY <1>2, <1>9, <3>1, <3>4
      <3> QED
        BY <3>1, <3>2, <3>3, <3>4
    <2>4. \A k \in 1..n : T(k) <= Scanned + 1 <=> k <= i
      <3> SUFFICES ASSUME NEW k \in 1..n PROVE T(k) <= Scanned + 1 <=> k <= i
        OBVIOUS
      <3>1. T(k) \in Nat /\ k \in Nat /\ i \in Nat
        BY <1>5, <1>7
      <3>2. CASE k < i
        BY <1>2, <1>8, <3>1, <3>2
      <3>3. CASE k = i
        BY <1>2, <2>2, <3>1, <3>3
      <3>4. CASE k > i
        BY <1>9, <3>1, <3>4
      <3> QED
        BY <3>1, <3>2, <3>3, <3>4
    <2>5. Passed = 1..(i - 1)
      BY <1>1, <1>4, <1>5, <2>3
    <2>6. Passed' = 1..i
      BY <1>1, <1>4, <1>5, <2>4
    <2> QED
      BY <1>10, <2>5, <2>6
  <1>11. CASE i \notin Mentioned
    <2> HIDE DEF T
    <2>1. \A k \in 1..n : k # i => (T(k) <= Scanned <=> T(k) <= Scanned + 1)
      BY <1>2, <1>5, <1>7, <1>8, <1>9
    <2> QED
      BY <1>4, <1>11, <2>1
  <1> QED
    BY <1>10, <1>11

LEMMA CollectTurnLaid ==
  ASSUME Inv, RowsApart, RowFilled, CollectLaid, Collect
  PROVE  CollectLaid'
  <1> DEFINE n == Len(asked)
             t == Head(todo)
             ts == IF t = Comment THEN <<>> ELSE <<t>>
  <1>1. /\ stage = "collect" /\ stage' = "collect" /\ todo # <<>>
        /\ done' = done \o ts /\ todo' = Tail(todo)
        /\ request' = request /\ meta' = meta
        /\ rpls' = IF t.kind = "&" /\ t.schema = NoSchema /\ t.model \in Models
                   THEN WithNew(rpls, ReplaceEntries(t.model)) ELSE rpls
    BY DEF Collect, Write
  <1>2. /\ n \in Nat /\ DOMAIN asked = 1..n
        /\ InWidth \in [1..n -> Nat] /\ OutWidth \in [1..n -> Nat]
        /\ Scanned \in Nat
    BY <1>1, Request, Widths DEF CollectLaid
  <1>3. /\ asked' = asked /\ InWidth' = InWidth /\ OutWidth' = OutWidth
        /\ \A i, e : InToken(i, e)' = InToken(i, e)
        /\ Mentioned' = Mentioned /\ \A f : Sources(f)' = Sources(f)
    BY <1>1, LayoutStays
  <1>4. /\ todo \in Seq(Written) /\ done \in Seq(Written)
        /\ t = todo[1] /\ t \in Written /\ Len(todo) \in Nat \ {0}
        /\ Len(todo') = Len(todo) - 1
        /\ \A x \in 1..Len(todo) - 1 : todo'[x] = todo[x + 1]
    <2>1. todo \in Seq(Written) /\ done \in Seq(Written)
      BY DEF Inv, TypeOK
    <2> QED
      BY <1>1, <2>1
  <1>5. Scanned' = Scanned + 1
    <2>1. Total(InWidth, n) \in Nat
      BY <1>2, TotalSteps
    <2> QED
      BY <1>2, <1>3, <1>4, <2>1 DEF Scanned
  <1>6. PICK i \in DOMAIN asked : \E e \in 1..InWidth[i] :
            Scanned + 1 = Total(InWidth, i - 1) + e /\ t = InToken(i, e)
    BY <1>1, ScanStandsAt
  <1>7. PICK e \in 1..InWidth[i] : Scanned + 1 = Total(InWidth, i - 1) + e /\ t = InToken(i, e)
    BY <1>6
  <1>8. Len(done) + 1 = Total(OutWidth, i - 1) + e
    BY <1>1, <1>7, ScanWritesAt
  <1>9. t = Comment <=> asked[i] = Comment
    <2>1. CASE Expanded(i)
      <3>1. asked[i] # Comment
        BY <2>1, Widths
      <3>2. t.kind \in {"$", "text"}
        BY <1>7, <2>1 DEF InToken, Numbered, Text
      <3> QED
        BY <3>1, <3>2 DEF Comment
    <2>2. CASE ~Expanded(i)
      BY <1>7, <2>2 DEF InToken
    <2> QED
      BY <2>1, <2>2
  <1>10. i \in Mentioned <=> t.kind = "&" /\ t.schema = NoSchema /\ t.model \in Models
    <2>1. CASE Expanded(i)
      <3>1. t.kind \in {"$", "text"}
        BY <1>7, <2>1 DEF InToken, Numbered, Text
      <3>2. asked[i].kind # "&"
        BY <2>1 DEF Expanded
      <3> QED
        BY <3>1, <3>2 DEF Mentioned
    <2>2. CASE ~Expanded(i)
      <3>1. t = asked[i]
        BY <1>7, <2>2 DEF InToken
      <3> QED
        BY <3>1 DEF Mentioned
    <2> QED
      BY <2>1, <2>2
  <1>11. i \in Mentioned => t = asked[i]
    BY <1>7 DEF Mentioned, InToken, Expanded
  <1>12. Collected(rpls', Passed')
    <2>1. Collected(rpls, Passed)
      BY <1>1 DEF CollectLaid
    <2>2. CASE i \in Mentioned
      <3>1. Passed = 1..(i - 1) /\ Passed' = 1..i
        BY <1>1, <1>5, <1>7, <2>2, PassedNext
      <3>2. rpls' = WithNew(rpls, ReplaceEntries(asked[i].model))
        BY <1>1, <1>10, <1>11, <2>2
      <3>3. Collected(rpls, 1..(i - 1))
        BY <2>1, <3>1
      <3> QED
        BY <2>2, <3>1, <3>2, <3>3, CollectedMention
    <2>3. CASE i \notin Mentioned
      <3>1. Mentioned \cap Passed' = Mentioned \cap Passed
        BY <1>1, <1>5, <1>7, <2>3, PassedNext
      <3>2. rpls' = rpls
        BY <1>1, <1>10, <2>3
      <3> DEFINE A == Passed
                 B == Passed'
      <3>3. Collected(rpls, A) /\ Mentioned \cap A = Mentioned \cap B
        BY <2>1, <3>1
      <3> HIDE DEF A, B
      <3>4. Collected(rpls, B)
        BY <3>3, CollectedSame
      <3> QED
        BY <3>2, <3>4 DEF B
    <2> QED
      BY <2>2, <2>3
  <1>13. Collected(rpls, Passed)'
    BY <1>3, <1>12 DEF Collected
  <1>14. /\ Len(done) \in Nat
         /\ \A x \in DOMAIN done : x \in DOMAIN done' /\ done'[x] = done[x]
         /\ asked[i] = Comment => Len(done') = Len(done)
         /\ asked[i] # Comment => /\ Len(done') = Len(done) + 1
                                  /\ Len(done) + 1 \in DOMAIN done'
                                  /\ done'[Len(done) + 1] = t
    <2>1. CASE asked[i] = Comment
      <3>1. done' = done
        BY <1>1, <1>4, <1>9, <2>1
      <3> QED
        BY <1>4, <2>1, <3>1
    <2>2. CASE asked[i] # Comment
      <3>1. done' = done \o <<t>>
        BY <1>1, <1>9, <2>2
      <3> QED
        BY <1>4, <2>2, <3>1
    <2> QED
      BY <2>1, <2>2
  <1> HIDE DEF t, ts
  <1>15. ASSUME NEW k \in DOMAIN asked, NEW d \in 1..InWidth[k]
         PROVE  LET at == Total(InWidth, k - 1) + d
                IN  /\ at > Scanned + 1 => todo'[at - (Scanned + 1)] = InToken(k, d)
                    /\ at = Scanned + 1 =>
                          Len(done') = Total(OutWidth, k - 1) + (IF asked[k] = Comment THEN 0 ELSE d)
                    /\ at <= Scanned + 1 /\ asked[k] # Comment =>
                          /\ Total(OutWidth, k - 1) + d \in DOMAIN done'
                          /\ done'[Total(OutWidth, k - 1) + d] = InToken(k, d)
    <2> DEFINE at == Total(InWidth, k - 1) + d
               to == Total(OutWidth, k - 1) + d
    <2>1. /\ at > Scanned => todo[at - Scanned] = InToken(k, d)
          /\ at <= Scanned /\ asked[k] # Comment => to \in DOMAIN done /\ done[to] = InToken(k, d)
      BY <1>1 DEF CollectLaid
    <2>2. at \in 1..Total(InWidth, n)
      BY <1>2, PlaceTyped
    <2>3. at = Scanned + 1 => k = i /\ d = e
      <3> SUFFICES ASSUME at = Scanned + 1 PROVE k = i /\ d = e
        OBVIOUS
      <3>0. i \in 1..n /\ k \in 1..n /\ i \in Nat /\ k \in Nat /\ InWidth[i] \in Nat /\ InWidth[k] \in Nat
        BY <1>2
      <3>1. Total(InWidth, k - 1) + d <= Total(InWidth, i - 1) + e
        BY <1>2, <1>7
      <3>2. Total(InWidth, i - 1) + e <= Total(InWidth, k - 1) + d
        BY <1>2, <1>7
      <3>3. k <= i /\ (k = i => d <= e)
        BY <1>2, <3>0, <3>1, PlaceUnique
      <3>4. i <= k /\ (i = k => e <= d)
        BY <1>2, <3>0, <3>2, PlaceUnique
      <3> QED
        BY <3>0, <3>3, <3>4
    <2>4. Total(InWidth, n) = Scanned + Len(todo) /\ Total(InWidth, n) \in Nat
      <3>1. Total(InWidth, n) \in Nat
        <4>1. n \in 0..n
          BY <1>2
        <4> QED
          BY <1>2, <4>1, TotalSteps
      <3> QED
        BY <1>4, <3>1 DEF Scanned
    <2>5. ASSUME at > Scanned + 1 PROVE todo'[at - (Scanned + 1)] = InToken(k, d)
      <3>0. at \in Nat /\ at <= Scanned + Len(todo)
        BY <2>2, <2>4
      <3> HIDE DEF at
      <3>1. /\ at - (Scanned + 1) \in 1..Len(todo) - 1 /\ at > Scanned
            /\ (at - (Scanned + 1)) + 1 = at - Scanned
        BY <1>2, <1>4, <2>5, <3>0
      <3> QED
        BY <1>4, <2>1, <3>1
    <2>6. ASSUME at = Scanned + 1
          PROVE  Len(done') = Total(OutWidth, k - 1) + (IF asked[k] = Comment THEN 0 ELSE d)
      <3>1. k = i /\ d = e
        BY <2>3, <2>6
      <3>2. CASE asked[i] # Comment
        BY <1>8, <1>14, <3>1, <3>2
      <3>3. CASE asked[i] = Comment
        <4>1. ~Expanded(i)
          BY <3>3, Widths
        <4>2. InWidth[i] = 1
          BY <4>1, Widths
        <4>3. e = 1 /\ i - 1 \in 0..n
          BY <1>2, <4>2
        <4>4. Total(OutWidth, i - 1) \in Nat
          BY <1>2, <4>3, TotalSteps
        <4>5. Len(done) = Total(OutWidth, i - 1)
          BY <1>8, <1>14, <4>3, <4>4
        <4> QED
          BY <1>14, <3>1, <3>3, <4>4, <4>5
      <3> QED
        BY <3>2, <3>3
    <2>7. ASSUME at <= Scanned + 1, asked[k] # Comment
          PROVE  to \in DOMAIN done' /\ done'[to] = InToken(k, d)
      <3>1. CASE at = Scanned + 1
        <4>1. k = i /\ d = e
          BY <2>3, <3>1
        <4>2. to = Len(done) + 1
          BY <1>8, <4>1
        <4> QED
          BY <1>7, <1>14, <2>7, <4>1, <4>2 DEF t
      <3>2. CASE at # Scanned + 1
        <4>1. at <= Scanned
          <5> HIDE DEF at
          <5> QED
            BY <1>2, <2>2, <2>4, <2>7, <3>2
        <4>2. to \in DOMAIN done /\ done[to] = InToken(k, d)
          BY <2>1, <2>7, <4>1
        <4> QED
          BY <1>14, <4>2
      <3> QED
        BY <3>1, <3>2
    <2> QED
      BY <2>5, <2>6, <2>7
  <1>16. Scanned' # 0
    BY <1>2, <1>5
  <1>17. ASSUME NEW k \in DOMAIN asked, NEW d \in 1..InWidth[k]
         PROVE  LET at == Total(InWidth, k - 1) + d
                IN  /\ at > Scanned' => todo'[at - Scanned'] = InToken(k, d)
                    /\ at = Scanned' =>
                          Len(done') = Total(OutWidth, k - 1) + (IF asked[k] = Comment THEN 0 ELSE d)
                    /\ at <= Scanned' /\ asked[k] # Comment =>
                          /\ Total(OutWidth, k - 1) + d \in DOMAIN done'
                          /\ done'[Total(OutWidth, k - 1) + d] = InToken(k, d)
    BY <1>5, <1>15
  <1>18. Scanned' \in Nat
    BY <1>2, <1>5
  <1>19. \A k \in DOMAIN asked' : \A d \in 1..InWidth'[k] :
             LET at == Total(InWidth', k - 1) + d
             IN  /\ at > Scanned' => todo'[at - Scanned'] = InToken(k, d)'
                 /\ at = Scanned' =>
                       Len(done') = Total(OutWidth', k - 1) + (IF asked'[k] = Comment THEN 0 ELSE d)
                 /\ at <= Scanned' /\ asked'[k] # Comment =>
                       /\ Total(OutWidth', k - 1) + d \in DOMAIN done'
                       /\ done'[Total(OutWidth', k - 1) + d] = InToken(k, d)'
    BY <1>3, <1>17
  <1> QED
    BY <1>1, <1>13, <1>16, <1>18, <1>19 DEF CollectLaid

\* The scan ends; what it wrote has the widths without comments.
LEMMA CollectEndsLaid ==
  ASSUME Inv, RowsApart, RowFilled, CollectLaid, CollectEnds
  PROVE  ReplaceLaid'
  <1> DEFINE n == Len(asked)
  <1>1. /\ stage = "collect" /\ stage' = "replace" /\ todo = <<>> /\ todo' = done /\ done' = <<>>
        /\ request' = request /\ meta' = meta /\ rpls' = rpls
    BY DEF CollectEnds, HandOver
  <1>2. /\ n \in Nat /\ DOMAIN asked = 1..n
        /\ InWidth \in [1..n -> Nat] /\ OutWidth \in [1..n -> Nat]
    BY Request, Widths
  <1>3. /\ asked' = asked /\ InWidth' = InWidth /\ OutWidth' = OutWidth
        /\ \A i, e : InToken(i, e)' = InToken(i, e)
        /\ Mentioned' = Mentioned /\ \A f : Sources(f)' = Sources(f)
    BY <1>1, LayoutStays
  <1>4. /\ Len(meta) = Len(args) /\ Collected(rpls, Passed)
        /\ \A i \in 1..n : \A e \in 1..InWidth[i] :
              LET at == Total(InWidth, i - 1) + e
              IN  /\ at = Scanned => Len(done) = Total(OutWidth, i - 1) + (IF asked[i] = Comment THEN 0 ELSE e)
                  /\ at <= Scanned /\ asked[i] # Comment => done[Total(OutWidth, i - 1) + e] = InToken(i, e)
        /\ Scanned = 0 => done = <<>>
    BY <1>1, <1>2 DEF RowFilled, Past, CollectLaid
  <1>5. \A i \in 0..n : /\ Total(InWidth, i) \in Nat /\ Total(OutWidth, i) \in Nat
                        /\ Total(InWidth, i) <= Total(InWidth, n)
    <2> SUFFICES ASSUME NEW i \in 0..n
                 PROVE  /\ Total(InWidth, i) \in Nat /\ Total(OutWidth, i) \in Nat
                        /\ Total(InWidth, i) <= Total(InWidth, n)
      OBVIOUS
    <2>1. n \in 0..n /\ i <= n
      BY <1>2
    <2>2. Total(InWidth, i) \in Nat
      BY <1>2, TotalSteps
    <2>3. Total(OutWidth, i) \in Nat
      BY <1>2, TotalSteps
    <2> QED
      BY <1>2, <2>1, <2>2, <2>3, TotalGrows
  <1>6. Scanned = Total(InWidth, n)
    <2>1. Total(InWidth, n) \in Nat /\ Len(todo) = 0
      BY <1>1, <1>2, <1>5
    <2> QED
      BY <2>1 DEF Scanned
  <1>7. Passed = 1..n
    BY <1>2, <1>5, <1>6 DEF Passed
  <1>8. Len(done) = Total(OutWidth, n)
    <2>1. CASE n = 0
      <3>1. Total(InWidth, 0) = 0
        BY <1>2, TotalSteps
      <3>2. Total(OutWidth, 0) = 0
        BY <1>2, TotalSteps
      <3> QED
        BY <1>4, <1>6, <2>1, <3>1, <3>2
    <2>2. CASE n # 0
      <3>1. n \in 1..n /\ InWidth[n] \in Nat \ {0}
        BY <1>2, <1>4, <2>2, WidthsPositive
      <3>2. Total(InWidth, n) = Total(InWidth, n - 1) + InWidth[n]
        BY <1>2, <3>1, TotalSteps
      <3>6. InWidth[n] \in 1..InWidth[n]
        BY <3>1
      <3>3. Total(OutWidth, n) = Total(OutWidth, n - 1) + OutWidth[n]
        BY <1>2, <3>1, TotalSteps
      <3>4. OutWidth[n] = IF asked[n] = Comment THEN 0 ELSE InWidth[n]
        BY <1>2, <3>1, Widths
      <3>5. Len(done) = Total(OutWidth, n - 1) + (IF asked[n] = Comment THEN 0 ELSE InWidth[n])
        BY <1>4, <1>6, <3>1, <3>2, <3>6
      <3> QED
        BY <3>3, <3>4, <3>5
    <2> QED
      BY <2>1, <2>2
  <1>9. ASSUME NEW i \in 1..n, NEW e \in 1..OutWidth[i]
        PROVE  /\ Total(OutWidth, i - 1) + e > 0
               /\ done[(Total(OutWidth, i - 1) + e) - 0] = InToken(i, e)
    <2>1. OutWidth[i] = IF asked[i] = Comment THEN 0 ELSE InWidth[i]
      BY <1>2, Widths
    <2>2. asked[i] # Comment /\ OutWidth[i] = InWidth[i]
      BY <2>1
    <2>3. e \in 1..InWidth[i]
      BY <2>2
    <2>4. Total(InWidth, i - 1) + e \in 1..Total(InWidth, n)
      BY <1>2, <2>3, PlaceTyped
    <2>5. Total(InWidth, i - 1) + e <= Scanned
      BY <1>6, <2>4
    <2>6. done[Total(OutWidth, i - 1) + e] = InToken(i, e)
      BY <1>4, <2>2, <2>3, <2>5
    <2>7. Total(OutWidth, i - 1) \in Nat /\ e \in Nat /\ e > 0
      <3>1. i - 1 \in 0..n
        BY <1>2
      <3> QED
        BY <1>2, <1>5, <3>1
    <2>8. (Total(OutWidth, i - 1) + e) - 0 = Total(OutWidth, i - 1) + e
      BY <2>7
    <2> QED
      BY <2>6, <2>7, <2>8
  <1>10. Collected(rpls, DOMAIN asked)'
    <2>1. Collected(rpls, DOMAIN asked)
      BY <1>2, <1>4, <1>7
    <2> QED
      BY <1>1, <1>3, <2>1 DEF Collected
  <1>11. Len(done') = 0 /\ Len(done') + Len(todo') = Total(OutWidth, n)
    <2>1. Total(OutWidth, n) \in Nat
      BY <1>2, <1>5
    <2> QED
      BY <1>1, <1>8, <2>1
  <1>12. ASSUME NEW i \in DOMAIN asked, NEW e \in 1..OutWidth[i]
         PROVE  LET at == Total(OutWidth, i - 1) + e
                IN  /\ at > Len(done') => todo'[at - Len(done')] = InToken(i, e)
                    /\ ~(at <= Len(done'))
    <2>1. /\ Total(OutWidth, i - 1) + e > 0 /\ i - 1 \in 0..n
          /\ done[(Total(OutWidth, i - 1) + e) - 0] = InToken(i, e)
      BY <1>2, <1>9
    <2>2. Total(OutWidth, i - 1) \in Nat /\ e \in Nat
      BY <1>2, <1>5, <2>1
    <2> QED
      BY <1>1, <1>11, <2>1, <2>2
  <1> QED
    BY <1>3, <1>10, <1>11, <1>12 DEF ReplaceLaid

\* What a token of the query stands for does not depend on how far a loop is.
LEMMA WantedStays ==
  ASSUME request' = request, meta' = meta
  PROVE  /\ \A i : WantedName(asked[i])' = WantedName(asked[i])
         /\ \A i, e, t : Named(i, e, t)' = Named(i, e, t)
         /\ \A i, e, t : Bound(i, e, t)' = Bound(i, e, t)
  <1>1. /\ asked' = asked /\ AnySlice' = AnySlice /\ NoSchemas' = NoSchemas
        /\ \A i, e : InToken(i, e)' = InToken(i, e)
        /\ \A i : Binds(i)' = Binds(i)
        /\ \A f : Sources(f)' = Sources(f)
    BY LayoutStays
  <1>2. \A i : WantedName(asked[i])' = WantedName(asked[i])
    BY <1>1 DEF WantedName, WantedModel, WantedField
  <1>3. \A i, e, t : Named(i, e, t)' = Named(i, e, t)
    BY <1>1, <1>2 DEF Named
  <1>4. \A i, e, t : Bound(i, e, t)' = Bound(i, e, t)
    BY <1>1, <1>3 DEF Bound
  <1> QED
    BY <1>2, <1>3, <1>4

\* The loops behind the scan write one token for one.
LEMMA OneForOne ==
  ASSUME Inv, todo # <<>>, Len(done) + Len(todo) = Total(OutWidth, Len(asked)),
         NEW u \in Written, Write(<<u>>), request' = request, meta' = meta
  PROVE  /\ \E i \in DOMAIN asked : \E e \in 1..OutWidth[i] : Len(done) + 1 = Total(OutWidth, i - 1) + e
         /\ Len(done) \in Nat /\ Head(todo) = todo[(Len(done) + 1) - Len(done)]
         /\ Len(done') = Len(done) + 1
         /\ Len(done') + Len(todo') = Total(OutWidth, Len(asked))
         /\ \A i \in DOMAIN asked : \A e \in 1..OutWidth[i] :
               LET at == Total(OutWidth, i - 1) + e
               IN  /\ at > Len(done') => at > Len(done) /\ todo'[at - Len(done')] = todo[at - Len(done)]
                   /\ at <= Len(done') /\ at # Len(done) + 1 => at <= Len(done) /\ done'[at] = done[at]
                   /\ at = Len(done) + 1 => at > Len(done) /\ done'[at] = u
  <1> DEFINE n == Len(asked)
             W == Total(OutWidth, n)
  <1>1. n \in Nat /\ DOMAIN asked = 1..n /\ OutWidth \in [1..n -> Nat]
    BY Request, Widths
  <1>2. /\ todo \in Seq(Written) /\ done \in Seq(Written)
        /\ done' = done \o <<u>> /\ todo' = Tail(todo)
    BY DEF Inv, TypeOK, Write
  <1>3. /\ Len(todo) \in Nat \ {0} /\ Len(done) \in Nat /\ Head(todo) = todo[1]
        /\ Len(todo') = Len(todo) - 1 /\ Len(done') = Len(done) + 1
        /\ \A x \in 1..Len(todo) - 1 : todo'[x] = todo[x + 1]
        /\ \A x \in 1..Len(done) : done'[x] = done[x]
        /\ done'[Len(done) + 1] = u
    BY <1>2
  <1>4. W \in Nat /\ Len(done) + Len(todo) = W
    <2>1. n \in 0..n
      BY <1>1
    <2> QED
      BY <1>1, <2>1, TotalSteps
  <1>5. Len(done) + 1 \in 1..W
    BY <1>3, <1>4
  <1>6. \E i \in DOMAIN asked : \E e \in 1..OutWidth[i] : Len(done) + 1 = Total(OutWidth, i - 1) + e
    <2>1. \E i \in 1..n : \E e \in 1..OutWidth[i] : Len(done) + 1 = Total(OutWidth, i - 1) + e
      <3> DEFINE x == Len(done) + 1
      <3>1. x \in 1..Total(OutWidth, n)
        BY <1>5
      <3> HIDE DEF x
      <3>2. \E i \in 1..n : \E e \in 1..OutWidth[i] : x = Total(OutWidth, i - 1) + e
        BY <1>1, <3>1, PlaceFound
      <3> QED
        BY <3>2 DEF x
    <2> QED
      BY <1>1, <2>1
  <1>7. ASSUME NEW i \in DOMAIN asked, NEW e \in 1..OutWidth[i]
        PROVE  LET at == Total(OutWidth, i - 1) + e
               IN  /\ at > Len(done') => at > Len(done) /\ todo'[at - Len(done')] = todo[at - Len(done)]
                   /\ at <= Len(done') /\ at # Len(done) + 1 => at <= Len(done) /\ done'[at] = done[at]
                   /\ at = Len(done) + 1 => at > Len(done) /\ done'[at] = u
    <2> DEFINE at == Total(OutWidth, i - 1) + e
    <2>1. at \in 1..W
      BY <1>1, PlaceTyped
    <2> HIDE DEF at, W
    <2>2. at > Len(done') => at > Len(done) /\ todo'[at - Len(done')] = todo[at - Len(done)]
      <3> SUFFICES ASSUME at > Len(done') PROVE at > Len(done) /\ todo'[at - Len(done')] = todo[at - Len(done)]
        OBVIOUS
      <3>1. /\ at - Len(done') \in 1..Len(todo) - 1 /\ (at - Len(done')) + 1 = at - Len(done)
            /\ at > Len(done)
        BY <1>3, <1>4, <2>1
      <3> QED
        BY <1>3, <3>1
    <2>3. at <= Len(done') /\ at # Len(done) + 1 => at <= Len(done) /\ done'[at] = done[at]
      <3> SUFFICES ASSUME at <= Len(done'), at # Len(done) + 1 PROVE at <= Len(done) /\ done'[at] = done[at]
        OBVIOUS
      <3>1. at \in 1..Len(done)
        BY <1>3, <1>4, <2>1
      <3> QED
        BY <1>3, <3>1
    <2>4. at = Len(done) + 1 => at > Len(done) /\ done'[at] = u
      BY <1>3
    <2> QED
      BY <2>2, <2>3, <2>4 DEF at
  <1>8. Len(done') + Len(todo') = W
    BY <1>3, <1>4
  <1>9. (Len(done) + 1) - Len(done) = 1
    BY <1>3
  <1> QED
    BY <1>3, <1>6, <1>7, <1>8, <1>9

\* Two places in the text of the loops are of one token of the query.
LEMMA SamePlace ==
  ASSUME Inv, NEW i \in DOMAIN asked, NEW k \in DOMAIN asked,
         NEW e \in 1..OutWidth[i], NEW d \in 1..OutWidth[k],
         Total(OutWidth, i - 1) + e = Total(OutWidth, k - 1) + d
  PROVE  i = k /\ e = d
  <1>1. Len(asked) \in Nat /\ DOMAIN asked = 1..Len(asked) /\ OutWidth \in [1..Len(asked) -> Nat]
    BY Request, Widths
  <1>2. /\ Total(OutWidth, i - 1) \in Nat /\ e \in Nat /\ Total(OutWidth, k - 1) \in Nat /\ d \in Nat
        /\ i \in Nat /\ k \in Nat
    <2>1. Total(OutWidth, i - 1) \in Nat /\ e \in Nat
      BY <1>1, PlaceTyped
    <2>2. Total(OutWidth, k - 1) \in Nat /\ d \in Nat
      BY <1>1, PlaceTyped
    <2> QED
      BY <1>1, <2>1, <2>2
  <1>3. /\ Total(OutWidth, i - 1) + e <= Total(OutWidth, k - 1) + d
        /\ Total(OutWidth, k - 1) + d <= Total(OutWidth, i - 1) + e
    BY <1>2
  <1>4. i <= k /\ (i = k => e <= d)
    BY <1>1, <1>3, PlaceUnique
  <1>5. k <= i /\ (k = i => d <= e)
    BY <1>1, <1>3, PlaceUnique
  <1> QED
    BY <1>2, <1>4, <1>5

LEMMA LeastSource ==
  ASSUME Inv, NEW f, Sources(f) # {}
  PROVE  Min(Sources(f)) \in Sources(f) /\ \A k \in Sources(f) : Min(Sources(f)) <= k
  <1> DEFINE S == Sources(f)
  <1>1. S \in SUBSET Nat
    BY Request DEF Sources, Mentioned
  <1> HIDE DEF S
  <1>2. \E m \in S : \A k \in S : m <= k
    BY <1>1, LeastOne DEF S
  <1> QED
    BY <1>2 DEF Min, S

\* Replace writes the name that is wanted.
LEMMA NameReplaced ==
  ASSUME Inv, Collected(rpls, DOMAIN asked), NoSchemas, NEW i \in DOMAIN asked, IsName(asked[i])
  PROVE  LET t == asked[i]
         IN  WantedName(t) = IF t.kind = "&" /\ t.schema = Current THEN Garbled(t.model)
                             ELSE IF t.kind \in {"&", ":"} /\ t \in DOMAIN rpls THEN rpls[t]
                             ELSE t
  <1> DEFINE t == asked[i]
  <1>1. t \in Token /\ t.kind \in {"&", ":"}
    BY Request, TokenKinds
  <1>2. Mentioned \cap DOMAIN asked = Mentioned /\ \A f : Sources(f) \cap DOMAIN asked = Sources(f)
    BY DEF Mentioned, Sources
  <1>3. NoSchema # Current
    BY DEF NoSchema, Current
  <1>4. CASE t.kind = "&"
    <2>1. t.schema = NoSchema /\ t.model \in Names /\ t = Mention(NoSchema, t.model)
      BY <1>1, <1>4, TokenKinds DEF NoSchemas
    <2>2. /\ t \in DOMAIN rpls <=> \E k \in Mentioned : asked[k].model = t.model
          /\ t \in DOMAIN rpls => rpls[t] = Table(t.model)
      BY <1>2, <2>1 DEF Collected
    <2>3. t \in DOMAIN rpls <=> t.model \in Models
      <3>1. t.model \in Models => i \in Mentioned
        BY <1>4, <2>1 DEF Mentioned
      <3>2. \A k \in Mentioned : asked[k].model \in Models
        BY DEF Mentioned
      <3> QED
        BY <2>2, <3>1, <3>2
    <2> QED
      BY <1>3, <1>4, <2>1, <2>2, <2>3 DEF WantedName, WantedModel
  <1>5. CASE t.kind = ":"
    <2> DEFINE f == t.field
    <2>1. f \in Fields /\ t = Field(t.model, f) /\ (t.model = NoModel \/ \E m \in Names : t.model = By(m))
      BY <1>1, <1>5, TokenKinds
    <2>2. WantedName(t) = WantedField(t)
      BY <1>5 DEF WantedName
    <2>3. CASE t.model = NoModel
      <3>1. /\ t \in DOMAIN rpls <=> Sources(f) # {}
            /\ \A k \in Sources(f) :
                  (\A h \in Sources(f) : k <= h) => rpls[t] = Column(NoModel, asked[k].model, f)
        BY <1>2, <2>1, <2>3 DEF Collected
      <3>2. CASE Sources(f) = {}
        BY <1>5, <2>2, <2>3, <3>1, <3>2 DEF WantedField
      <3>3. CASE Sources(f) # {}
        <4>1. rpls[t] = Column(NoModel, asked[Min(Sources(f))].model, f)
          BY <3>1, <3>3, LeastSource
        <4> QED
          BY <1>5, <2>2, <2>3, <3>1, <3>3, <4>1 DEF WantedField
      <3> QED
        BY <3>2, <3>3
    <2>4. CASE t.model # NoModel
      <3>1. PICK m \in Names : t.model = By(m)
        BY <2>1, <2>4
      <3>2. /\ t \in DOMAIN rpls <=> \E k \in Sources(f) : asked[k].model = m
            /\ t \in DOMAIN rpls => rpls[t] = Column(By(m), m, f)
        BY <1>2, <2>1, <3>1 DEF Collected
      <3>3. /\ \A x : By(m) = By(x) <=> m = x
            /\ t.model[2] = m
        BY <3>1 DEF By
      <3>4. t \in DOMAIN rpls <=> \E k \in Sources(f) : t.model = By(asked[k].model)
        BY <3>1, <3>2, <3>3
      <3> QED
        BY <1>5, <2>2, <2>4, <3>1, <3>2, <3>3, <3>4 DEF WantedField
    <2> QED
      BY <2>3, <2>4
  <1> QED
    BY <1>1, <1>4, <1>5

LEMMA ReplaceTurnLaid ==
  ASSUME Inv, ReplaceLaid, Replace
  PROVE  ReplaceLaid'
  <1> DEFINE t == Head(todo)
             u == IF t.kind = "&" /\ t.schema = Current THEN Garbled(t.model)
                  ELSE IF t.kind \in {"&", ":"} /\ t \in DOMAIN rpls THEN rpls[t]
                  ELSE t
             W == Total(OutWidth, Len(asked))
  <1>1. /\ stage = "replace" /\ stage' = "replace" /\ todo # <<>> /\ Write(<<u>>)
        /\ request' = request /\ meta' = meta /\ rpls' = rpls
    BY DEF Replace
  <1>2. /\ Len(done) + Len(todo) = W /\ Collected(rpls, DOMAIN asked)
        /\ \A i \in DOMAIN asked : \A e \in 1..OutWidth[i] :
              LET at == Total(OutWidth, i - 1) + e
              IN  /\ at > Len(done) => todo[at - Len(done)] = InToken(i, e)
                  /\ at <= Len(done) => Named(i, e, done[at])
    BY <1>1 DEF ReplaceLaid
  <1>3. t \in Written
    BY <1>1 DEF Inv, TypeOK
  <1>4. u \in Written
    <2>1. CASE t.kind = "&" /\ t.schema = Current
      <3>1. t.model \in Names
        BY <1>3, <2>1, Kinds
      <3> QED
        BY <2>1, <3>1, WrittenTokens
    <2>2. CASE ~(t.kind = "&" /\ t.schema = Current) /\ t.kind \in {"&", ":"} /\ t \in DOMAIN rpls
      BY <2>2 DEF Inv, NamesAreKept
    <2>3. CASE ~(t.kind = "&" /\ t.schema = Current) /\ ~(t.kind \in {"&", ":"} /\ t \in DOMAIN rpls)
      BY <1>3, <2>3
    <2> QED
      BY <2>1, <2>2, <2>3
  <1>5. /\ asked' = asked /\ OutWidth' = OutWidth
        /\ \A i, e : InToken(i, e)' = InToken(i, e)
        /\ Mentioned' = Mentioned /\ \A f : Sources(f)' = Sources(f)
        /\ \A i, e, x : Named(i, e, x)' = Named(i, e, x)
    BY <1>1, LayoutStays, WantedStays
  <1>6. ASSUME NEW i \in DOMAIN asked, NEW e \in 1..OutWidth[i], t = InToken(i, e)
        PROVE  Named(i, e, u)
    <2>1. CASE IsName(asked[i])
      <3>1. t = asked[i]
        BY <1>6, <2>1, Widths DEF InToken
      <3>2. ASSUME NoSchemas PROVE u = WantedName(asked[i])
        BY <1>2, <2>1, <3>1, <3>2, NameReplaced
      <3>3. IsName(u)
        <4>1. IsName(t)
          BY <2>1, <3>1
        <4>2. \A m : IsName(Garbled(m))
          BY DEF IsName, Garbled
        <4>3. t \in DOMAIN rpls => IsName(rpls[t])
          BY DEF Inv, NamesAreKept, IsName
        <4> QED
          BY <4>1, <4>2, <4>3
      <3> QED
        BY <2>1, <3>2, <3>3 DEF Named
    <2>2. CASE ~IsName(asked[i])
      <3>1. t.kind \notin {"&", ":"}
        BY <1>6, <2>2 DEF InToken, Numbered, Text, IsName
      <3>2. u = t
        BY <3>1
      <3> QED
        BY <1>6, <2>2, <3>2 DEF Named
    <2> QED
      BY <2>1, <2>2
  <1> HIDE DEF u, t, W
  <1>7. /\ \E i \in DOMAIN asked : \E e \in 1..OutWidth[i] : Len(done) + 1 = Total(OutWidth, i - 1) + e
        /\ Len(done) \in Nat /\ t = todo[(Len(done) + 1) - Len(done)]
        /\ Len(done') = Len(done) + 1
        /\ Len(done') + Len(todo') = W
        /\ \A i \in DOMAIN asked : \A e \in 1..OutWidth[i] :
               LET at == Total(OutWidth, i - 1) + e
               IN  /\ at > Len(done') => at > Len(done) /\ todo'[at - Len(done')] = todo[at - Len(done)]
                   /\ at <= Len(done') /\ at # Len(done) + 1 => at <= Len(done) /\ done'[at] = done[at]
                   /\ at = Len(done) + 1 => at > Len(done) /\ done'[at] = u
    BY <1>1, <1>2, <1>4, OneForOne DEF t, W
  <1>8. ASSUME NEW i \in DOMAIN asked, NEW e \in 1..OutWidth[i]
        PROVE  LET at == Total(OutWidth, i - 1) + e
               IN  /\ at > Len(done') => todo'[at - Len(done')] = InToken(i, e)
                   /\ at <= Len(done') => Named(i, e, done'[at])
    <2> DEFINE at == Total(OutWidth, i - 1) + e
    <2>1. /\ at > Len(done) => todo[at - Len(done)] = InToken(i, e)
          /\ at <= Len(done) => Named(i, e, done[at])
          /\ at > Len(done') => at > Len(done) /\ todo'[at - Len(done')] = todo[at - Len(done)]
          /\ at <= Len(done') /\ at # Len(done) + 1 => at <= Len(done) /\ done'[at] = done[at]
          /\ at = Len(done) + 1 => at > Len(done) /\ done'[at] = u
      BY <1>2, <1>7
    <2> HIDE DEF at
    <2>2. at > Len(done') => todo'[at - Len(done')] = InToken(i, e)
      BY <2>1
    <2>3. ASSUME at = Len(done) + 1 PROVE Named(i, e, done'[at])
      <3>1. t = InToken(i, e)
        BY <1>7, <2>1, <2>3
      <3>2. Named(i, e, u)
        BY <1>6, <3>1
      <3> QED
        BY <2>1, <2>3, <3>2
    <2>4. ASSUME at <= Len(done'), at # Len(done) + 1 PROVE Named(i, e, done'[at])
      BY <2>1, <2>4
    <2> QED
      BY <2>2, <2>3, <2>4 DEF at
  <1>9. Collected(rpls, DOMAIN asked)'
    BY <1>1, <1>2, <1>5 DEF Collected
  <1>10. Len(done') + Len(todo') = Total(OutWidth', Len(asked'))
    BY <1>5, <1>7 DEF W
  <1> QED
    BY <1>5, <1>8, <1>9, <1>10 DEF ReplaceLaid

-----------------------------------------------------------------------------
(* Rebind.                                                                 *)

\* Between two tokens that are one behind the other in the text of the loops
\* there is no placeholder.
LEMMA BindsBetween ==
  ASSUME Inv, ~AnySlice, NEW i \in 0..Len(asked), NEW k \in 0..Len(asked), i <= k,
         Total(OutWidth, i) = Total(OutWidth, k)
  PROVE  Binds(i) = Binds(k)
  <1> DEFINE n == Len(asked)
  <1>1. n \in Nat /\ DOMAIN asked = 1..n /\ OutWidth \in [1..n -> Nat]
    BY Request, Widths
  <1>2. ASSUME NEW h \in 1..k, asked[h] = Bind PROVE h \in 1..i
    <2> SUFFICES ASSUME h > i PROVE FALSE
      BY <1>1
    <2>1. h \in 1..n /\ h \in 0..n /\ h <= k /\ h - 1 \in 0..n /\ i <= h - 1
      BY <1>1
    <2>2. OutWidth[h] = 1
      <3>1. asked[h] # Comment /\ ~Expanded(h)
        BY <1>1, <1>2, <2>1, Widths DEF Bind, Comment
      <3> QED
        BY <1>1, <2>1, <3>1, Widths
    <2>3. Total(OutWidth, h) = Total(OutWidth, h - 1) + OutWidth[h]
      BY <1>1, <2>1, TotalSteps
    <2>4. Total(OutWidth, h - 1) \in Nat /\ Total(OutWidth, i) \in Nat
      BY <1>1, <2>1, TotalSteps
    <2>5. Total(OutWidth, h) <= Total(OutWidth, k)
      BY <1>1, <2>1, TotalGrows
    <2>6. Total(OutWidth, i) <= Total(OutWidth, h - 1)
      BY <1>1, <2>1, TotalGrows
    <2> QED
      BY <2>2, <2>3, <2>4, <2>5, <2>6
  <1>3. 1..i \subseteq 1..k
    BY <1>1
  <1>4. {h \in 1..i : asked[h] = Bind} = {h \in 1..k : asked[h] = Bind}
    BY <1>2, <1>3
  <1> QED
    BY <1>4 DEF Binds

LEMMA SameBinds ==
  ASSUME Inv, ~AnySlice, NEW i \in 0..Len(asked), NEW k \in 0..Len(asked),
         Total(OutWidth, i) = Total(OutWidth, k)
  PROVE  Binds(i) = Binds(k)
  <1>1. i <= k \/ k <= i
    BY Request
  <1> QED
    BY <1>1, BindsBetween

LEMMA ReplaceEndsLaid ==
  ASSUME Inv, ReplaceLaid, RebindLaid, ReplaceEnds
  PROVE  RebindLaid'
  <1> DEFINE W == Total(OutWidth, Len(asked))
  <1>1. /\ stage = "replace" /\ stage' = "rebind" /\ todo = <<>> /\ todo' = done /\ done' = <<>>
        /\ request' = request /\ meta' = meta /\ j' = 0
    BY DEF ReplaceEnds, HandOver, RebindLaid
  <1>2. /\ Len(done) + Len(todo) = W
        /\ \A i \in DOMAIN asked : \A e \in 1..OutWidth[i] :
              LET at == Total(OutWidth, i - 1) + e IN at <= Len(done) => Named(i, e, done[at])
    BY <1>1 DEF ReplaceLaid
  <1>3. /\ Len(asked) \in Nat /\ DOMAIN asked = 1..Len(asked) /\ OutWidth \in [1..Len(asked) -> Nat]
        /\ done \in Seq(Written)
    BY Request, Widths DEF Inv, TypeOK
  <1>4. Len(todo) = 0 /\ Len(done) \in Nat /\ Len(done') = 0 /\ Len(todo') = W /\ Len(done) = W
    BY <1>1, <1>2, <1>3
  <1>5. /\ asked' = asked /\ OutWidth' = OutWidth /\ AnySlice' = AnySlice
        /\ \A i : Binds(i)' = Binds(i)
        /\ \A i, e, x : Named(i, e, x)' = Named(i, e, x)
    BY <1>1, LayoutStays, WantedStays
  <1>6. ASSUME ~AnySlice, NEW i \in 0..Len(asked), Total(OutWidth, i) = Len(done')
        PROVE  j' = Binds(i)
    <2>1. Total(OutWidth, 0) = 0 /\ 0 \in 0..Len(asked)
      BY <1>3, TotalSteps
    <2>2. Binds(i) = Binds(0)
      BY <1>4, <1>6, <2>1, SameBinds
    <2>3. Binds(0) = 0
      <3>1. {k \in 1..0 : asked[k] = Bind} = {}
        OBVIOUS
      <3> QED
        BY <3>1, FS_EmptySet DEF Binds
    <2> QED
      BY <1>1, <2>2, <2>3
  <1>7. ASSUME NEW i \in DOMAIN asked, NEW e \in 1..OutWidth[i]
        PROVE  LET at == Total(OutWidth, i - 1) + e
               IN  /\ at > Len(done') => Named(i, e, todo'[at - Len(done')])
                   /\ ~(at <= Len(done'))
    <2> DEFINE at == Total(OutWidth, i - 1) + e
    <2>1. at \in 1..W
      BY <1>3, PlaceTyped
    <2> HIDE DEF W, at
    <2>2. at - Len(done') = at /\ at <= Len(done) /\ ~(at <= Len(done'))
      BY <1>3, <1>4, <2>1
    <2>3. Named(i, e, done[at])
      BY <1>2, <2>2 DEF at
    <2> QED
      BY <1>1, <2>2, <2>3 DEF at
  <1>8. Len(done') + Len(todo') = W
    BY <1>4, <1>3
  <1> QED
    BY <1>1, <1>5, <1>6, <1>7, <1>8 DEF RebindLaid

LEMMA RebindTurnLaid ==
  ASSUME Inv, RebindLaid, RebindCopies \/ RebindNumbers
  PROVE  RebindLaid'
  <1> DEFINE t == Head(todo)
             u == IF t.kind = "?" THEN Numbered(j + 1) ELSE IF t = Escape THEN Question ELSE t
             W == Total(OutWidth, Len(asked))
             n == Len(asked)
  <1>1. /\ stage = "rebind" /\ stage' = "rebind" /\ todo # <<>> /\ Write(<<u>>)
        /\ request' = request /\ meta' = meta
        /\ j' = IF t.kind = "?" THEN j + 1 ELSE j
    BY DEF RebindCopies, RebindNumbers
  <1>2. /\ Len(done) + Len(todo) = W
        /\ ~AnySlice => \A i \in 0..n : Total(OutWidth, i) = Len(done) => j = Binds(i)
        /\ \A i \in DOMAIN asked : \A e \in 1..OutWidth[i] :
              LET at == Total(OutWidth, i - 1) + e
              IN  /\ at > Len(done) => Named(i, e, todo[at - Len(done)])
                  /\ at <= Len(done) => Bound(i, e, done[at])
    BY <1>1 DEF RebindLaid
  <1>3. /\ n \in Nat /\ DOMAIN asked = 1..n /\ OutWidth \in [1..n -> Nat]
        /\ \A i \in 1..n : asked[i] \in Token
    BY Request, Widths
  <1>4. t \in Written /\ u \in Written /\ j \in Nat
    BY <1>1, WrittenTokens DEF Inv, TypeOK
  <1>5. /\ asked' = asked /\ OutWidth' = OutWidth /\ AnySlice' = AnySlice
        /\ \A i : Binds(i)' = Binds(i)
        /\ \A i, e, x : Named(i, e, x)' = Named(i, e, x)
        /\ \A i, e, x : Bound(i, e, x)' = Bound(i, e, x)
    BY <1>1, LayoutStays, WantedStays
  <1>6. t.kind = "?" => ~AnySlice
    <2>1. AnySlice => t \in Settled
      BY <1>1 DEF Inv, TextIsSettled
    <2> QED
      BY <2>1 DEF Settled
  <1>7. /\ \E i \in DOMAIN asked : \E e \in 1..OutWidth[i] : Len(done) + 1 = Total(OutWidth, i - 1) + e
        /\ Len(done) \in Nat /\ t = todo[(Len(done) + 1) - Len(done)]
        /\ Len(done') = Len(done) + 1
        /\ Len(done') + Len(todo') = W
        /\ \A i \in DOMAIN asked : \A e \in 1..OutWidth[i] :
               LET at == Total(OutWidth, i - 1) + e
               IN  /\ at > Len(done') => at > Len(done) /\ todo'[at - Len(done')] = todo[at - Len(done)]
                   /\ at <= Len(done') /\ at # Len(done) + 1 => at <= Len(done) /\ done'[at] = done[at]
                   /\ at = Len(done) + 1 => at > Len(done) /\ done'[at] = u
    <2> HIDE DEF u
    <2> QED
      BY <1>1, <1>2, <1>4, OneForOne
  <1>8. PICK i \in 1..n : \E e \in 1..OutWidth[i] : Len(done) + 1 = Total(OutWidth, i - 1) + e
    BY <1>3, <1>7
  <1>9. PICK e \in 1..OutWidth[i] : Len(done) + 1 = Total(OutWidth, i - 1) + e
    BY <1>8
  <1>10. Named(i, e, t)
    <2> DEFINE at == Total(OutWidth, i - 1) + e
    <2>1. i \in DOMAIN asked /\ at = Len(done) + 1 /\ Len(done) \in Nat
      BY <1>3, <1>7, <1>9
    <2>2. at > Len(done) => Named(i, e, todo[at - Len(done)])
      BY <1>2, <2>1
    <2> HIDE DEF at
    <2>3. at > Len(done) /\ todo[at - Len(done)] = t
      BY <1>7, <2>1
    <2> QED
      BY <2>2, <2>3
  <1>11. IsName(asked[i]) => t.kind \notin {"?", "??"}
    BY <1>10 DEF Named, IsName
  <1>12. ~IsName(asked[i]) => /\ t = InToken(i, e)
                              /\ t.kind = "?" /\ ~AnySlice => asked[i] = Bind
                              /\ asked[i] = Bind /\ ~AnySlice => t.kind = "?"
                              /\ t = Escape <=> asked[i] = Escape
    <2> SUFFICES ASSUME ~IsName(asked[i])
                 PROVE  /\ t = InToken(i, e)
                        /\ t.kind = "?" /\ ~AnySlice => asked[i] = Bind
                        /\ asked[i] = Bind /\ ~AnySlice => t.kind = "?"
                        /\ t = Escape <=> asked[i] = Escape
      OBVIOUS
    <2>1. t = InToken(i, e)
      BY <1>10 DEF Named
    <2>2. CASE Expanded(i)
      <3>1. AnySlice /\ asked[i].kind # "??"
        BY <2>2 DEF Expanded
      <3>2. t.kind \in {"$", "text"}
        BY <2>1, <2>2 DEF InToken, Numbered, Text
      <3> QED
        BY <2>1, <3>1, <3>2 DEF Escape
    <2>3. CASE ~Expanded(i)
      <3>1. t = asked[i] /\ asked[i] \in Token
        BY <1>3, <2>1, <2>3 DEF InToken
      <3> QED
        BY <2>1, <3>1, TokenKinds
    <2> QED
      BY <2>2, <2>3
  <1>13. ASSUME ~AnySlice PROVE j' = Binds(i) /\ Total(OutWidth, i) = Len(done) + 1
    <2>1. asked[i] # Comment /\ OutWidth[i] = 1
      <3>1. OutWidth[i] # 0
        BY <1>3, <1>9
      <3>2. ~Expanded(i)
        BY <1>3, <1>13, Widths
      <3> QED
        BY <1>3, <3>1, <3>2, Widths
    <2>2. e = 1 /\ i - 1 \in 0..n /\ i - 1 \in Nat /\ (i - 1) + 1 = i
      BY <1>3, <2>1
    <2>3. Total(OutWidth, i - 1) \in Nat /\ Total(OutWidth, i) = Total(OutWidth, i - 1) + 1
      BY <1>3, <2>1, <2>2, TotalSteps
    <2>4. Total(OutWidth, i - 1) = Len(done)
      BY <1>7, <1>9, <2>2, <2>3
    <2>5. j = Binds(i - 1)
      BY <1>2, <1>13, <2>2, <2>4
    <2>6. /\ asked[i] = Bind => Binds(i) = Binds(i - 1) + 1
          /\ asked[i] # Bind => Binds(i) = Binds(i - 1)
      <3> DEFINE k == i - 1
      <3>1. k \in Nat /\ k + 1 = i
        BY <2>2
      <3> HIDE DEF k
      <3>2. /\ asked[k + 1] = Bind => Binds(k + 1) = Binds(k) + 1
            /\ asked[k + 1] # Bind => Binds(k + 1) = Binds(k)
        BY <3>1, BindsNext
      <3> QED
        BY <3>1, <3>2 DEF k
    <2>7. t.kind = "?" <=> asked[i] = Bind
      <3>1. ~IsName(Bind)
        BY DEF IsName, Bind
      <3> QED
        BY <1>11, <1>12, <1>13, <3>1
    <2> QED
      BY <1>1, <2>3, <2>4, <2>5, <2>6, <2>7
  <1>14. Bound(i, e, u)
    <2>1. CASE t.kind = "?"
      <3>1. ~AnySlice /\ asked[i] = Bind
        BY <1>6, <1>11, <1>12, <2>1
      <3>2. u = Numbered(Binds(i))
        BY <1>1, <1>13, <2>1, <3>1
      <3> QED
        BY <3>1, <3>2 DEF Bound
    <2>2. CASE t.kind # "?" /\ ~IsName(asked[i])
      <3>1. ~(asked[i] = Bind /\ ~AnySlice)
        BY <1>12, <2>2
      <3>2. CASE asked[i] = Escape
        BY <1>12, <2>2, <3>1, <3>2 DEF Bound
      <3>3. CASE asked[i] # Escape
        BY <1>10, <1>12, <2>2, <3>1, <3>3 DEF Bound
      <3> QED
        BY <3>2, <3>3
    <2>3. CASE t.kind # "?" /\ IsName(asked[i])
      <3>1. asked[i] # Bind /\ asked[i] # Escape
        BY <2>3 DEF IsName, Bind, Escape
      <3>2. u = t
        BY <1>11, <2>3 DEF Escape
      <3> QED
        BY <1>10, <3>1, <3>2 DEF Bound
    <2> QED
      BY <2>1, <2>2, <2>3
  <1> HIDE DEF u, t, W
  <1>15. ASSUME NEW k \in DOMAIN asked, NEW d \in 1..OutWidth[k]
         PROVE  LET at == Total(OutWidth, k - 1) + d
                IN  /\ at > Len(done') => Named(k, d, todo'[at - Len(done')])
                    /\ at <= Len(done') => Bound(k, d, done'[at])
    <2> DEFINE at == Total(OutWidth, k - 1) + d
    <2>1. /\ at > Len(done) => Named(k, d, todo[at - Len(done)])
          /\ at <= Len(done) => Bound(k, d, done[at])
          /\ at > Len(done') => at > Len(done) /\ todo'[at - Len(done')] = todo[at - Len(done)]
          /\ at <= Len(done') /\ at # Len(done) + 1 => at <= Len(done) /\ done'[at] = done[at]
          /\ at = Len(done) + 1 => at > Len(done) /\ done'[at] = u
      BY <1>2, <1>7
    <2>2. at = Len(done) + 1 => k = i /\ d = e
      BY <1>3, <1>9, SamePlace
    <2> HIDE DEF at
    <2>3. at > Len(done') => Named(k, d, todo'[at - Len(done')])
      BY <2>1
    <2>4. at = Len(done) + 1 => Bound(k, d, done'[at])
      BY <1>14, <2>1, <2>2
    <2>5. at <= Len(done') /\ at # Len(done) + 1 => Bound(k, d, done'[at])
      BY <2>1
    <2> QED
      BY <2>3, <2>4, <2>5 DEF at
  <1>16. ASSUME ~AnySlice, NEW k \in 0..n, Total(OutWidth, k) = Len(done') PROVE j' = Binds(k)
    <2>1. Total(OutWidth, k) = Total(OutWidth, i) /\ i \in 0..n
      BY <1>3, <1>7, <1>13, <1>16
    <2>2. Binds(k) = Binds(i)
      BY <1>16, <2>1, SameBinds
    <2> QED
      BY <1>13, <1>16, <2>2
  <1>17. Len(done') + Len(todo') = Total(OutWidth', Len(asked'))
    BY <1>5, <1>7 DEF W
  <1> QED
    BY <1>1, <1>5, <1>15, <1>16, <1>17 DEF RebindLaid

-----------------------------------------------------------------------------
(* Every step.                                                             *)

\* What the loops do not come to is as it was.
LEMMA RowStays ==
  ASSUME RowsApart, RowFilled, request' = request, meta' = meta, flat' = flat, Past' => Past
  PROVE  RowsApart' /\ RowFilled'
  <1>1. args' = args /\ AnySlice' = AnySlice /\ RowsApart' = RowsApart
    BY LayoutStays
  <1> QED
    BY <1>1 DEF RowFilled, Past

LEMMA InitLayout == ASSUME Init PROVE Layout
  <1>1. /\ meta = <<>> /\ stage = "measure" /\ j = 0 /\ rpls = <<>>
    BY DEF Init
  <1>2. DOMAIN meta = {} /\ DOMAIN rpls = {}
    BY <1>1
  <1>3. RowsApart
    BY <1>2 DEF RowsApart
  <1>4. RowFilled /\ InLaid /\ CollectLaid /\ ReplaceLaid /\ RebindLaid
    BY <1>1, <1>2 DEF RowFilled, Past, InLaid, CollectLaid, ReplaceLaid, RebindLaid
  <1> QED
    BY <1>3, <1>4 DEF Layout

LEMMA NextLayout ==
  ASSUME Inv, InCounts, Layout, [Next]_vars
  PROVE  Layout'
  <1>1. RowsApart /\ RowFilled /\ InLaid /\ CollectLaid /\ ReplaceLaid /\ RebindLaid
    BY DEF Layout
  \* What each part needs of a step that does not lead to its stages.
  <1>2. stage' # "in" => InLaid'
    BY DEF InLaid
  <1>3. stage' # "replace" => ReplaceLaid'
    BY DEF ReplaceLaid
  <1>4. stage' \in {"measure", "in"} /\ stage \in {"measure", "in"} /\ rpls' = rpls => CollectLaid'
    BY <1>1 DEF CollectLaid
  <1>5. stage' \notin {"measure", "in", "collect"} => CollectLaid'
    BY DEF CollectLaid
  <1>6. stage' \in {"refused", "panicked"} \/ (/\ stage' \in {"measure", "in", "collect", "replace"}
                               /\ stage \in {"measure", "in", "collect", "replace"}
                               /\ j' = j) => RebindLaid'
    BY <1>1 DEF RebindLaid
  <1>7. CASE UNCHANGED vars
    <2>1. /\ request' = request /\ stage' = stage /\ todo' = todo /\ done' = done /\ meta' = meta
          /\ flat' = flat /\ arg' = arg /\ rpls' = rpls /\ j' = j
      BY <1>7 DEF vars
    <2>2. /\ asked' = asked /\ AnySlice' = AnySlice /\ InWidth' = InWidth /\ OutWidth' = OutWidth
          /\ \A i, e : InToken(i, e)' = InToken(i, e)
          /\ \A i : Taken(i)' = Taken(i) /\ Binds(i)' = Binds(i)
          /\ Mentioned' = Mentioned /\ \A f : Sources(f)' = Sources(f)
      BY <2>1, LayoutStays
    <2>3. \A i, e, t : Named(i, e, t)' = Named(i, e, t) /\ Bound(i, e, t)' = Bound(i, e, t)
      BY <2>1, WantedStays
    <2>4. Behind' = Behind /\ Scanned' = Scanned /\ Passed' = Passed
      BY <2>1, <2>2 DEF Behind, Scanned, Passed
    <2>5. Collected(rpls, Passed)' = Collected(rpls, Passed)
          /\ Collected(rpls, DOMAIN asked)' = Collected(rpls, DOMAIN asked)
      BY <2>1, <2>2, <2>4 DEF Collected
    <2>6. InLaid'
      BY <1>1, <2>1, <2>2, <2>4 DEF InLaid
    <2>7. CollectLaid'
      BY <1>1, <2>1, <2>2, <2>4, <2>5 DEF CollectLaid
    <2>8. ReplaceLaid'
      BY <1>1, <2>1, <2>2, <2>3, <2>5 DEF ReplaceLaid
    <2>9. RebindLaid'
      BY <1>1, <2>1, <2>2, <2>3 DEF RebindLaid
    <2>10. RowsApart' /\ RowFilled'
      BY <1>1, <2>1, RowStays DEF Past
    <2> QED
      BY <2>6, <2>7, <2>8, <2>9, <2>10 DEF Layout
  <1>8. CASE MeasureArg
    <2>1. stage = "measure" /\ stage' = "measure" /\ rpls' = rpls /\ j' = j
      BY <1>8 DEF MeasureArg
    <2>2. RowsApart'
      BY <1>1, <1>8, MeasuredApart
    <2>3. RowFilled'
      BY <2>1 DEF RowFilled, Past
    <2> QED
      BY <1>2, <1>3, <1>4, <1>6, <2>1, <2>2, <2>3 DEF Layout
  <1>9. CASE MeasureRefuses \/ InRunsOut \/ InOutOfRange \/ InPanics
    <2>1. /\ stage' \in {"refused", "panicked"}
          /\ request' = request /\ meta' = meta /\ flat' = flat
      BY <1>9 DEF MeasureRefuses, InRunsOut, InOutOfRange, InPanics, Refuse
    <2>2. RowsApart' /\ RowFilled'
      BY <1>1, <2>1, RowStays DEF Past
    <2> QED
      BY <1>2, <1>3, <1>5, <1>6, <2>1, <2>2 DEF Layout
  <1>10. CASE InSkips
    <2>1. /\ stage = "measure" /\ stage' = "collect" /\ j' = j
          /\ request' = request /\ meta' = meta
      BY <1>10 DEF InSkips
    <2>2. CollectLaid' /\ RowFilled'
      BY <1>1, <1>10, InSkipsLaid
    <2>3. RowsApart'
      BY <1>1, <2>1, LayoutStays
    <2> QED
      BY <1>2, <1>3, <1>6, <2>1, <2>2, <2>3 DEF Layout
  <1>11. CASE InBegins
    <2>1. /\ stage = "measure" /\ stage' = "in" /\ j' = j /\ rpls' = rpls
          /\ request' = request /\ meta' = meta
      BY <1>11 DEF InBegins
    <2>2. InLaid' /\ RowFilled'
      BY <1>1, <1>11, InBeginsLaid
    <2>3. RowsApart'
      BY <1>1, <2>1, LayoutStays
    <2> QED
      BY <1>3, <1>4, <1>6, <2>1, <2>2, <2>3 DEF Layout
  <1>12. CASE InCopies \/ InSkipsEscape
    <2>1. /\ stage = "in" /\ stage' = "in" /\ j' = j /\ rpls' = rpls
          /\ request' = request /\ meta' = meta /\ flat' = flat
      BY <1>12 DEF InCopies, InSkipsEscape
    <2>2. InLaid'
      BY <1>1, <1>12, InStaysLaid
    <2>3. RowsApart' /\ RowFilled'
      BY <1>1, <2>1, RowStays DEF Past
    <2> QED
      BY <1>3, <1>4, <1>6, <2>1, <2>2, <2>3 DEF Layout
  <1>13. CASE InQuestion \/ InNumber
    <2>1. /\ stage = "in" /\ stage' = "in" /\ j' = j /\ rpls' = rpls
          /\ request' = request /\ meta' = meta
      BY <1>13 DEF InQuestion, InNumber
    <2>2. InLaid' /\ RowFilled'
      BY <1>1, <1>13, InQuestionLaid, InNumberLaid
    <2>3. RowsApart'
      BY <1>1, <2>1, LayoutStays
    <2> QED
      BY <1>3, <1>4, <1>6, <2>1, <2>2, <2>3 DEF Layout
  <1>14. CASE InEnds
    <2>1. /\ stage = "in" /\ stage' = "collect" /\ j' = j
          /\ request' = request /\ meta' = meta /\ flat' = flat
      BY <1>14 DEF InEnds, HandOver
    <2>2. CollectLaid'
      BY <1>1, <1>14, InEndsLaid
    <2>3. RowsApart' /\ RowFilled'
      BY <1>1, <2>1, RowStays DEF Past
    <2> QED
      BY <1>2, <1>3, <1>6, <2>1, <2>2, <2>3 DEF Layout
  <1>15. CASE Collect
    <2>1. /\ stage = "collect" /\ stage' = "collect" /\ j' = j
          /\ request' = request /\ meta' = meta /\ flat' = flat
      BY <1>15 DEF Collect
    <2>2. CollectLaid'
      BY <1>1, <1>15, CollectTurnLaid
    <2>3. RowsApart' /\ RowFilled'
      BY <1>1, <2>1, RowStays DEF Past
    <2> QED
      BY <1>2, <1>3, <1>6, <2>1, <2>2, <2>3 DEF Layout
  <1>16. CASE CollectEnds
    <2>1. /\ stage = "collect" /\ stage' = "replace" /\ j' = j
          /\ request' = request /\ meta' = meta /\ flat' = flat
      BY <1>16 DEF CollectEnds, HandOver
    <2>2. ReplaceLaid'
      BY <1>1, <1>16, CollectEndsLaid
    <2>3. RowsApart' /\ RowFilled'
      BY <1>1, <2>1, RowStays DEF Past
    <2> QED
      BY <1>2, <1>5, <1>6, <2>1, <2>2, <2>3 DEF Layout
  <1>17. CASE Replace
    <2>1. /\ stage = "replace" /\ stage' = "replace" /\ j' = j
          /\ request' = request /\ meta' = meta /\ flat' = flat
      BY <1>17 DEF Replace
    <2>2. ReplaceLaid'
      BY <1>1, <1>17, ReplaceTurnLaid
    <2>3. RowsApart' /\ RowFilled'
      BY <1>1, <2>1, RowStays DEF Past
    <2> QED
      BY <1>2, <1>5, <1>6, <2>1, <2>2, <2>3 DEF Layout
  <1>18. CASE ReplaceEnds
    <2>1. /\ stage = "replace" /\ stage' = "rebind"
          /\ request' = request /\ meta' = meta /\ flat' = flat
      BY <1>18 DEF ReplaceEnds, HandOver
    <2>2. RebindLaid'
      BY <1>1, <1>18, ReplaceEndsLaid
    <2>3. RowsApart' /\ RowFilled'
      BY <1>1, <2>1, RowStays DEF Past
    <2> QED
      BY <1>2, <1>3, <1>5, <2>1, <2>2, <2>3 DEF Layout
  <1>19. CASE RebindCopies \/ RebindNumbers
    <2>1. /\ stage = "rebind" /\ stage' = "rebind"
          /\ request' = request /\ meta' = meta /\ flat' = flat
      BY <1>19 DEF RebindCopies, RebindNumbers
    <2>2. RebindLaid'
      BY <1>1, <1>19, RebindTurnLaid
    <2>3. RowsApart' /\ RowFilled'
      BY <1>1, <2>1, RowStays DEF Past
    <2> QED
      BY <1>2, <1>3, <1>5, <2>1, <2>2, <2>3 DEF Layout
  <1>20. CASE Run
    <2>1. /\ stage = "rebind" /\ stage' = "ran" /\ todo' = todo /\ done' = done /\ j' = j
          /\ request' = request /\ meta' = meta /\ flat' = flat
      BY <1>20 DEF Run
    <2>2. /\ asked' = asked /\ AnySlice' = AnySlice /\ OutWidth' = OutWidth
          /\ \A i : Binds(i)' = Binds(i)
      BY <2>1, LayoutStays
    <2>3. \A i, e, t : Named(i, e, t)' = Named(i, e, t) /\ Bound(i, e, t)' = Bound(i, e, t)
      BY <2>1, WantedStays
    <2>4. RebindLaid'
      BY <1>1, <2>1, <2>2, <2>3 DEF RebindLaid
    <2>5. RowsApart' /\ RowFilled'
      BY <1>1, <2>1, RowStays DEF Past
    <2> QED
      BY <1>2, <1>3, <1>5, <2>1, <2>4, <2>5 DEF Layout
  <1> QED
    BY <1>7, <1>8, <1>9, <1>10, <1>11, <1>12, <1>13, <1>14, <1>15, <1>16, <1>17, <1>18, <1>19, <1>20
    DEF Next

\* Every token of the query is where the widths of those before it put it.
THEOREM LayoutHolds == Spec => []Layout
  <1>1. Init => InCounts /\ Layout
    BY InitLayout DEF Init, InCounts, asked
  <1>2. Inv /\ InCounts /\ Layout /\ [Next]_vars => (InCounts /\ Layout)'
    BY NextCounts, NextLayout
  <1> QED
    BY <1>1, <1>2, InvHolds, PTL DEF Spec

-----------------------------------------------------------------------------
(* Nothing is missing in what was sent.                                    *)

\* What In has left behind was passed, and past In that is everything.
TakenWerePassed ==
    /\ stage = "in" /\ Clear => \A i \in Placeholders : i <= Behind => ArgOf(i) \in DOMAIN args
    /\ stage \in {"collect", "replace", "rebind", "ran"} /\ AnySlice /\ Clear => AllPassed

\* A turn of In that takes an argument which is there, or takes none.
LEMMA InTurnPassed ==
  ASSUME Inv, InCounts, TakenWerePassed, stage = "in", todo # <<>>, NEW ts, Write(ts),
         request' = request, stage' = stage,
         Clear /\ Behind + 1 \in Placeholders => ArgOf(Behind + 1) \in DOMAIN args
  PROVE  TakenWerePassed'
  <1>1. /\ Behind \in Nat /\ Len(asked) \in Nat
    BY InStandsAt, RequestsAssumption DEF Inv, TypeOK, asked
  <1>2. todo' = Tail(todo) /\ todo \in Seq(Written)
    BY DEF Write, Inv, TypeOK
  <1>3. Len(todo') = Len(todo) - 1 /\ Len(todo) \in Nat
    BY <1>2
  <1>4. /\ Clear' = Clear /\ args' = args /\ Placeholders' = Placeholders /\ asked' = asked
        /\ \A i : ArgOf(i)' = ArgOf(i)
    BY ReasonsStay DEF asked
  <1>5. Behind' = Behind + 1
    BY <1>1, <1>3, <1>4 DEF Behind
  <1>6. ASSUME Clear, NEW i \in Placeholders, i <= Behind + 1
        PROVE  ArgOf(i) \in DOMAIN args
    <2>1. i \in Nat
      BY RequestsAssumption DEF Placeholders, Inv, TypeOK, asked
    <2>2. CASE i <= Behind
      BY <1>6, <2>2 DEF TakenWerePassed
    <2>3. CASE i = Behind + 1
      BY <1>6, <2>3
    <2> QED
      BY <1>1, <1>6, <2>1, <2>2, <2>3
  <1> QED
    BY <1>4, <1>5, <1>6 DEF TakenWerePassed

LEMMA NextPassed ==
  ASSUME Inv, InCounts, TakenWerePassed, [Next]_vars
  PROVE  TakenWerePassed'
  <1>1. CASE stage' \in {"measure", "refused", "panicked"}
    BY <1>1 DEF TakenWerePassed
  <1>2. CASE /\ request' = request
             /\ stage \in {"collect", "replace", "rebind", "ran"}
             /\ stage' \in {"collect", "replace", "rebind", "ran"}
    BY <1>2, ReasonsStay DEF TakenWerePassed
  <1>3. CASE UNCHANGED vars
    <2>1. request' = request /\ stage' = stage /\ todo' = todo
      BY <1>3 DEF vars
    <2>2. Behind' = Behind
      BY <2>1 DEF Behind, asked
    <2> QED
      BY <2>1, <2>2, ReasonsStay DEF TakenWerePassed
  <1>4. CASE InSkips
    <2>1. ~AnySlice /\ request' = request /\ stage' = "collect"
      BY <1>4 DEF InSkips
    <2> QED
      BY <2>1, ReasonsStay DEF TakenWerePassed
  <1>5. CASE InBegins
    <2>1. /\ request' = request /\ stage' = "in" /\ todo' = asked' /\ asked' = asked
      BY <1>5 DEF InBegins, InCounts, asked
    <2>2. asked \in Seq(Token)
      BY RequestsAssumption DEF Inv, TypeOK, asked
    <2>3. Behind' = 0
      BY <2>1, <2>2 DEF Behind
    <2>4. \A i \in Placeholders : ~(i <= 0)
      BY <2>2 DEF Placeholders
    <2>5. Placeholders' = Placeholders
      BY <2>1, ReasonsStay
    <2> QED
      BY <2>1, <2>3, <2>4, <2>5 DEF TakenWerePassed
  <1> DEFINE i == Behind + 1
  <1>6. CASE InCopies \/ InSkipsEscape
    <2>1. /\ stage = "in" /\ todo # <<>> /\ Head(todo).kind \notin {"?", "$"}
          /\ request' = request /\ stage' = stage
      BY <1>6 DEF InCopies, InSkipsEscape, Stops, Escape
    <2>2. i \notin Placeholders
      BY <2>1, InStandsAt DEF Placeholders
    <2>3. PICK ts : Write(ts)
      BY <1>6 DEF InCopies, InSkipsEscape
    <2> QED
      BY <2>1, <2>2, <2>3, InTurnPassed
  <1>7. CASE InQuestion
    <2>1. /\ stage = "in" /\ todo # <<>> /\ Head(todo).kind \in {"?", "?|", "--?"}
          /\ arg < Len(meta) /\ request' = request /\ stage' = stage
      BY <1>7 DEF InQuestion
    <2>2. /\ Behind \in Nat /\ Head(todo) = asked[i] /\ asked[i] \in Token
          /\ Len(meta) = Len(args) /\ Len(args) \in Nat /\ DOMAIN args = 1..Len(args)
      BY <2>1, InStandsAt
    <2>3. ASSUME Clear, i \in Placeholders PROVE ArgOf(i) \in DOMAIN args
      <3>1. asked[i] = Bind /\ asked[i].kind # "$"
        BY <2>1, <2>2, <2>3, TokenKinds DEF Placeholders
      <3>2. arg = Binds(Behind) /\ Binds(Behind) \in Nat /\ Binds(i) = Binds(Behind) + 1
        BY <2>1, <2>2, <2>3, <3>1, BindsTyped, BindsNext DEF InCounts
      <3>3. ArgOf(i) = arg + 1
        BY <3>1, <3>2 DEF ArgOf
      <3> HIDE DEF i
      <3> QED
        BY <2>1, <2>2, <3>2, <3>3
    <2>4. PICK ts : Write(ts)
      BY <1>7 DEF InQuestion
    <2> QED
      BY <2>1, <2>3, <2>4, InTurnPassed
  <1>8. CASE InNumber
    <2>1. /\ stage = "in" /\ todo # <<>> /\ Head(todo).kind = "$"
          /\ Head(todo).n \in 1..Len(meta) /\ request' = request /\ stage' = stage
      BY <1>8 DEF InNumber
    <2>2. /\ Head(todo) = asked[i]
          /\ Len(meta) = Len(args) /\ DOMAIN args = 1..Len(args)
      BY <2>1, InStandsAt
    <2>3. ArgOf(i) \in DOMAIN args
      BY <2>1, <2>2 DEF ArgOf
    <2>4. PICK ts : Write(ts)
      BY <1>8 DEF InNumber
    <2> QED
      BY <2>1, <2>3, <2>4, InTurnPassed
  <1>9. CASE InEnds
    <2>1. /\ stage = "in" /\ todo = <<>> /\ stage' = "collect" /\ request' = request
      BY <1>9 DEF InEnds, HandOver
    <2>2. asked \in Seq(Token)
      BY RequestsAssumption DEF Inv, TypeOK, asked
    <2>3. Behind = Len(asked)
      BY <2>1, <2>2 DEF Behind
    <2>4. Clear => AllPassed
      BY <2>1, <2>2, <2>3 DEF TakenWerePassed, AllPassed, Placeholders
    <2> QED
      BY <2>1, <2>4, ReasonsStay DEF TakenWerePassed
  <1>10. CASE MeasureArg \/ MeasureRefuses \/ InRunsOut \/ InOutOfRange \/ InPanics
    <2>1. stage' \in {"measure", "refused", "panicked"}
      BY <1>10 DEF MeasureArg, MeasureRefuses, InRunsOut, InOutOfRange, InPanics, Refuse
    <2> QED
      BY <1>1, <2>1
  <1>11. CASE \/ Collect \/ CollectEnds \/ Replace \/ ReplaceEnds
              \/ RebindCopies \/ RebindNumbers \/ Run
    BY <1>2, <1>11
    DEF Collect, CollectEnds, Replace, ReplaceEnds, RebindCopies, RebindNumbers, Run, HandOver
  <1> QED
    BY <1>3, <1>4, <1>5, <1>6, <1>7, <1>8, <1>9, <1>10, <1>11 DEF Next

\* With slices, a call of which an argument is missing or empty is never sent,
\* and In refuses a call only for that, or if all are taken when a mark follows
\* that takes none (inbind.go 66-68, 86-98, 111-135).
THEOREM RefusedForAReasonHolds == Spec => []RefusedForAReason
  <1>1. Init => TakenWerePassed
    BY DEF Init, TakenWerePassed
  <1>2. Inv /\ InCounts /\ TakenWerePassed /\ [Next]_vars => TakenWerePassed'
    BY NextPassed
  <1>3. Init => InCounts
    BY DEF Init, InCounts, asked
  <1>4. Inv /\ InCounts /\ [Next]_vars => InCounts'
    BY NextCounts
  <1>5. Inv /\ Layout /\ OnlyForAReason /\ TakenWerePassed => RefusedForAReason
    <2> SUFFICES ASSUME Inv, Layout, OnlyForAReason, TakenWerePassed, stage = "ran", AnySlice, Clear
                 PROVE  AllPassed /\ NoneEmpty
      BY DEF OnlyForAReason, RefusedForAReason
    <2>1. AllPassed
      BY DEF TakenWerePassed
    <2>2. /\ Len(meta) = Len(args)
          /\ \A a \in DOMAIN meta : meta[a].length = args[a].length
      BY DEF Layout, RowFilled, RowsApart, Past
    <2>3. \A a \in DOMAIN meta : meta[a].length \in Nat \ {0}
      BY RowTyped DEF Inv
    <2>4. DOMAIN args = 1..Len(args) /\ DOMAIN meta = 1..Len(meta)
      BY RowTyped, Request DEF Inv
    <2>5. NoneEmpty
      BY <2>2, <2>3, <2>4 DEF NoneEmpty
    <2> QED
      BY <2>1, <2>5
  <1> QED
    BY <1>1, <1>2, <1>3, <1>4, <1>5, InvHolds, LayoutHolds, OnlyForAReasonHolds, PTL DEF Spec

-----------------------------------------------------------------------------
(* What was sent.                                                          *)

LEMMA SentTyped ==
  ASSUME Inv
  PROVE  /\ DOMAIN Sent = DOMAIN done /\ DOMAIN done = 1..Len(done) /\ Len(done) \in Nat
         /\ Len(Sent) = Len(done)
  <1>1. DOMAIN done = 1..Len(done) /\ Len(done) \in Nat
    BY DEF Inv, TypeOK
  <1>2. DOMAIN Sent = 1..Len(done)
    BY <1>1 DEF Sent
  <1>3. Sent \in Seq({Sent[i] : i \in DOMAIN done})
    BY <1>1 DEF Sent
  <1> HIDE DEF Sent
  <1>4. DOMAIN Sent = 1..Len(Sent) /\ Len(Sent) \in Nat
    BY <1>3, Elements
  <1> QED
    BY <1>1, <1>2, <1>4

\* A call that was sent has each token of its query in its place.
LEMMA SentInPlace ==
  ASSUME Inv, Layout, stage = "ran", NEW i \in DOMAIN asked, NEW e \in 1..OutWidth[i]
  PROVE  /\ Len(done) = Total(OutWidth, Len(asked))
         /\ Total(OutWidth, i - 1) + e \in DOMAIN done
         /\ Bound(i, e, done[Total(OutWidth, i - 1) + e])
  <1>1. todo = <<>> /\ Len(todo) = 0 /\ Len(done) \in Nat /\ DOMAIN done = 1..Len(done)
    BY SentTyped DEF Inv, TextIsSettled
  <1>2. Len(done) + Len(todo) = Total(OutWidth, Len(asked))
    BY DEF Layout, RebindLaid
  <1>3. Len(done) = Total(OutWidth, Len(asked))
    BY <1>1, <1>2
  <1>4. Len(asked) \in Nat /\ DOMAIN asked = 1..Len(asked) /\ OutWidth \in [1..Len(asked) -> Nat]
    BY Request, Widths
  <1>5. Total(OutWidth, i - 1) + e \in 1..Total(OutWidth, Len(asked))
    BY <1>4, PlaceTyped
  <1>6. Total(OutWidth, i - 1) + e <= Len(done)
    BY <1>1, <1>3, <1>5
  <1>7. Bound(i, e, done[Total(OutWidth, i - 1) + e])
    BY <1>6 DEF Layout, RebindLaid
  <1> QED
    BY <1>1, <1>3, <1>5, <1>7

\* A name of the query is one token of the statement, and nothing else of the
\* statement is a name.
LEMMA SentNames ==
  ASSUME Inv, Layout, stage = "ran", NEW i \in DOMAIN asked, NEW e \in 1..OutWidth[i]
  PROVE  LET at == Total(OutWidth, i - 1) + e
         IN  /\ IsName(Sent[at]) <=> IsName(asked[i])
             /\ IsName(asked[i]) => OutWidth[i] = 1 /\ e = 1
             /\ IsName(asked[i]) /\ NoSchemas => Sent[at] = WantedName(asked[i])
  <1> DEFINE at == Total(OutWidth, i - 1) + e
             d == done[at]
  <1>1. at \in DOMAIN done /\ Bound(i, e, d)
    BY SentInPlace
  <1>2. Sent[at] = IF d.kind = "$" /\ d.n \in DOMAIN flat THEN ValueToken(flat[d.n]) ELSE d
    BY <1>1 DEF Sent
  <1>3. asked[i] \in Token
    BY Request
  <1> HIDE DEF at, d
  <1>4. CASE IsName(asked[i])
    <2>1. asked[i] # Bind /\ asked[i] # Escape /\ asked[i] # Comment
      BY <1>4 DEF IsName, Bind, Escape, Comment
    <2>2. IsName(d) /\ (NoSchemas => d = WantedName(asked[i]))
      BY <1>1, <1>4, <2>1 DEF Bound, Named
    <2>3. Sent[at] = d
      BY <1>2, <2>2 DEF IsName
    <2>4. OutWidth[i] = 1
      BY <1>4, <2>1, Widths
    <2> QED
      BY <1>4, <2>2, <2>3, <2>4 DEF at
  <1>5. CASE ~IsName(asked[i])
    <2>1. ~IsName(d)
      <3>1. \A n : ~IsName(Numbered(n))
        BY DEF IsName, Numbered
      <3>2. ~IsName(Question) /\ ~IsName(Text)
        BY DEF IsName, Question, Text
      <3>3. ~IsName(InToken(i, e))
        BY <1>5, <3>1, <3>2 DEF InToken
      <3> QED
        BY <1>1, <1>5, <3>1, <3>2, <3>3 DEF Bound, Named
    <2>2. ~IsName(Sent[at])
      BY <1>2, <2>1 DEF IsName, ValueToken
    <2> QED
      BY <1>5, <2>2 DEF at
  <1> QED
    BY <1>4, <1>5

\* With slices, and no marks that In takes for placeholders, the k-th ? is the
\* k-th mark that takes an argument.
LEMMA TakenIsBinds ==
  ASSUME Inv, AnySlice, Clear, NEW i \in DOMAIN asked
  PROVE  Taken(i) = Binds(i)
  <1>1. \A k \in DOMAIN asked : asked[k].kind \in {"?", "?|", "--?"} <=> asked[k] = Bind
    <2> SUFFICES ASSUME NEW k \in DOMAIN asked
                 PROVE  asked[k].kind \in {"?", "?|", "--?"} <=> asked[k] = Bind
      OBVIOUS
    <2>1. asked[k] \in Token /\ asked[k] # Operator /\ asked[k] # Comment
      BY Request DEF Clear
    <2> QED
      BY <2>1, TokenKinds
  <1>2. 1..i \subseteq DOMAIN asked
    BY Request
  <1>3. {k \in 1..i : asked[k].kind \in {"?", "?|", "--?"}} = {k \in 1..i : asked[k] = Bind}
    BY <1>1, <1>2
  <1> QED
    BY <1>3 DEF Taken, Binds

\* What a placeholder stands for, when every argument was passed.
LEMMA PlaceholderTakes ==
  ASSUME Inv, AllPassed, Clear, NEW i \in Placeholders
  PROVE  /\ ArgOf(i) \in DOMAIN args
         /\ AnySlice => Expanded(i) /\ ArgIn(i) = ArgOf(i)
         /\ asked[i] # Operator /\ asked[i] # Comment /\ asked[i] # Escape /\ ~IsName(asked[i])
         /\ asked[i] = Bind \/ (asked[i] = Numbered(asked[i].n) /\ ArgOf(i) = asked[i].n)
         /\ asked[i] = Bind => ArgOf(i) = Binds(i)
  <1>1. i \in DOMAIN asked /\ asked[i].kind \in {"?", "$"} /\ asked[i] \in Token
    BY Request DEF Placeholders
  <1>2. ArgOf(i) \in DOMAIN args
    BY DEF AllPassed
  <1>3. AnySlice => ArgIn(i) = ArgOf(i)
    BY <1>1, TakenIsBinds DEF ArgIn, ArgOf
  <1>4. /\ asked[i] = Bind \/ (asked[i].kind = "$" /\ asked[i] = Numbered(asked[i].n))
        /\ ~IsName(asked[i])
    BY <1>1, TokenKinds
  <1>5. asked[i] # Operator /\ asked[i] # Comment /\ asked[i] # Escape
    BY <1>1 DEF Operator, Comment, Escape
  <1> QED
    BY <1>1, <1>2, <1>3, <1>4, <1>5 DEF Expanded, ArgOf, Bind

\* Then the widths are those that the text means.
LEMMA WidthsMeant ==
  ASSUME Inv, AllPassed, Clear
  PROVE  OutWidth = Width
  <1>1. ASSUME NEW i \in DOMAIN asked PROVE OutWidth[i] = Width[i]
    <2>1. asked[i] \in Token /\ DOMAIN args = 1..Len(args)
      BY Request
    <2>2. /\ OutWidth[i] = IF asked[i] = Comment THEN 0 ELSE InWidth[i]
          /\ ~Expanded(i) => InWidth[i] = 1
          /\ ~AnySlice => ~Expanded(i)
      BY Widths
    <2>3. CASE i \in Placeholders
      <3>1. ArgOf(i) \in DOMAIN args /\ asked[i] # Comment /\ asked[i] # Operator
        BY <2>3, PlaceholderTakes
      <3>2. Width[i] = args[ArgOf(i)].length
        BY <2>3, <3>1 DEF Width
      <3>3. CASE AnySlice
        <4>1. Expanded(i) /\ ArgIn(i) = ArgOf(i)
          BY <2>3, <3>3, PlaceholderTakes
        <4>2. InWidth[i] = args[ArgOf(i)].length + 0
          BY <3>1, <4>1, Widths
        <4>3. args[ArgOf(i)].length \in Nat
          BY <3>1, Request
        <4> QED
          BY <2>2, <3>1, <3>2, <4>2, <4>3
      <3>4. CASE ~AnySlice
        <4>1. args[ArgOf(i)].length = 1
          BY <3>1, <3>4, Request DEF AnySlice
        <4> QED
          BY <2>2, <3>1, <3>2, <3>4, <4>1
      <3> QED
        BY <3>3, <3>4
    <2>4. CASE i \notin Placeholders
      <3>1. Width[i] = IF asked[i] = Comment THEN 0 ELSE 1
        BY <2>4 DEF Width
      <3>2. ~Expanded(i)
        <4>1. asked[i].kind \notin {"?", "$"}
          BY <2>4 DEF Placeholders
        <4>2. AnySlice => asked[i].kind # "?|"
          BY <2>1, TokenKinds DEF Clear
        <4> QED
          BY <4>1, <4>2 DEF Expanded
      <3> QED
        BY <2>2, <3>1, <3>2
    <2> QED
      BY <2>3, <2>4
  <1> QED
    BY <1>1 DEF OutWidth, Width

LEMMA ValuesArrive ==
  ASSUME Inv, Layout
  PROVE  ValuesInPlace
  <1> SUFFICES ASSUME stage = "ran", AllPassed, Clear
               PROVE  /\ Len(Sent) = Total(Width, Len(asked))
                      /\ \A i \in DOMAIN asked : \A e \in 1..Width[i] :
                            LET token == Sent[Total(Width, i - 1) + e]
                            IN  IF IsName(asked[i]) THEN IsName(token) ELSE token = WantedValue(i, e)
    BY DEF ValuesInPlace
  <1>1. OutWidth = Width
    BY WidthsMeant
  <1>2. Len(Sent) = Total(OutWidth, Len(asked))
    <2>1. todo = <<>> /\ Len(todo) = 0
      BY DEF Inv, TextIsSettled
    <2>2. Len(done) + Len(todo) = Total(OutWidth, Len(asked))
      BY DEF Layout, RebindLaid
    <2> QED
      BY <2>1, <2>2, SentTyped
  <1>3. /\ Len(meta) = Len(args)
        /\ ~AnySlice => flat = [k \in DOMAIN args |-> Value(k, 1)]
        /\ AnySlice => \A a \in DOMAIN args : \A e \in 1..args[a].length :
                          flat[meta[a].from + e - 1] \in {Unset, Value(a, e)}
    BY DEF Layout, RowFilled, Past
  <1>4. ASSUME NEW i \in DOMAIN asked, NEW e \in 1..OutWidth[i], ~IsName(asked[i])
        PROVE  Sent[Total(OutWidth, i - 1) + e] = WantedValue(i, e)
    <2> DEFINE at == Total(OutWidth, i - 1) + e
               d == done[at]
    <2>1. at \in DOMAIN done /\ Bound(i, e, d)
      BY SentInPlace
    <2>2. Sent[at] = IF d.kind = "$" /\ d.n \in DOMAIN flat THEN ValueToken(flat[d.n]) ELSE d
      BY <2>1 DEF Sent
    <2>3. AnySlice => d \in Settled
      <3>1. AnySlice => done \in Seq(Settled)
        BY DEF Inv, TextIsSettled
      <3> QED
        BY <2>1, <3>1, Elements
    <2> HIDE DEF at, d
    <2>4. CASE i \in Placeholders
      <3> DEFINE a == ArgOf(i)
      <3>1. WantedValue(i, e) = ValueToken(Value(a, e))
        BY <2>4 DEF WantedValue
      <3>2. /\ a \in DOMAIN args /\ asked[i] # Escape /\ ~IsName(asked[i])
            /\ asked[i] # Operator /\ asked[i] # Comment
        BY <2>4, PlaceholderTakes
      <3>3. CASE ~AnySlice
        <4>1. e = 1
          <5>1. args[a].length = 1
            BY <3>2, <3>3, Request DEF AnySlice
          <5>2. OutWidth[i] = 1
            BY <1>1, <2>4, <3>2, <5>1 DEF Width
          <5> QED
            BY <5>2
        <4>2. d = Numbered(a)
          <5>1. CASE asked[i] = Bind
            BY <2>1, <2>4, <3>3, <5>1, PlaceholderTakes DEF Bound
          <5>2. CASE asked[i] # Bind
            <6>1. asked[i] = Numbered(a)
              BY <2>4, <5>2, PlaceholderTakes
            <6>2. d = InToken(i, e)
              BY <2>1, <3>2, <5>2 DEF Bound, Named
            <6> QED
              BY <3>3, <6>1, <6>2, Widths DEF InToken
          <5> QED
            BY <5>1, <5>2
        <4>3. d.kind = "$" /\ d.n = a
          BY <4>2 DEF Numbered
        <4>4. a \in DOMAIN flat /\ flat[a] = Value(a, 1)
          BY <1>3, <3>2, <3>3
        <4> HIDE DEF a
        <4> QED
          BY <2>2, <3>1, <4>1, <4>3, <4>4 DEF at
      <3>4. CASE AnySlice
        <4>1. Expanded(i) /\ ArgIn(i) = a
          BY <2>4, <3>4, PlaceholderTakes
        <4>2. e \in 1..args[a].length
          BY <1>1, <2>4, <3>2 DEF Width
        <4> DEFINE x == meta[a].from + e - 1
        <4>3. d = Numbered(x)
          <5>1. d = InToken(i, e)
            BY <2>1, <3>2, <3>4 DEF Bound, Named
          <5>2. args[a].length \in Nat /\ e <= args[a].length
            BY <3>2, <4>2, Request
          <5> QED
            BY <4>1, <5>1, <5>2 DEF InToken
        <4>4. d.kind = "$" /\ d.n = x
          BY <4>3 DEF Numbered
        <4>5. flat[x] \in {Unset, Value(a, e)}
          BY <1>3, <3>2, <3>4, <4>2
        <4> HIDE DEF a, x
        <4>6. x \in DOMAIN flat /\ flat[x] # Unset
          BY <2>3, <3>4, <4>4 DEF Settled
        <4> QED
          BY <2>2, <3>1, <4>4, <4>5, <4>6 DEF at
      <3> QED
        BY <3>3, <3>4
    <2>5. CASE i \notin Placeholders /\ asked[i] = Escape
      <3>1. ~(asked[i] = Bind /\ ~AnySlice)
        BY <2>5 DEF Bind, Escape
      <3>2. d = Question
        BY <2>1, <2>5, <3>1 DEF Bound
      <3> QED
        BY <2>2, <2>5, <3>2 DEF Question, WantedValue, at
    <2>6. CASE i \notin Placeholders /\ asked[i] # Escape
      <3>1. asked[i].kind \notin {"?", "$"} /\ asked[i] \in Token
        BY <2>6, Request DEF Placeholders
      <3>2. asked[i] # Bind
        BY <3>1 DEF Bind
      <3>3. ~Expanded(i)
        <4>1. AnySlice => asked[i].kind # "?|"
          BY <3>1, TokenKinds DEF Clear
        <4> QED
          BY <3>1, <4>1 DEF Expanded
      <3>4. d = asked[i]
        BY <1>4, <2>1, <2>6, <3>2, <3>3 DEF Bound, Named, InToken
      <3> QED
        BY <2>2, <2>6, <3>1, <3>4 DEF WantedValue, at
    <2> QED
      BY <2>4, <2>5, <2>6 DEF at
  <1>5. ASSUME NEW i \in DOMAIN asked, NEW e \in 1..OutWidth[i], IsName(asked[i])
        PROVE  IsName(Sent[Total(OutWidth, i - 1) + e])
    BY <1>5, SentNames
  <1> QED
    BY <1>1, <1>2, <1>4, <1>5

\* The values of a call arrive where the caller put their placeholders, for
\* any text and any arguments (inbind.go 14-151, rebind.go 8-36).
THEOREM ValuesInPlaceHolds == Spec => []ValuesInPlace
  <1>1. Inv /\ Layout => ValuesInPlace
    BY ValuesArrive
  <1> QED
    BY <1>1, InvHolds, LayoutHolds, PTL

-----------------------------------------------------------------------------
(* The names.                                                              *)

LEMMA NamesStep ==
  ASSUME NEW text, NEW i \in Nat
  PROVE  /\ NamesUpTo(text, i) \in Nat /\ NamesUpTo(text, 0) = 0
         /\ NamesUpTo(text, i + 1) = NamesUpTo(text, i) + (IF IsName(text[i + 1]) THEN 1 ELSE 0)
  <1> DEFINE B == {k \in 1..i : IsName(text[k])}
             C == {k \in 1..(i + 1) : IsName(text[k])}
  <1>0. IsFiniteSet(1..i)
    BY FS_Interval
  <1>1. IsFiniteSet(B) /\ Cardinality(B) \in Nat
    <2>1. B \subseteq 1..i
      OBVIOUS
    <2> HIDE DEF B
    <2>2. IsFiniteSet(B)
      BY <1>0, <2>1, FS_Subset
    <2> QED
      BY <2>2, FS_CardinalityType
  <1>2. Cardinality(B) = NamesUpTo(text, i) /\ Cardinality(C) = NamesUpTo(text, i + 1)
    BY DEF NamesUpTo
  <1>3. NamesUpTo(text, 0) = 0
    <2>1. {k \in 1..0 : IsName(text[k])} = {}
      OBVIOUS
    <2> QED
      BY <2>1, FS_EmptySet DEF NamesUpTo
  <1>4. CASE IsName(text[i + 1])
    <2>1. C = B \cup {i + 1} /\ i + 1 \notin B
      BY <1>4
    <2> HIDE DEF B, C
    <2>2. Cardinality(C) = Cardinality(B) + 1
      BY <1>1, <2>1, FS_AddElement
    <2> QED
      BY <1>1, <1>2, <1>3, <1>4, <2>2
  <1>5. CASE ~IsName(text[i + 1])
    <2>1. C = B
      BY <1>5
    <2> HIDE DEF B, C
    <2> QED
      BY <1>1, <1>2, <1>3, <1>5, <2>1
  <1> QED
    BY <1>4, <1>5

LEMMA NamesGrow ==
  ASSUME NEW text, NEW i \in Nat, NEW k \in Nat, i <= k
  PROVE  NamesUpTo(text, i) <= NamesUpTo(text, k)
  <1> DEFINE B == {h \in 1..i : IsName(text[h])}
             C == {h \in 1..k : IsName(text[h])}
  <1>1. B \subseteq C /\ C \subseteq 1..k
    OBVIOUS
  <1>2. NamesUpTo(text, i) = Cardinality(B) /\ NamesUpTo(text, k) = Cardinality(C)
    BY DEF NamesUpTo
  <1>3. IsFiniteSet(1..k)
    BY FS_Interval
  <1> HIDE DEF B, C
  <1>4. IsFiniteSet(C)
    BY <1>1, <1>3, FS_Subset
  <1>5. Cardinality(B) <= Cardinality(C)
    BY <1>1, <1>4, FS_Subset
  <1> QED
    BY <1>2, <1>5

\* No two names have as many names before them.
LEMMA SameName ==
  ASSUME NEW text, NEW i \in Nat \ {0}, NEW k \in Nat \ {0}, IsName(text[i]), IsName(text[k]),
         NamesUpTo(text, i) = NamesUpTo(text, k)
  PROVE  i = k
  <1>1. ASSUME NEW a \in Nat \ {0}, NEW b \in Nat \ {0}, IsName(text[b]), a < b
        PROVE  NamesUpTo(text, a) # NamesUpTo(text, b)
    <2> DEFINE c == b - 1
    <2>1. c \in Nat /\ c + 1 = b /\ a <= c
      BY <1>1
    <2> HIDE DEF c
    <2>2. NamesUpTo(text, c + 1) = NamesUpTo(text, c) + 1 /\ NamesUpTo(text, c) \in Nat
      BY <1>1, <2>1, NamesStep
    <2>3. NamesUpTo(text, a) <= NamesUpTo(text, c)
      BY <2>1, NamesGrow
    <2>4. NamesUpTo(text, a) \in Nat
      BY NamesStep
    <2> QED
      BY <2>1, <2>2, <2>3, <2>4
  <1>2. ~(i < k)
    BY <1>1
  <1>3. ~(k < i)
    BY <1>1
  <1> QED
    BY <1>2, <1>3

\* The statement has as many names up to a token as the query up to the one
\* the token stands for.
LEMMA NamesCounted ==
  ASSUME Inv, Layout, stage = "ran"
  PROVE  \A i \in 0..Len(asked) : NamesUpTo(Sent, Total(OutWidth, i)) = NamesUpTo(asked, i)
  <1> DEFINE n == Len(asked)
             same(i) == NamesUpTo(Sent, Total(OutWidth, i)) = NamesUpTo(asked, i)
             T == {i \in 0..n : ~same(i)}
  <1>1. n \in Nat /\ DOMAIN asked = 1..n /\ OutWidth \in [1..n -> Nat]
    BY Request, Widths
  <1>2. same(0)
    <2>1. Total(OutWidth, 0) = 0
      BY <1>1, TotalSteps
    <2>2. NamesUpTo(Sent, 0) = 0
      BY NamesStep
    <2>3. NamesUpTo(asked, 0) = 0
      BY NamesStep
    <2> QED
      BY <2>1, <2>2, <2>3
  <1>3. ASSUME NEW i \in Nat, i + 1 <= n, same(i)
        PROVE  NamesUpTo(Sent, Total(OutWidth, i + 1)) = NamesUpTo(asked, i + 1)
    <2> DEFINE a == Total(OutWidth, i)
    <2>1. i \in 0..n /\ i + 1 \in 1..n /\ (i + 1) - 1 = i /\ i <= n
      BY <1>1, <1>3
    <2>2. a \in Nat
      BY <1>1, <2>1, TotalSteps
    <2>3. Total(OutWidth, i + 1) = a + OutWidth[i + 1] /\ OutWidth[i + 1] \in Nat
      <3>1. Total(OutWidth, i + 1) = Total(OutWidth, (i + 1) - 1) + OutWidth[i + 1]
        BY <1>1, <2>1, TotalSteps
      <3> QED
        BY <1>1, <2>1, <3>1
    <2>4. NamesUpTo(Sent, a) = NamesUpTo(asked, i)
      BY <1>3, <2>1
    <2>5. NamesUpTo(asked, i + 1) = NamesUpTo(asked, i) + (IF IsName(asked[i + 1]) THEN 1 ELSE 0)
      BY NamesStep
    <2>6. \A e \in 1..OutWidth[i + 1] : IsName(Sent[a + e]) <=> IsName(asked[i + 1])
      BY <1>1, <2>1, SentNames
    <2>7. CASE IsName(asked[i + 1])
      <3>1. OutWidth[i + 1] = 1
        <4>1. asked[i + 1] # Comment
          BY <2>7 DEF IsName, Comment
        <4> QED
          BY <1>1, <2>1, <2>7, <4>1, Widths
      <3>2. IsName(Sent[a + 1])
        BY <2>6, <2>7, <3>1
      <3> HIDE DEF a
      <3>3. NamesUpTo(Sent, a + 1) = NamesUpTo(Sent, a) + 1
        BY <2>2, <3>2, NamesStep
      <3> QED
        BY <2>3, <2>4, <2>5, <2>7, <3>1, <3>3
    <2>8. CASE ~IsName(asked[i + 1])
      <3> DEFINE w == OutWidth[i + 1]
      <3>1. w \in Nat /\ \A e \in 1..w : ~IsName(Sent[a + e])
        BY <2>3, <2>6, <2>8
      <3> HIDE DEF a, w
      <3>2. \A k \in 1..(a + w) : k \notin 1..a => k - a \in 1..w /\ a + (k - a) = k
        BY <2>2, <3>1
      <3>3. {k \in 1..a : IsName(Sent[k])} = {k \in 1..(a + w) : IsName(Sent[k])}
        <4>1. 1..a \subseteq 1..(a + w)
          BY <2>2, <3>1
        <4>2. \A k \in 1..(a + w) : k \notin 1..a => ~IsName(Sent[k])
          BY <3>1, <3>2
        <4> QED
          BY <4>1, <4>2
      <3>4. NamesUpTo(Sent, a + w) = NamesUpTo(Sent, a)
        BY <3>3 DEF NamesUpTo
      <3>5. NamesUpTo(asked, i) \in Nat
        BY NamesStep
      <3> QED
        BY <2>3, <2>4, <2>5, <2>8, <3>4, <3>5 DEF a, w
    <2> QED
      BY <2>7, <2>8
  <1>4. T = {}
    <2> SUFFICES ASSUME T # {} PROVE FALSE
      OBVIOUS
    <2> HIDE DEF same
    <2>1. PICK m \in T : \A k \in T : m <= k
      <3>1. T \in SUBSET Nat
        OBVIOUS
      <3> HIDE DEF T
      <3> QED
        BY <3>1, LeastOne
    <2> DEFINE i == m - 1
    <2>2. m \in 0..n /\ m # 0 /\ ~same(m)
      BY <1>2
    <2>3. i \in Nat /\ i + 1 = m /\ i + 1 <= n /\ i \in 0..n /\ ~(m <= i)
      BY <1>1, <2>2
    <2> HIDE DEF i
    <2>4. same(i)
      BY <2>1, <2>3
    <2>5. same(i + 1)
      BY <1>3, <2>3, <2>4 DEF same
    <2> QED
      BY <2>2, <2>3, <2>5
  <1> QED
    BY <1>4

LEMMA NamesArrive ==
  ASSUME Inv, Layout
  PROVE  NamesResolved
  <1> SUFFICES ASSUME stage = "ran", NoSchemas
               PROVE  /\ NamesUpTo(Sent, Len(Sent)) = NamesUpTo(asked, Len(asked))
                      /\ \A i \in DOMAIN asked, k \in DOMAIN Sent :
                            IsName(asked[i]) /\ IsName(Sent[k]) /\ NamesUpTo(asked, i) = NamesUpTo(Sent, k)
                                => Sent[k] = WantedName(asked[i])
    BY DEF NamesResolved
  <1> DEFINE n == Len(asked)
  <1>1. n \in Nat /\ DOMAIN asked = 1..n /\ OutWidth \in [1..n -> Nat]
    BY Request, Widths
  <1>2. Len(done) = Total(OutWidth, n) /\ Len(Sent) = Len(done) /\ DOMAIN Sent = 1..Len(done)
    <2>1. todo = <<>> /\ Len(todo) = 0 /\ Len(done) \in Nat
      BY SentTyped DEF Inv, TextIsSettled
    <2>2. Len(done) + Len(todo) = Total(OutWidth, n)
      BY DEF Layout, RebindLaid
    <2> QED
      BY <2>1, <2>2, SentTyped
  <1>3. NamesUpTo(Sent, Len(Sent)) = NamesUpTo(asked, n)
    BY <1>1, <1>2, NamesCounted
  <1>4. ASSUME NEW i \in DOMAIN asked, NEW k \in DOMAIN Sent, IsName(asked[i]), IsName(Sent[k]),
               NamesUpTo(asked, i) = NamesUpTo(Sent, k)
        PROVE  Sent[k] = WantedName(asked[i])
    <2>1. PICK h \in 1..n : \E e \in 1..OutWidth[h] : k = Total(OutWidth, h - 1) + e
      <3>1. k \in 1..Total(OutWidth, n)
        BY <1>2
      <3> QED
        BY <1>1, <3>1, PlaceFound
    <2>2. PICK e \in 1..OutWidth[h] : k = Total(OutWidth, h - 1) + e
      BY <2>1
    <2>3. /\ IsName(asked[h]) /\ OutWidth[h] = 1 /\ e = 1
          /\ Sent[k] = WantedName(asked[h])
      BY <1>1, <1>4, <2>2, SentNames
    <2>4. k = Total(OutWidth, h)
      <3>1. h - 1 \in 0..n
        BY <1>1
      <3>2. Total(OutWidth, h) = Total(OutWidth, h - 1) + OutWidth[h]
        BY <1>1, TotalSteps
      <3> QED
        BY <2>2, <2>3, <3>2
    <2>5. NamesUpTo(Sent, k) = NamesUpTo(asked, h)
      BY <1>1, <2>4, NamesCounted
    <2>6. h = i
      <3>1. h \in Nat \ {0} /\ i \in Nat \ {0}
        BY <1>1
      <3> QED
        BY <1>4, <2>3, <2>5, <3>1, SameName
    <2> QED
      BY <2>3, <2>6
  <1> QED
    BY <1>3, <1>4

\* A mention of a registered model becomes its table and a field a column of
\* the model mentioned first, wherever they stand (qreplace.go 15-70, qrepl.go
\* 9-36).
THEOREM NamesResolvedHolds == Spec => []NamesResolved
  <1>1. Inv /\ Layout => NamesResolved
    BY NamesArrive
  <1> QED
    BY <1>1, InvHolds, LayoutHolds, PTL
=============================================================================
