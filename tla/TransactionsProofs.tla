------------------------- MODULE TransactionsProofs -------------------------
(***************************************************************************)
(* Theorems about Transactions, for any number of goroutines, shards and   *)
(* connections, any pools and any nesting of calls.                        *)
(***************************************************************************)
EXTENDS Transactions, SequenceTheorems, TLAPS

(***************************************************************************)
(* A frame is pushed on, popped from and replaced at the head of a stack.  *)
(***************************************************************************)
LEMMA PushProperties ==
    ASSUME NEW S, NEW e \in S, NEW s \in Seq(S)
    PROVE  LET r == <<e>> \o s IN
           /\ r \in Seq(S)
           /\ Len(r) = Len(s) + 1
           /\ r # <<>>
           /\ r[1] = e
           /\ Head(r) = e
           /\ \A i \in 2 .. Len(r) : r[i] = s[i - 1]
  <1> DEFINE r == <<e>> \o s
  <1>1. <<e>> \in Seq(S) /\ Len(<<e>>) = 1 /\ <<e>>[1] = e
    OBVIOUS
  <1>2. /\ r \in Seq(S)
        /\ Len(r) = 1 + Len(s)
        /\ \A i \in 1 .. 1 + Len(s) :
               r[i] = IF i <= 1 THEN <<e>>[i] ELSE s[i - 1]
    BY <1>1, ConcatProperties
  <1>3. Len(s) \in Nat
    BY LenProperties
  <1>4. Len(r) = Len(s) + 1 /\ r[1] = e /\ r # <<>>
    BY <1>1, <1>2, <1>3
  <1>5. Head(r) = e
    BY <1>2, <1>4
  <1>6. \A i \in 2 .. Len(r) : r[i] = s[i - 1]
    BY <1>2, <1>3
  <1>. QED
    BY <1>2, <1>4, <1>5, <1>6

LEMMA PopProperties ==
    ASSUME NEW S, NEW s \in Seq(S), s # <<>>
    PROVE  /\ Len(s) \in Nat /\ Len(s) >= 1
           /\ Head(s) = s[1]
           /\ Head(s) \in S
           /\ Tail(s) \in Seq(S)
           /\ Len(Tail(s)) = Len(s) - 1
           /\ \A i \in 1 .. Len(Tail(s)) : Tail(s)[i] = s[i + 1]
           /\ Tail(s) = <<>> <=> Len(s) = 1
  <1>1. Len(s) \in Nat /\ Len(s) >= 1
    BY EmptySeq, LenProperties
  <1>2. /\ Head(s) \in S
        /\ Tail(s) \in Seq(S)
        /\ Len(Tail(s)) = Len(s) - 1
        /\ \A i \in 1 .. Len(Tail(s)) : Tail(s)[i] = s[i + 1]
    BY HeadTailProperties
  <1>3. Head(s) = s[1]
    OBVIOUS
  <1>4. Tail(s) = <<>> <=> Len(s) = 1
    <2> DEFINE t == Tail(s)
    <2>1. t \in Seq(S) /\ Len(t) = Len(s) - 1
      BY <1>2
    <2>2. t = <<>> => Len(t) = 0
      BY EmptySeq
    <2>3. t # <<>> => Len(t) # 0
      BY <2>1, EmptySeq
    <2>. HIDE DEF t
    <2>4. t = <<>> <=> Len(s) = 1
      BY <1>1, <2>1, <2>2, <2>3
    <2>. QED
      BY <2>4 DEF t
  <1>. QED
    BY <1>1, <1>2, <1>3, <1>4
-----------------------------------------------------------------------------
(***************************************************************************)
(* Types.  The type invariant is inductive together with the shape of the  *)
(* stacks: a goroutine is idle when its stack is empty, the outermost      *)
(* frame owns its transaction, so that no panic leaves an outermost call,  *)
(* and only the innermost frame can still lack a transaction.              *)
(***************************************************************************)
Shape ==
    \A p \in Procs :
        /\ pc[p] = "idle" <=> stack[p] = <<>>
        /\ stack[p] # <<>> => stack[p][Len(stack[p])].own
        /\ \A i \in 1 .. Len(stack[p]) :
               stack[p][i].tx = NoTx => i = 1 /\ pc[p] = "acquire"

Typed == TypeOK /\ Shape

LEMMA TopProperties ==
    ASSUME Typed, NEW p \in Procs, pc[p] # "idle"
    PROVE  /\ stack[p] \in Seq(Frame) /\ stack[p] # <<>>
           /\ Len(stack[p]) \in Nat /\ Len(stack[p]) >= 1
           /\ Top(p) \in Frame
           /\ Top(p) = stack[p][1]
           /\ Tail(stack[p]) \in Seq(Frame)
           /\ Len(Tail(stack[p])) = Len(stack[p]) - 1
           /\ \A i \in 1 .. Len(stack[p]) - 1 : Tail(stack[p])[i] = stack[p][i + 1]
           /\ Tail(stack[p]) = <<>> <=> Len(stack[p]) = 1
           /\ pc[p] # "acquire" => Top(p).tx \in Tx
  <1>1. stack[p] \in Seq(Frame) /\ stack[p] # <<>>
    BY DEF Typed, TypeOK, Shape
  <1>2. /\ Len(stack[p]) \in Nat /\ Len(stack[p]) >= 1
        /\ Top(p) \in Frame
        /\ Top(p) = stack[p][1]
    BY <1>1, PopProperties DEF Top
  <1>3. pc[p] # "acquire" => Top(p).tx \in Tx
    BY <1>2 DEF Typed, Shape, Frame
  <1>. QED
    BY <1>1, <1>2, <1>3, PopProperties DEF Top

LEMMA ContextsType ==
    ASSUME Typed, NEW p \in Procs, NEW c \in Contexts(p)
    PROVE  /\ c.shard \in Shards /\ c.tx \in Tx \cup {NoTx}
           /\ pc[p] = "idle" \/ (pc[p] = "run" /\ Top(p).fn = "WithTx")
           /\ pc[p] = "idle" => c.tx = NoTx
           /\ pc[p] # "idle" => c.shard = Top(p).shard /\ c.tx = Top(p).tx
  <1>1. CASE pc[p] = "idle"
    BY <1>1 DEF Contexts
  <1>2. CASE pc[p] # "idle"
    BY <1>2, TopProperties DEF Contexts, Frame
  <1>. QED
    BY <1>1, <1>2

LEMMA FreshCallType ==
    ASSUME TypeOK, NEW p \in Procs, NEW r \in {"none", "err", "panic"}, FreshCall(p, r)
    PROVE  /\ result' \in [Procs -> {"none", "ok", "err", "panic"}]
           /\ cancelled' \subseteq Procs
           /\ dirty' \in [Tx -> SUBSET Procs]
           /\ kept' \subseteq Procs
           /\ lost' \subseteq Procs
  <1>1. /\ result' = [result EXCEPT ![p] = r]
        /\ cancelled' = cancelled \ {p}
        /\ dirty' = [t \in Tx |-> dirty[t] \ {p}]
        /\ kept' = kept \ {p}
        /\ lost' = lost \ {p}
    BY DEF FreshCall
  <1>2. result' \in [Procs -> {"none", "ok", "err", "panic"}]
    BY <1>1 DEF TypeOK
  <1>3. dirty' \in [Tx -> SUBSET Procs]
    BY <1>1 DEF TypeOK
  <1>4. cancelled' \subseteq Procs /\ kept' \subseteq Procs /\ lost' \subseteq Procs
    BY <1>1 DEF TypeOK
  <1>. QED
    BY <1>2, <1>3, <1>4

LEMMA StartCallType ==
    ASSUME TypeOK, NEW p \in Procs, StartCall(p)
    PROVE  /\ result' \in [Procs -> {"none", "ok", "err", "panic"}]
           /\ cancelled' \subseteq Procs
           /\ dirty' \in [Tx -> SUBSET Procs]
           /\ kept' \subseteq Procs
           /\ lost' \subseteq Procs
  <1>1. CASE pc[p] = "idle"
    BY <1>1, FreshCallType DEF StartCall
  <1>2. CASE pc[p] # "idle"
    <2>1. UNCHANGED <<result, cancelled>> /\ UNCHANGED <<dirty, kept, lost>>
      BY <1>2 DEF StartCall, fateVars
    <2>. QED
      BY <2>1 DEF TypeOK
  <1>. QED
    BY <1>1, <1>2

LEMMA EnterTyped ==
    ASSUME Typed, NEW p \in Procs, NEW fn \in {"WithTx", "stmt", "replace", "walk"},
           NEW s \in Shards, NEW t \in Tx \cup {NoTx},
           pc[p] = "idle" => t = NoTx, pc[p] # "acquire",
           Enter(p, fn, s, t)
    PROVE  Typed'
  <1> DEFINE f == [fn |-> fn, shard |-> s, tx |-> t, own |-> t = NoTx]
  <1>1. f \in Frame
    BY DEF Frame
  <1>2. stack[p] \in Seq(Frame) /\ stack \in [Procs -> Seq(Frame)]
    BY DEF Typed, TypeOK
  <1>3. /\ stack' = [stack EXCEPT ![p] = <<f>> \o stack[p]]
        /\ f.own <=> t = NoTx
    BY DEF Enter
  <1>. HIDE DEF f
  <1>4. /\ stack'[p] \in Seq(Frame)
        /\ stack'[p] # <<>>
        /\ Len(stack'[p]) = Len(stack[p]) + 1
        /\ stack'[p][1] = f
        /\ \A i \in 2 .. Len(stack'[p]) : stack'[p][i] = stack[p][i - 1]
    BY <1>1, <1>2, <1>3, PushProperties
  <1>5. TypeOK'
    <2>1. stack' \in [Procs -> Seq(Frame)]
      BY <1>2, <1>3, <1>4
    <2>2. pc' \in [Procs -> PCs]
      BY DEF Enter, Typed, TypeOK, PCs
    <2>3. StartCall(p) /\ UNCHANGED <<status, path, cursors, conn>>
      BY DEF Enter, txVars
    <2>. QED
      BY <2>1, <2>2, <2>3, StartCallType DEF Typed, TypeOK
  <1>6. stack'[p][Len(stack'[p])].own
    <2>1. CASE stack[p] = <<>>
      <3>1. pc[p] = "idle" /\ Len(stack[p]) = 0
        BY <2>1, EmptySeq DEF Typed, Shape
      <3>. QED
        BY <1>3, <1>4, <3>1
    <2>2. CASE stack[p] # <<>>
      <3>1. stack[p][Len(stack[p])].own
        BY <2>2 DEF Typed, Shape
      <3>2. Len(stack[p]) \in Nat /\ Len(stack[p]) >= 1
        BY <1>2, <2>2, PopProperties
      <3>3. stack'[p][Len(stack'[p])] = stack[p][Len(stack[p])]
        BY <1>4, <3>2
      <3>. QED
        BY <3>1, <3>3
    <2>. QED
      BY <2>1, <2>2
  <1>7. pc'[p] # "idle"
    BY DEF Enter, Typed, TypeOK
  <1>8. ASSUME NEW q \in Procs, q # p
        PROVE  stack'[q] = stack[q] /\ pc'[q] = pc[q]
    BY <1>8 DEF Enter, Typed, TypeOK
  <1>9. ASSUME NEW i \in 1 .. Len(stack'[p]), stack'[p][i].tx = NoTx
        PROVE  i = 1 /\ pc'[p] = "acquire"
    <2>1. Len(stack[p]) \in Nat
      BY <1>2, LenProperties
    <2>2. pc[p] # "acquire"
      OBVIOUS
    <2>3. i = 1
      <3>1. SUFFICES ASSUME i # 1 PROVE FALSE
        OBVIOUS
      <3>2. i - 1 \in 1 .. Len(stack[p]) /\ stack'[p][i] = stack[p][i - 1]
        BY <1>4, <2>1, <3>1
      <3>. QED
        BY <1>9, <2>2, <3>2 DEF Typed, Shape
    <2>4. t = NoTx
      BY <1>4, <1>9, <2>3 DEF f
    <2>5. pc'[p] = "acquire"
      BY <2>4 DEF Enter, Typed, TypeOK
    <2>. QED
      BY <2>3, <2>5
  <1>10. Shape'
    BY <1>4, <1>6, <1>7, <1>8, <1>9 DEF Typed, Shape
  <1>. QED
    BY <1>5, <1>10 DEF Typed

LEMMA AfterType ==
    ASSUME NEW f, NEW r \in {"ok", "err", "panic"}
    PROVE  After(f, r) \in {"run", "fetch", "ok", "err", "panic"}
  BY DEF After

LEMMA LeaveTyped ==
    ASSUME Typed, NEW p \in Procs, pc[p] # "idle",
           NEW r \in {"ok", "err", "panic"}, r = "panic" => ~Top(p).own,
           Leave(p, r)
    PROVE  /\ Shape'
           /\ stack' \in [Procs -> Seq(Frame)]
           /\ pc' \in [Procs -> PCs]
           /\ result' \in [Procs -> {"none", "ok", "err", "panic"}]
           /\ cancelled' \subseteq Procs
  <1> DEFINE rest == Tail(stack[p])
  <1>1. /\ rest \in Seq(Frame)
        /\ Len(rest) = Len(stack[p]) - 1
        /\ Len(stack[p]) \in Nat /\ Len(stack[p]) >= 1
        /\ rest = <<>> <=> Len(stack[p]) = 1
        /\ rest # <<>> => rest[Len(rest)] = stack[p][Len(stack[p])]
        /\ \A i \in 1 .. Len(rest) : rest[i] = stack[p][i + 1]
        /\ Top(p) = stack[p][1]
        /\ stack[p] # <<>>
    BY TopProperties
  <1>2. /\ stack' = [stack EXCEPT ![p] = rest]
        /\ pc' = [pc EXCEPT ![p] =
                IF rest = <<>> THEN "idle" ELSE After(Head(rest), r)]
        /\ result' = [result EXCEPT ![p] = IF rest = <<>> THEN r ELSE @]
        /\ UNCHANGED cancelled
    BY DEF Leave
  <1>3. stack[p][Len(stack[p])].own
    BY <1>1 DEF Typed, Shape
  <1>4. rest = <<>> => r # "panic"
    BY <1>1, <1>3
  <1>. HIDE DEF rest
  <1>5. /\ stack \in [Procs -> Seq(Frame)] /\ pc \in [Procs -> PCs]
        /\ result \in [Procs -> {"none", "ok", "err", "panic"}] /\ cancelled \subseteq Procs
    BY DEF Typed, TypeOK
  <1>a. After(Head(rest), r) \in {"run", "fetch", "ok", "err", "panic"}
    BY AfterType
  <1>6. /\ stack' \in [Procs -> Seq(Frame)]
        /\ pc' \in [Procs -> PCs]
        /\ cancelled' \subseteq Procs
    BY <1>1, <1>2, <1>5, <1>a DEF PCs
  <1>7. result' \in [Procs -> {"none", "ok", "err", "panic"}]
    BY <1>2, <1>4, <1>5
  <1>8. ASSUME NEW q \in Procs
        PROVE  /\ pc'[q] = "idle" <=> stack'[q] = <<>>
               /\ stack'[q] # <<>> => stack'[q][Len(stack'[q])].own
               /\ \A i \in 1 .. Len(stack'[q]) :
                      stack'[q][i].tx = NoTx => i = 1 /\ pc'[q] = "acquire"
    <2>1. CASE q = p
      <3>1. stack'[p] = rest
        BY <1>2, <1>5
      <3>2. pc'[p] = "idle" <=> rest = <<>>
        BY <1>2, <1>5, <1>a
      <3>3. ASSUME NEW i \in 1 .. Len(rest), rest[i].tx = NoTx
            PROVE  FALSE
        <4>1. i + 1 \in 1 .. Len(stack[p]) /\ i + 1 # 1
          BY <1>1, <3>3
        <4>2. stack[p][i + 1].tx = NoTx
          BY <1>1, <3>3
        <4>3. \A k \in 1 .. Len(stack[p]) :
                  stack[p][k].tx = NoTx => k = 1 /\ pc[p] = "acquire"
          BY DEF Typed, Shape
        <4>. QED
          BY <4>1, <4>2, <4>3
      <3>. QED
        BY <1>1, <1>3, <2>1, <3>1, <3>2, <3>3
    <2>2. CASE q # p
      BY <1>2, <1>5, <2>2 DEF Typed, Shape
    <2>. QED
      BY <2>1, <2>2
  <1>9. Shape'
    BY <1>8 DEF Shape
  <1>. QED
    BY <1>6, <1>7, <1>9

LEMMA GotoTyped ==
    ASSUME Typed, NEW p \in Procs, pc[p] \notin {"idle", "acquire"},
           NEW l \in PCs \ {"idle"}, Goto(p, l)
    PROVE  /\ Shape'
           /\ stack' \in [Procs -> Seq(Frame)]
           /\ pc' \in [Procs -> PCs]
           /\ result' \in [Procs -> {"none", "ok", "err", "panic"}]
           /\ cancelled' \subseteq Procs
  BY DEF Typed, TypeOK, Shape, Goto

LEMMA EndTxTyped ==
    ASSUME TypeOK, NEW t \in Tx, NEW b \in BOOLEAN, EndTx(t, b)
    PROVE  /\ status' \in [Tx -> TxStates]
           /\ path' \subseteq Tx
           /\ cursors' \subseteq Tx
           /\ conn' \in [Conns -> Tx \cup {NoTx}]
           /\ dirty' \in [Tx -> SUBSET Procs]
           /\ kept' \subseteq Procs
           /\ lost' \subseteq Procs
  BY DEF TypeOK, EndTx, TxStates

LEMMA TypedInit == Init => Typed
  <1>. SUFFICES ASSUME Init PROVE Typed
    OBVIOUS
  <1>1. <<>> \in Seq(Frame)
    OBVIOUS
  <1>2. TypeOK
    <2>1. stack \in [Procs -> Seq(Frame)]
      BY <1>1 DEF Init
    <2>2. /\ pc \in [Procs -> PCs]
          /\ result \in [Procs -> {"none", "ok", "err", "panic"}]
          /\ cancelled \subseteq Procs
      BY DEF Init, PCs
    <2>3. /\ status \in [Tx -> TxStates]
          /\ path \subseteq Tx
          /\ cursors \subseteq Tx
          /\ conn \in [Conns -> Tx \cup {NoTx}]
      BY DEF Init, TxStates
    <2>4. dirty \in [Tx -> SUBSET Procs] /\ kept \subseteq Procs /\ lost \subseteq Procs
      BY DEF Init
    <2>. QED
      BY <2>1, <2>2, <2>3, <2>4 DEF TypeOK
  <1>3. ASSUME NEW p \in Procs
        PROVE  stack[p] = <<>> /\ pc[p] = "idle" /\ 1 .. Len(stack[p]) = {}
    <2>1. stack[p] = <<>> /\ pc[p] = "idle"
      BY DEF Init
    <2>2. Len(stack[p]) = 0
      BY <2>1, EmptySeq
    <2>. QED
      BY <2>1, <2>2
  <1>4. Shape
    BY <1>3 DEF Shape
  <1>. QED
    BY <1>2, <1>4 DEF Typed

LEMMA CallTyped ==
    ASSUME Typed, NEW p \in Procs, CallStep(p)
    PROVE  Typed'
  <1>1. CASE CallWithTx(p)
    <2>1. PICK c \in Contexts(p) : Enter(p, "WithTx", c.shard, c.tx)
      BY <1>1 DEF CallWithTx
    <2>. QED
      BY <2>1, ContextsType, EnterTyped
  <1>2. CASE CallWithTxInShard(p)
    <2>1. PICK c \in Contexts(p), s \in Shards :
              Enter(p, "WithTx", s, IF c.shard = s THEN c.tx ELSE NoTx)
      BY <1>2 DEF CallWithTxInShard
    <2>2. /\ (IF c.shard = s THEN c.tx ELSE NoTx) \in Tx \cup {NoTx}
          /\ pc[p] = "idle" => (IF c.shard = s THEN c.tx ELSE NoTx) = NoTx
          /\ pc[p] # "acquire"
      BY ContextsType
    <2>. QED
      BY <2>1, <2>2, EnterTyped
  <1>3. CASE CallShardWithTx(p)
    <2>1. PICK s \in Shards : Enter(p, "WithTx", s, NoTx)
      BY <1>3 DEF CallShardWithTx
    <2>2. PICK c \in Contexts(p) : TRUE
      BY <1>3 DEF CallShardWithTx
    <2>3. pc[p] # "acquire"
      BY <2>2, ContextsType
    <2>. QED
      BY <2>1, <2>3, EnterTyped
  <1>4. CASE CallStatement(p)
    <2>1. PICK c \in Contexts(p) : Enter(p, "stmt", c.shard, c.tx)
      BY <1>4 DEF CallStatement
    <2>. QED
      BY <2>1, ContextsType, EnterTyped
  <1>5. CASE CallReplace(p)
    <2>1. PICK c \in Contexts(p) : Enter(p, "replace", c.shard, c.tx)
      BY <1>5 DEF CallReplace
    <2>. QED
      BY <2>1, ContextsType, EnterTyped
  <1>6. CASE CallCursorWalk(p)
    <2>1. PICK c \in Contexts(p) : Enter(p, "walk", c.shard, c.tx)
      BY <1>6 DEF CallCursorWalk
    <2>. QED
      BY <2>1, ContextsType, EnterTyped
  <1>7. CASE RefuseCursorWalk(p)
    <2>1. PICK r \in {"err", "panic"} : FreshCall(p, r)
      BY <1>7 DEF RefuseCursorWalk
    <2>2. UNCHANGED <<stack, pc, status, path, cursors, conn>>
      BY <1>7 DEF RefuseCursorWalk, txVars
    <2>3. TypeOK'
      BY <2>1, <2>2, FreshCallType DEF Typed, TypeOK
    <2>4. Shape'
      BY <2>2 DEF Typed, Shape
    <2>. QED
      BY <2>3, <2>4 DEF Typed
  <1>. QED
    BY <1>1, <1>2, <1>3, <1>4, <1>5, <1>6, <1>7 DEF CallStep

LEMMA AcquireTyped ==
    ASSUME Typed, NEW p \in Procs, Acquire(p)
    PROVE  Typed'
  <1>1. PICK c \in Conns, t \in Tx \ Referenced :
            /\ ~Live(t)
            /\ conn' = [conn EXCEPT ![c] = t]
            /\ status' = [status EXCEPT ![t] = "open"]
            /\ stack' = [stack EXCEPT ![p] = <<[Top(p) EXCEPT !.tx = t]>> \o Tail(stack[p])]
    <2>1. pc[p] = "acquire"
      BY DEF Acquire
    <2>2. Top(p).shard \in Shards
      BY <2>1, TopProperties DEF Frame
    <2>3. FreeConns(Top(p).shard) \subseteq Conns
      BY <2>2, ConstantsAssumption DEF FreeConns
    <2>. QED
      BY <2>3 DEF Acquire
  <1>2. /\ pc[p] = "acquire" /\ pc' = [pc EXCEPT ![p] = "path"]
        /\ UNCHANGED <<result, cancelled, path, cursors>> /\ UNCHANGED <<dirty, kept, lost>>
    BY DEF Acquire, fateVars
  <1> DEFINE f == [Top(p) EXCEPT !.tx = t]
             rest == Tail(stack[p])
  <1>3. /\ f \in Frame /\ f.own = Top(p).own
        /\ rest \in Seq(Frame)
        /\ Top(p) = stack[p][1]
        /\ Len(stack[p]) \in Nat /\ Len(stack[p]) >= 1
        /\ Len(rest) = Len(stack[p]) - 1
        /\ \A i \in 1 .. Len(stack[p]) - 1 : rest[i] = stack[p][i + 1]
    <2>1. Top(p) \in Frame
      BY <1>2, TopProperties
    <2>2. f \in Frame /\ f.own = Top(p).own
      BY <1>2, <2>1 DEF Frame
    <2>. QED
      BY <1>2, <2>2, TopProperties
  <1>. HIDE DEF f, rest
  <1>4. stack' = [stack EXCEPT ![p] = <<f>> \o rest]
    BY <1>1 DEF f, rest
  <1>5. stack \in [Procs -> Seq(Frame)] /\ pc \in [Procs -> PCs]
    BY DEF Typed, TypeOK
  <1>6. /\ stack'[p] \in Seq(Frame)
        /\ Len(stack'[p]) = Len(rest) + 1
        /\ stack'[p] # <<>>
        /\ stack'[p][1] = f
        /\ \A i \in 2 .. Len(stack'[p]) : stack'[p][i] = rest[i - 1]
    BY <1>3, <1>4, <1>5, PushProperties
  <1>7. TypeOK'
    <2>1. stack' \in [Procs -> Seq(Frame)]
      BY <1>4, <1>5, <1>6
    <2>2. /\ pc' \in [Procs -> PCs] /\ status' \in [Tx -> TxStates]
          /\ conn' \in [Conns -> Tx \cup {NoTx}]
      BY <1>1, <1>2 DEF Typed, TypeOK, PCs, TxStates
    <2>. QED
      BY <1>2, <2>1, <2>2 DEF Typed, TypeOK
  <1>8. stack'[p][Len(stack'[p])].own
    <2>1. stack[p][Len(stack[p])].own
      BY <1>2, <1>5 DEF Typed, Shape
    <2>2. CASE Len(stack[p]) = 1
      BY <1>3, <1>6, <2>1, <2>2
    <2>3. CASE Len(stack[p]) # 1
      <3> DEFINE n == Len(stack[p])
      <3>0. n \in Nat /\ n >= 1 /\ n # 1
        BY <1>3, <2>3
      <3>. HIDE DEF n
      <3>a. n - 1 \in 1 .. n - 1
        BY <3>0
      <3>1. Len(stack[p]) - 1 \in 1 .. Len(stack[p]) - 1
        BY <3>a DEF n
      <3>2. /\ Len(stack'[p]) = Len(stack[p])
            /\ Len(stack[p]) \in 2 .. Len(stack'[p])
        BY <1>3, <1>6, <3>1
      <3>3. stack'[p][Len(stack[p])] = rest[Len(stack[p]) - 1]
        BY <1>6, <3>2
      <3>4. rest[Len(stack[p]) - 1] = stack[p][Len(stack[p])]
        BY <1>3, <3>1
      <3>. QED
        BY <2>1, <3>2, <3>3, <3>4
    <2>. QED
      BY <2>2, <2>3
  <1>9. ASSUME NEW i \in 1 .. Len(stack'[p])
        PROVE  stack'[p][i].tx # NoTx
    <2>1. CASE i = 1
      BY <1>1, <1>2, <1>6, <2>1, TopProperties, ConstantsAssumption DEF f, Frame
    <2>2. CASE i # 1
      <3>1. stack'[p][i] = stack[p][i] /\ i \in 1 .. Len(stack[p])
        BY <1>3, <1>6, <2>2
      <3>. QED
        BY <2>2, <3>1 DEF Typed, Shape
    <2>. QED
      BY <2>1, <2>2
  <1>10. Shape'
    BY <1>2, <1>4, <1>5, <1>6, <1>8, <1>9 DEF Typed, Shape
  <1>. QED
    BY <1>7, <1>10 DEF Typed

LEMMA WalkFailsTyped ==
    ASSUME Typed, NEW p \in Procs, pc[p] \in {"run", "fetch"}, WalkFails(p)
    PROVE  Typed'
  <1> DEFINE t == Top(p).tx
  <1>1. Goto(p, "err") \/ Goto(p, "panic")
    BY DEF WalkFails
  <1>2. t \in Tx
    BY TopProperties
  <1>3. /\ UNCHANGED <<path, cursors, conn>> /\ UNCHANGED <<dirty, kept, lost>>
        /\ status' = status \/ status' = [status EXCEPT ![t] = "aborted"]
    BY DEF WalkFails, txVars, fateVars
  <1>. HIDE DEF t
  <1>4. status' \in [Tx -> TxStates]
    BY <1>2, <1>3 DEF Typed, TypeOK, TxStates
  <1>. QED
    BY <1>1, <1>3, <1>4, GotoTyped DEF Typed, TypeOK, PCs

LEMMA StoreTyped ==
    ASSUME Typed, NEW p \in Procs, StoreStep(p) \/ ReturnFromCallback(p)
    PROVE  Typed'
  <1>. USE DEF PCs
  <1>1. CASE AcquireFails(p)
    <2>1. pc[p] # "idle" /\ Leave(p, "err")
      BY <1>1 DEF AcquireFails
    <2>2. UNCHANGED <<status, path, cursors, conn>> /\ UNCHANGED <<dirty, kept, lost>>
      BY <1>1 DEF AcquireFails, txVars, fateVars
    <2>. QED
      BY <2>1, <2>2, LeaveTyped DEF Typed, TypeOK
  <1>2. CASE SetSearchPath(p)
    <2> DEFINE t == Top(p).tx
    <2>1. pc[p] \in {"path", "run"} /\ (Goto(p, "run") \/ Goto(p, "err"))
      BY <1>2 DEF SetSearchPath
    <2>2. t \in Tx /\ status \in [Tx -> TxStates] /\ path \subseteq Tx
      BY <2>1, TopProperties DEF Typed, TypeOK
    <2>3. /\ status' = status \/ status' = [status EXCEPT ![t] = "aborted"]
          /\ path' = path \/ path' = path \cup {t}
      BY <1>2 DEF SetSearchPath
    <2>. HIDE DEF t
    <2>4. status' \in [Tx -> TxStates] /\ path' \subseteq Tx
      BY <2>2, <2>3 DEF TxStates
    <2>5. UNCHANGED <<cursors, conn>> /\ UNCHANGED <<dirty, kept, lost>>
      BY <1>2 DEF SetSearchPath, fateVars
    <2>. QED
      BY <2>1, <2>4, <2>5, GotoTyped DEF Typed, TypeOK
  <1>3. CASE RunStatement(p)
    <2> DEFINE t == Top(p).tx
    <2>1. pc[p] \in {"path", "run"} /\ (Goto(p, "ok") \/ Goto(p, "err") \/ Goto(p, "panic"))
      BY <1>3 DEF RunStatement
    <2>2. t \in Tx \cup {NoTx}
      BY <2>1, TopProperties DEF Frame
    <2>3. UNCHANGED <<path, cursors, conn, kept, lost>>
      BY <1>3 DEF RunStatement, txVars, fateVars
    <2>4. status' \in [Tx -> TxStates]
      BY <1>3, <2>2 DEF RunStatement, txVars, Typed, TypeOK, TxStates
    <2>5. dirty' \in [Tx -> SUBSET Procs]
      <3>1. dirty' = dirty \/ dirty' = [dirty EXCEPT ![t] = @ \cup {p}]
        BY <1>3 DEF RunStatement, fateVars
      <3>2. dirty \in [Tx -> SUBSET Procs]
        BY DEF Typed, TypeOK
      <3> HIDE DEF t
      <3>. QED
        BY <3>1, <3>2
    <2>. QED
      BY <2>1, <2>3, <2>4, <2>5, GotoTyped DEF Typed, TypeOK
  <1>4. CASE RunReplace(p)
    <2>1. pc[p] = "run" /\ Top(p) \in Frame
      BY <1>4, TopProperties DEF RunReplace
    <2>2. CASE Enter(p, "stmt", Top(p).shard, IF Top(p).own THEN NoTx ELSE Top(p).tx)
      <3>1. /\ Top(p).shard \in Shards
            /\ (IF Top(p).own THEN NoTx ELSE Top(p).tx) \in Tx \cup {NoTx}
        BY <2>1 DEF Frame
      <3>. QED
        BY <2>1, <2>2, <3>1, EnterTyped
    <2>3. CASE ~Enter(p, "stmt", Top(p).shard, IF Top(p).own THEN NoTx ELSE Top(p).tx)
      <3>1. /\ Goto(p, "err") \/ Goto(p, "panic")
            /\ UNCHANGED <<status, path, cursors, conn>> /\ UNCHANGED <<dirty, kept, lost>>
        BY <1>4, <2>3 DEF RunReplace, txVars, fateVars
      <3>. QED
        BY <2>1, <3>1, GotoTyped DEF Typed, TypeOK
    <2>. QED
      BY <2>2, <2>3
  <1>5. CASE LeaveJoined(p)
    <2>1. /\ pc[p] \in {"ok", "err", "panic"} /\ ~Top(p).own /\ Leave(p, pc[p])
          /\ UNCHANGED <<status, path, cursors, conn>> /\ UNCHANGED <<dirty, kept, lost>>
      BY <1>5 DEF LeaveJoined, Ended, txVars, fateVars
    <2>. QED
      BY <2>1, LeaveTyped DEF Typed, TypeOK
  <1>6. CASE Commit(p)
    <2>1. pc[p] # "idle" /\ (Leave(p, "ok") \/ Leave(p, "err"))
      BY <1>6 DEF Commit
    <2>2. CASE \E b \in BOOLEAN : status[Top(p).tx] \in LiveStates /\ EndTx(Top(p).tx, b)
      <3>1. Top(p).tx \in Tx
        BY <1>6, TopProperties DEF Commit
      <3>. QED
        BY <2>1, <2>2, <3>1, LeaveTyped, EndTxTyped DEF Typed, TypeOK
    <2>3. CASE UNCHANGED <<txVars, fateVars>>
      <3>1. UNCHANGED <<status, path, cursors, conn>> /\ UNCHANGED <<dirty, kept, lost>>
        BY <2>3 DEF txVars, fateVars
      <3>. QED
        BY <2>1, <3>1, LeaveTyped DEF Typed, TypeOK
    <2>. QED
      BY <1>6, <2>2, <2>3 DEF Commit, LiveStates
  <1>7. CASE Rollback(p)
    <2>1. pc[p] \in {"err", "panic"} /\ Leave(p, "err")
      BY <1>7 DEF Rollback
    <2>2. CASE Live(Top(p).tx)
      <3>1. Top(p).tx \in Tx /\ EndTx(Top(p).tx, FALSE)
        BY <1>7, <2>1, <2>2, TopProperties DEF Rollback
      <3>. QED
        BY <2>1, <3>1, LeaveTyped, EndTxTyped DEF Typed, TypeOK
    <2>3. CASE ~Live(Top(p).tx)
      <3>1. UNCHANGED <<status, path, cursors, conn>> /\ UNCHANGED <<dirty, kept, lost>>
        BY <1>7, <2>3 DEF Rollback, txVars, fateVars
      <3>. QED
        BY <2>1, <3>1, LeaveTyped DEF Typed, TypeOK
    <2>. QED
      BY <2>2, <2>3
  <1>8. CASE ReturnFromCallback(p)
    <2>1. /\ pc[p] = "run" /\ (Goto(p, "ok") \/ Goto(p, "err") \/ Goto(p, "panic"))
          /\ UNCHANGED <<status, path, cursors, conn>> /\ UNCHANGED <<dirty, kept, lost>>
      BY <1>8 DEF ReturnFromCallback, txVars, fateVars
    <2>. QED
      BY <2>1, GotoTyped DEF Typed, TypeOK
  <1>9. CASE DeclareCursor(p)
    <2>1. pc[p] = "run"
      BY <1>9 DEF DeclareCursor
    <2>2. CASE WalkFails(p)
      BY <2>1, <2>2, WalkFailsTyped
    <2>3. CASE ~WalkFails(p)
      <3>1. /\ Goto(p, "fetch")
            /\ cursors' = cursors \cup {Top(p).tx}
            /\ UNCHANGED <<status, path, conn>> /\ UNCHANGED <<dirty, kept, lost>>
        BY <1>9, <2>3 DEF DeclareCursor, fateVars
      <3>2. Top(p).tx \in Tx
        BY <2>1, TopProperties
      <3>. QED
        BY <2>1, <3>1, <3>2, GotoTyped DEF Typed, TypeOK
    <2>. QED
      BY <2>2, <2>3
  <1>10. CASE FetchRows(p)
    <2>1. pc[p] = "fetch" /\ Top(p).shard \in Shards /\ Top(p).tx \in Tx
      BY <1>10, TopProperties DEF FetchRows, Frame
    <2>2. CASE WalkFails(p)
      BY <2>1, <2>2, WalkFailsTyped
    <2>3. CASE Enter(p, "WithTx", Top(p).shard, Top(p).tx)
      BY <2>1, <2>3, EnterTyped
    <2>. QED
      BY <1>10, <2>2, <2>3 DEF FetchRows
  <1>11. CASE FetchNothing(p)
    <2>1. /\ pc[p] = "fetch" /\ Goto(p, "ok")
          /\ UNCHANGED <<status, path, cursors, conn>> /\ UNCHANGED <<dirty, kept, lost>>
      BY <1>11 DEF FetchNothing, txVars, fateVars
    <2>. QED
      BY <2>1, GotoTyped DEF Typed, TypeOK
  <1>. QED
    BY <1>1, <1>2, <1>3, <1>4, <1>5, <1>6, <1>7, <1>8, <1>9, <1>10, <1>11 DEF StoreStep

LEMMA TypedStep == Typed /\ [Next]_vars => Typed'
  <1>. SUFFICES ASSUME Typed, [Next]_vars PROVE Typed'
    OBVIOUS
  <1>1. ASSUME NEW p \in Procs, CallStep(p)
        PROVE  Typed'
    BY <1>1, CallTyped
  <1>2. ASSUME NEW p \in Procs, Acquire(p)
        PROVE  Typed'
    BY <1>2, AcquireTyped
  <1>3. ASSUME NEW p \in Procs, StoreStep(p) \/ ReturnFromCallback(p)
        PROVE  Typed'
    BY <1>3, StoreTyped
  <1>4. ASSUME NEW p \in Procs, Cancel(p)
        PROVE  Typed'
    <2>1. UNCHANGED <<stack, pc, result, path, cursors, conn>> /\ UNCHANGED <<dirty, kept, lost>>
      BY <1>4 DEF Cancel, fateVars
    <2>2. cancelled' \subseteq Procs /\ status' \in [Tx -> TxStates]
      BY <1>4 DEF Cancel, Typed, TypeOK, TxStates
    <2>. QED
      BY <2>1, <2>2 DEF Typed, TypeOK, Shape
  <1>5. ASSUME NEW t \in Tx, RollbackDoomed(t)
        PROVE  Typed'
    <2>1. EndTx(t, FALSE) /\ UNCHANGED <<stack, pc, result, cancelled>>
      BY <1>5 DEF RollbackDoomed, callVars
    <2>. QED
      BY <2>1, EndTxTyped DEF Typed, TypeOK, Shape
  <1>6. CASE UNCHANGED vars
    <2>1. UNCHANGED <<stack, pc, result, cancelled>> /\ UNCHANGED <<status, path, cursors, conn>>
      BY <1>6 DEF vars, callVars, txVars
    <2>2. UNCHANGED <<dirty, kept, lost>>
      BY <1>6 DEF vars, fateVars
    <2>. QED
      BY <2>1, <2>2 DEF Typed, TypeOK, Shape
  <1>. QED
    BY <1>1, <1>2, <1>3, <1>4, <1>5, <1>6 DEF Next

(***************************************************************************)
(* Every variable keeps its type, and every call chain its shape: at the   *)
(* bottom is a WithBeginTx, which recovers panics (pgparty.go:144).        *)
(***************************************************************************)
THEOREM TypeCorrect == Spec => []Typed
  BY TypedInit, TypedStep, PTL DEF Spec
-----------------------------------------------------------------------------
(***************************************************************************)
(* Chains.  How each kind of step changes the stack of the goroutine that  *)
(* takes it, when no call begins a second transaction.                     *)
(***************************************************************************)
LEMMA HeldTxType ==
    ASSUME Typed, NEW p \in Procs
    PROVE  /\ HeldTx(p) \in Tx \cup {NoTx}
           /\ pc[p] = "idle" => HeldTx(p) = NoTx
           /\ pc[p] # "idle" => HeldTx(p) = Top(p).tx
           /\ pc[p] \notin {"idle", "acquire"} => HeldTx(p) \in Tx
  <1>1. CASE pc[p] = "idle"
    BY <1>1 DEF Typed, Shape, HeldTx
  <1>2. CASE pc[p] # "idle"
    BY <1>2, TopProperties DEF HeldTx, Frame
  <1>. QED
    BY <1>1, <1>2

LEMMA ChainEnter ==
    ASSUME Typed, ChainInv,
           NEW p \in Procs, NEW fn \in {"WithTx", "stmt", "replace", "walk"},
           NEW s \in Shards, NEW t \in Tx \cup {NoTx},
           pc[p] \in {"idle", "run", "fetch"}, t = HeldTx(p),
           pc[p] = "idle" => fn \notin {"replace", "walk"},
           Enter(p, fn, s, t)
    PROVE  /\ ChainInv'
           /\ \A q \in Procs : HeldTx(q)' = HeldTx(q)
           /\ pc'[p] # "idle"
           /\ \A q \in Procs \ {p} : pc'[q] = pc[q]
  <1> DEFINE f == [fn |-> fn, shard |-> s, tx |-> t, own |-> t = NoTx]
  <1>1. /\ f \in Frame /\ f.tx = t /\ f.fn = fn /\ (f.own <=> t = NoTx)
        /\ stack' = [stack EXCEPT ![p] = <<f>> \o stack[p]]
        /\ pc' = [pc EXCEPT ![p] = IF t = NoTx THEN "acquire" ELSE "run"]
        /\ stack \in [Procs -> Seq(Frame)] /\ pc \in [Procs -> PCs]
    BY DEF Enter, Frame, Typed, TypeOK
  <1>. HIDE DEF f
  <1>2. /\ stack'[p] \in Seq(Frame)
        /\ stack'[p] # <<>>
        /\ Len(stack'[p]) = Len(stack[p]) + 1
        /\ stack'[p][1] = f
        /\ Head(stack'[p]) = f
        /\ \A i \in 2 .. Len(stack'[p]) : stack'[p][i] = stack[p][i - 1]
        /\ Len(stack[p]) \in Nat
    BY <1>1, PushProperties, LenProperties
  <1>3. HeldTx(p)' = t
    BY <1>1, <1>2 DEF HeldTx, Top
  <1>4. ASSUME NEW q \in Procs \ {p}
        PROVE  stack'[q] = stack[q] /\ pc'[q] = pc[q] /\ HeldTx(q)' = HeldTx(q)
    BY <1>1 DEF HeldTx, Top
  <1>5. t = NoTx => Len(stack[p]) = 0 /\ fn # "replace"
    <2>. SUFFICES ASSUME t = NoTx PROVE Len(stack[p]) = 0 /\ fn # "replace"
      OBVIOUS
    <2>1. pc[p] = "idle"
      BY HeldTxType, ConstantsAssumption
    <2>. QED
      BY <2>1, EmptySeq DEF Typed, Shape
  <1>6. ASSUME NEW i \in 1 .. Len(stack'[p])
        PROVE  /\ stack'[p][i].own => i = Len(stack'[p]) /\ stack'[p][i].fn # "replace"
               /\ stack'[p][i].tx = t
    <2>1. CASE i = 1
      BY <1>1, <1>2, <1>5, <2>1
    <2>2. CASE i # 1
      <3>1. i - 1 \in 1 .. Len(stack[p]) /\ stack'[p][i] = stack[p][i - 1]
        BY <1>2, <2>2
      <3>2. /\ stack[p][i - 1].own =>
                    i - 1 = Len(stack[p]) /\ stack[p][i - 1].fn # "replace"
            /\ stack[p][i - 1].tx = t
        BY <3>1 DEF ChainInv
      <3>. QED
        BY <1>2, <3>1, <3>2
    <2>. QED
      BY <2>1, <2>2
  <1>7. pc'[p] = "acquire" => HeldTx(p)' = NoTx
    BY <1>1, <1>3
  <1>8. ASSUME NEW q \in Procs \ {p}
        PROVE  /\ \A i \in 1 .. Len(stack'[q]) :
                      /\ stack'[q][i].own => i = Len(stack'[q]) /\ stack'[q][i].fn # "replace"
                      /\ stack'[q][i].tx = HeldTx(q)'
               /\ pc'[q] = "acquire" => HeldTx(q)' = NoTx
    BY <1>4 DEF ChainInv
  <1>9. ChainInv'
    BY <1>3, <1>6, <1>7, <1>8 DEF ChainInv
  <1>. QED
    BY <1>1, <1>3, <1>4, <1>9

LEMMA ChainLeave ==
    ASSUME Typed, ChainInv, NEW p \in Procs, pc[p] # "idle",
           NEW r \in {"ok", "err", "panic"}, Leave(p, r)
    PROVE  /\ ChainInv'
           /\ \A q \in Procs \ {p} : /\ HeldTx(q)' = HeldTx(q)
                                     /\ pc'[q] = pc[q] /\ result'[q] = result[q]
           /\ IF Top(p).own
              THEN pc'[p] = "idle" /\ HeldTx(p)' = NoTx /\ result'[p] = r
              ELSE pc'[p] # "idle" /\ HeldTx(p)' = HeldTx(p) /\ result'[p] = result[p]
  <1> DEFINE rest == Tail(stack[p])
  <1>1. /\ stack' = [stack EXCEPT ![p] = rest]
        /\ pc' = [pc EXCEPT ![p] =
                IF rest = <<>> THEN "idle" ELSE After(Head(rest), r)]
        /\ result' = [result EXCEPT ![p] = IF rest = <<>> THEN r ELSE @]
        /\ stack \in [Procs -> Seq(Frame)] /\ pc \in [Procs -> PCs]
        /\ result \in [Procs -> {"none", "ok", "err", "panic"}]
    BY DEF Leave, Typed, TypeOK
  <1>2. /\ rest \in Seq(Frame)
        /\ Len(rest) = Len(stack[p]) - 1
        /\ Len(stack[p]) \in Nat /\ Len(stack[p]) >= 1
        /\ rest = <<>> <=> Len(stack[p]) = 1
        /\ \A i \in 1 .. Len(rest) : rest[i] = stack[p][i + 1]
        /\ Top(p) = stack[p][1]
        /\ stack[p] # <<>>
        /\ stack[p][Len(stack[p])].own
    BY TopProperties DEF Typed, Shape
  <1>. HIDE DEF rest
  <1>3. Top(p).own <=> rest = <<>>
    BY <1>2 DEF ChainInv
  <1>4. rest # <<>> => Head(rest) = rest[1] /\ 1 \in 1 .. Len(rest)
    BY <1>2, PopProperties
  <1>5. stack'[p] = rest
    BY <1>1
  <1>6. HeldTx(p)' = IF rest = <<>> THEN NoTx ELSE HeldTx(p)
    <2>1. CASE rest = <<>>
      BY <1>5, <2>1 DEF HeldTx
    <2>2. CASE rest # <<>>
      <3>1. Head(rest) = stack[p][2] /\ 2 \in 1 .. Len(stack[p])
        BY <1>2, <1>4, <2>2
      <3>2. HeldTx(p)' = Head(rest).tx
        BY <1>5, <2>2 DEF HeldTx, Top
      <3>. QED
        BY <2>2, <3>1, <3>2 DEF ChainInv
    <2>. QED
      BY <2>1, <2>2
  <1>7. ASSUME NEW q \in Procs \ {p}
        PROVE  /\ stack'[q] = stack[q] /\ pc'[q] = pc[q] /\ HeldTx(q)' = HeldTx(q)
               /\ result'[q] = result[q]
    BY <1>1 DEF HeldTx, Top
  <1>8. ASSUME NEW i \in 1 .. Len(stack'[p])
        PROVE  /\ stack'[p][i].own => i = Len(stack'[p]) /\ stack'[p][i].fn # "replace"
               /\ stack'[p][i].tx = HeldTx(p)'
    <2>1. /\ i + 1 \in 1 .. Len(stack[p]) /\ stack'[p][i] = stack[p][i + 1]
          /\ rest # <<>> /\ i \in Nat
      BY <1>2, <1>5
    <2>2. /\ stack[p][i + 1].own =>
                    i + 1 = Len(stack[p]) /\ stack[p][i + 1].fn # "replace"
          /\ stack[p][i + 1].tx = HeldTx(p)
      BY <2>1 DEF ChainInv
    <2>. QED
      BY <1>2, <1>5, <1>6, <2>1, <2>2
  <1>9. pc'[p] # "acquire" /\ (pc'[p] = "idle" <=> rest = <<>>)
    BY <1>1, AfterType
  <1>10. ChainInv'
    BY <1>7, <1>8, <1>9 DEF ChainInv
  <1>11. result'[p] = IF rest = <<>> THEN r ELSE result[p]
    BY <1>1
  <1>. QED
    BY <1>3, <1>6, <1>7, <1>9, <1>10, <1>11

LEMMA ChainGoto ==
    ASSUME Typed, ChainInv, NEW p \in Procs, NEW l \in PCs \ {"idle", "acquire"},
           pc[p] # "idle", Goto(p, l)
    PROVE  /\ ChainInv'
           /\ \A q \in Procs : HeldTx(q)' = HeldTx(q) /\ result'[q] = result[q]
           /\ \A q \in Procs : pc'[q] = "idle" <=> pc[q] = "idle"
  <1>1. /\ pc' = [pc EXCEPT ![p] = l] /\ UNCHANGED <<stack, result>>
        /\ pc \in [Procs -> PCs]
    BY DEF Goto, Typed, TypeOK
  <1>2. \A q \in Procs : HeldTx(q)' = HeldTx(q)
    BY <1>1 DEF HeldTx, Top
  <1>. QED
    BY <1>1, <1>2 DEF ChainInv

LEMMA ChainAcquire ==
    ASSUME Typed, ChainInv, NEW p \in Procs, Acquire(p)
    PROVE  /\ ChainInv'
           /\ pc[p] = "acquire"
           /\ \A q \in Procs : (HeldTx(q)' = HeldTx(q) \/ q = p)
                              /\ (pc'[q] = "idle" <=> pc[q] = "idle")
           /\ \E c \in Conns, t \in Tx \ Referenced :
                /\ conn[c] = NoTx /\ conn' = [conn EXCEPT ![c] = t]
                /\ ~Live(t) /\ status' = [status EXCEPT ![t] = "open"]
                /\ HeldTx(p)' = t
  <1>0. PICK c \in Conns, t \in Tx \ Referenced :
            /\ ~Live(t)
            /\ conn[c] = NoTx
            /\ conn' = [conn EXCEPT ![c] = t]
            /\ status' = [status EXCEPT ![t] = "open"]
            /\ stack' = [stack EXCEPT ![p] = <<[Top(p) EXCEPT !.tx = t]>> \o Tail(stack[p])]
    <2>1. pc[p] = "acquire"
      BY DEF Acquire
    <2>2. Top(p).shard \in Shards
      BY <2>1, TopProperties DEF Frame
    <2>3. FreeConns(Top(p).shard) \subseteq {c \in Conns : conn[c] = NoTx}
      BY <2>2, ConstantsAssumption DEF FreeConns
    <2>. QED
      BY <2>3 DEF Acquire
  <1>a. pc[p] = "acquire" /\ pc' = [pc EXCEPT ![p] = "path"]
    BY DEF Acquire
  <1> DEFINE f == [Top(p) EXCEPT !.tx = t]
             rest == Tail(stack[p])
  <1>1. /\ f \in Frame /\ f.own = Top(p).own /\ f.tx = t /\ f.fn = Top(p).fn
        /\ rest \in Seq(Frame)
        /\ Top(p) = stack[p][1]
        /\ Len(stack[p]) \in Nat /\ Len(stack[p]) >= 1
        /\ Len(rest) = Len(stack[p]) - 1
        /\ Tail(stack[p]) = <<>> <=> Len(stack[p]) = 1
    BY <1>a, TopProperties DEF Frame
  <1>2. Len(stack[p]) = 1
    <2>1. stack[p][Len(stack[p])].tx = NoTx
      BY <1>1, <1>a DEF ChainInv
    <2>. QED
      BY <1>1, <2>1 DEF Typed, Shape
  <1>3. /\ stack' = [stack EXCEPT ![p] = <<f>> \o rest]
        /\ pc' = [pc EXCEPT ![p] = "path"]
        /\ stack \in [Procs -> Seq(Frame)] /\ pc \in [Procs -> PCs]
    BY <1>0, <1>a DEF Typed, TypeOK
  <1>. HIDE DEF f
  <1>4. /\ stack'[p] # <<>> /\ Len(stack'[p]) = 1 /\ stack'[p][1] = f
        /\ Head(stack'[p]) = f
    <2>. HIDE DEF rest
    <2>. QED
      BY <1>1, <1>2, <1>3, PushProperties
  <1>5. HeldTx(p)' = t
    BY <1>1, <1>4 DEF HeldTx, Top
  <1>6. ASSUME NEW q \in Procs \ {p}
        PROVE  stack'[q] = stack[q] /\ pc'[q] = pc[q] /\ HeldTx(q)' = HeldTx(q)
    BY <1>3 DEF HeldTx, Top
  <1>7. stack[p][1].own => stack[p][1].fn # "replace"
    BY <1>1 DEF ChainInv
  <1>8. ASSUME NEW i \in 1 .. Len(stack'[p])
        PROVE  /\ stack'[p][i].own => i = Len(stack'[p]) /\ stack'[p][i].fn # "replace"
               /\ stack'[p][i].tx = HeldTx(p)'
    <2>0. Len(stack'[p]) = 1
      BY <1>4
    <2>1. i = 1 /\ i = Len(stack'[p])
      BY <2>0
    <2>2. stack'[p][i] = f
      BY <1>4, <2>1
    <2>3. f.own => f.fn # "replace"
      BY <1>1, <1>7
    <2>. QED
      BY <1>1, <1>5, <2>1, <2>2, <2>3
  <1>9. pc'[p] = "path"
    BY <1>3
  <1>10. ChainInv'
    BY <1>6, <1>8, <1>9 DEF ChainInv
  <1>. QED
    BY <1>0, <1>3, <1>5, <1>6, <1>10, <1>a
-----------------------------------------------------------------------------
(***************************************************************************)
(* Transactions and writes.  The kinds of step there are, for the part of  *)
(* the invariant that relates goroutines, transactions and writes.         *)
(***************************************************************************)
TxInv == HolderInv /\ FateInv

\* Calls go on; transactions only get worse.
LEMMA QuietStep ==
    ASSUME Typed, TxInv,
           \A q \in Procs : /\ HeldTx(q)' = HeldTx(q)
                            /\ pc'[q] = "idle" <=> pc[q] = "idle"
                            /\ result'[q] = result[q],
           \A t \in Tx : /\ Live(t)' <=> Live(t)
                         /\ status[t] = "doomed" => status'[t] = "doomed",
           UNCHANGED <<conn, dirty, kept, lost>>
    PROVE  TxInv'
  <1>1. \A q \in Procs : HeldTx(q) \in Tx \cup {NoTx}
    BY HeldTxType
  <1>2. conn \in [Conns -> Tx \cup {NoTx}]
    BY DEF Typed, TypeOK
  <1>3. HolderInv'
    BY <1>2 DEF TxInv, HolderInv
  <1>4. FateInv'
    BY <1>1 DEF TxInv, FateInv
  <1>. QED
    BY <1>3, <1>4 DEF TxInv

\* An outermost call starts, or is refused at once.
LEMMA StartStep ==
    ASSUME Typed, TxInv, NEW p \in Procs, pc[p] = "idle",
           NEW r \in {"none", "err", "panic"}, FreshCall(p, r),
           \A q \in Procs : HeldTx(q)' = HeldTx(q),
           pc'[p] # "idle" => r = "none", \A q \in Procs \ {p} : pc'[q] = pc[q],
           UNCHANGED <<status, conn>>
    PROVE  TxInv'
  <1>1. /\ result' = [result EXCEPT ![p] = r]
        /\ dirty' = [t \in Tx |-> dirty[t] \ {p}]
        /\ kept' = kept \ {p}
        /\ lost' = lost \ {p}
        /\ result \in [Procs -> {"none", "ok", "err", "panic"}]
    BY DEF FreshCall, Typed, TypeOK
  <1>2. \A t \in Tx : (Live(t)' <=> Live(t)) /\ status'[t] = status[t]
    BY DEF Live
  <1>3. \A q \in Procs : HeldTx(q) \in Tx \cup {NoTx}
    BY HeldTxType
  <1>4. conn \in [Conns -> Tx \cup {NoTx}]
    BY DEF Typed, TypeOK
  <1>5. HolderInv'
    BY <1>2, <1>4 DEF TxInv, HolderInv
  <1>6. \A q \in Procs : /\ q # p => result'[q] = result[q]
                         /\ \A t \in Tx : q \in dirty'[t] <=> q \in dirty[t] /\ q # p
                         /\ q \in kept' <=> q \in kept /\ q # p
                         /\ q \in lost' <=> q \in lost /\ q # p
    BY <1>1
  <1>7. result'[p] = r
    BY <1>1
  <1>8. FateInv'
    BY <1>2, <1>3, <1>6, <1>7 DEF TxInv, FateInv
  <1>. QED
    BY <1>5, <1>8 DEF TxInv

\* A transaction begins on a free connection.
LEMMA AcquireStep ==
    ASSUME Typed, TxInv, ChainInv, NEW p \in Procs, Acquire(p)
    PROVE  TxInv'
  <1>1. /\ pc[p] = "acquire"
        /\ \A q \in Procs : /\ HeldTx(q)' = HeldTx(q) \/ q = p
                            /\ pc'[q] = "idle" <=> pc[q] = "idle"
    BY ChainAcquire
  <1>2. PICK c \in Conns, t \in Tx \ Referenced :
            /\ conn[c] = NoTx /\ conn' = [conn EXCEPT ![c] = t]
            /\ ~Live(t) /\ status' = [status EXCEPT ![t] = "open"]
            /\ HeldTx(p)' = t
    BY ChainAcquire
  <1>3. UNCHANGED result /\ UNCHANGED <<dirty, kept, lost>>
    BY DEF Acquire, fateVars
  <1>4. \A q \in Procs : HeldTx(q) # t
    <2>. SUFFICES ASSUME NEW q \in Procs, HeldTx(q) = t PROVE FALSE
      OBVIOUS
    <2>1. pc[q] # "idle"
      BY HeldTxType, ConstantsAssumption
    <2>2. Top(q) = stack[q][1] /\ 1 \in 1 .. Len(stack[q]) /\ HeldTx(q) = Top(q).tx
      BY <2>1, TopProperties, HeldTxType
    <2>3. Top(q) \in FramesOf(q)
      BY <2>2 DEF FramesOf
    <2>4. t \in Referenced
      BY <2>2, <2>3 DEF Referenced
    <2>. QED
      BY <2>4
  <1>5. /\ \A u \in Tx : u # t => status'[u] = status[u]
        /\ status'[t] = "open"
        /\ conn'[c] = t /\ \A d \in Conns : d # c => conn'[d] = conn[d]
        /\ conn \in [Conns -> Tx \cup {NoTx}]
    BY <1>2 DEF Typed, TypeOK
  <1>6. /\ \A u \in Tx : u # t => (Live(u)' <=> Live(u))
        /\ Live(t)'
    BY <1>5 DEF Live, LiveStates
  <1>7. \A d \in Conns : conn[d] # t
    BY <1>2, ConstantsAssumption DEF TxInv, HolderInv
  <1>8. \A q \in Procs : HeldTx(q) \in Tx \cup {NoTx}
    BY HeldTxType
  <1>9. HeldTx(p) = NoTx
    BY <1>1 DEF ChainInv
  <1>10. HolderInv'
    <2>1. \A q, r \in Procs : HeldTx(q)' = HeldTx(r)' => q = r \/ HeldTx(q)' = NoTx
      BY <1>1, <1>2, <1>4 DEF TxInv, HolderInv
    <2>2. \A d \in Conns : conn'[d] # NoTx => Live(conn[d])'
      BY <1>5, <1>6, <1>7 DEF TxInv, HolderInv
    <2>3. ASSUME NEW u \in Tx, Live(u)'
          PROVE  /\ \E e \in Conns : \A d \in Conns : conn'[d] = u <=> d = e
                 /\ status'[u] = "doomed" \/ \E q \in Procs : HeldTx(q)' = u
      <3>1. CASE u = t
        BY <1>2, <1>5, <1>7, <3>1
      <3>2. CASE u # t
        <4>1. Live(u) /\ status'[u] = status[u]
          BY <1>5, <1>6, <2>3, <3>2
        <4>2. PICK e \in Conns : \A d \in Conns : conn[d] = u <=> d = e
          BY <4>1 DEF TxInv, HolderInv
        <4>3. \A d \in Conns : conn'[d] = u <=> d = e
          BY <1>2, <1>5, <3>2, <4>2, ConstantsAssumption
        <4>4. status[u] = "doomed" \/ \E q \in Procs : HeldTx(q)' = u
          BY <1>1, <1>9, <4>1, ConstantsAssumption DEF TxInv, HolderInv
        <4>. QED
          BY <4>1, <4>3, <4>4
      <3>. QED
        BY <3>1, <3>2
    <2>. QED
      BY <2>1, <2>2, <2>3 DEF HolderInv
  <1>11. FateInv'
    <2>1. \A q \in Procs : q \notin dirty[t]
      BY <1>2 DEF TxInv, FateInv
    <2>2. \A u \in Tx : p \notin dirty[u]
      BY <1>1, <1>9, ConstantsAssumption DEF TxInv, FateInv
    <2>3. p \notin lost /\ p \notin kept
      BY <1>1, <1>9 DEF TxInv, FateInv
    <2>4. ASSUME NEW q \in Procs, q # p
          PROVE  /\ pc'[q] # "idle" => result'[q] = "none"
                 /\ \A u \in Tx : q \in dirty'[u] =>
                     /\ Live(u)'
                     /\ IF pc'[q] = "idle" THEN result'[q] = "err" /\ status'[u] = "doomed"
                                           ELSE HeldTx(q)' = u
                 /\ q \in lost' =>
                     IF pc'[q] = "idle" THEN result'[q] = "err"
                                        ELSE HeldTx(q)' # NoTx /\ ~Live(HeldTx(q))'
                 /\ q \in kept' =>
                     /\ pc'[q] = "idle" /\ q \notin lost'
                     /\ result'[q] = "ok" \/ (result'[q] = "err" /\ "lostReply" \in Faults)
                     /\ \A u \in Tx : q \notin dirty'[u]
      <3>1. HeldTx(q)' = HeldTx(q) /\ (pc'[q] = "idle" <=> pc[q] = "idle")
            /\ HeldTx(q) # t
        BY <1>1, <1>4, <2>4
      <3>3. ASSUME NEW u \in Tx, q \in dirty[u]
            PROVE  u # t /\ (Live(u)' <=> Live(u)) /\ status'[u] = status[u]
        BY <1>5, <1>6, <2>1, <3>3
      <3>4. ASSUME NEW u \in Tx, q \in dirty[u]
            PROVE  /\ Live(u)'
                   /\ IF pc'[q] = "idle" THEN result'[q] = "err" /\ status'[u] = "doomed"
                                         ELSE HeldTx(q)' = u
        BY <1>3, <3>1, <3>3, <3>4 DEF TxInv, FateInv
      <3>5. q \in lost => IF pc'[q] = "idle" THEN result'[q] = "err"
                          ELSE HeldTx(q)' # NoTx /\ ~Live(HeldTx(q))'
        <4>1. q \in lost => IF pc[q] = "idle" THEN result[q] = "err"
                                              ELSE HeldTx(q) # NoTx /\ ~Live(HeldTx(q))
          BY DEF TxInv, FateInv
        <4>2. HeldTx(q) # NoTx /\ ~Live(HeldTx(q)) => ~Live(HeldTx(q))'
          <5>1. SUFFICES ASSUME HeldTx(q) # NoTx, ~Live(HeldTx(q)) PROVE ~Live(HeldTx(q))'
            OBVIOUS
          <5>2. HeldTx(q) \in Tx /\ HeldTx(q) # t
            BY <1>8, <3>1, <5>1
          <5>3. status'[HeldTx(q)'] = status[HeldTx(q)]
            BY <1>5, <3>1, <5>2
          <5>. QED
            BY <5>1, <5>3 DEF Live
        <4>. QED
          BY <1>3, <3>1, <4>1, <4>2
      <3>6. q \in kept => /\ pc'[q] = "idle" /\ q \notin lost
                          /\ result'[q] = "ok" \/ (result'[q] = "err" /\ "lostReply" \in Faults)
                          /\ \A u \in Tx : q \notin dirty[u]
        BY <1>3, <3>1 DEF TxInv, FateInv
      <3>7. pc'[q] # "idle" => result'[q] = "none"
        BY <1>3, <3>1 DEF TxInv, FateInv
      <3>. QED
        BY <1>3, <3>4, <3>5, <3>6, <3>7
    <2>5. pc'[p] # "idle" /\ result'[p] = "none"
      BY <1>1, <1>3 DEF TxInv, FateInv
    <2>. QED
      BY <1>3, <2>2, <2>3, <2>4, <2>5 DEF FateInv
  <1>. QED
    BY <1>10, <1>11 DEF TxInv

\* A statement writes in the open transaction of its chain.
LEMMA WriteStep ==
    ASSUME Typed, TxInv, NEW p \in Procs, pc[p] # "idle", NEW t \in Tx,
           t = HeldTx(p), status[t] = "open",
           dirty' = [dirty EXCEPT ![t] = @ \cup {p}],
           \A q \in Procs : /\ HeldTx(q)' = HeldTx(q)
                            /\ pc'[q] = "idle" <=> pc[q] = "idle"
                            /\ result'[q] = result[q],
           UNCHANGED <<status, conn, kept, lost>>
    PROVE  TxInv'
  <1>1. \A u \in Tx : (Live(u)' <=> Live(u)) /\ status'[u] = status[u]
    BY DEF Live
  <1>2. conn \in [Conns -> Tx \cup {NoTx}] /\ dirty \in [Tx -> SUBSET Procs]
    BY DEF Typed, TypeOK
  <1>3. HolderInv'
    BY <1>1, <1>2 DEF TxInv, HolderInv
  <1>4. ASSUME NEW q \in Procs, NEW u \in Tx
        PROVE  q \in dirty'[u] => q \in dirty[u] \/ (q = p /\ u = t)
    BY <1>2
  <1>5. Live(t) /\ p \notin kept
    BY DEF Live, LiveStates, TxInv, FateInv
  <1>6. \A q \in Procs : HeldTx(q) \in Tx \cup {NoTx}
    BY HeldTxType
  <1>7. ASSUME NEW q \in Procs, NEW u \in Tx, q \in dirty'[u]
        PROVE  /\ Live(u)'
               /\ IF pc'[q] = "idle" THEN result'[q] = "err" /\ status'[u] = "doomed"
                                     ELSE HeldTx(q)' = u
    BY <1>1, <1>4, <1>5, <1>7 DEF TxInv, FateInv
  <1>8. \A q \in kept, u \in Tx : q \in Procs => q \notin dirty'[u]
    BY <1>4, <1>5 DEF TxInv, FateInv
  <1>9. \A q \in Procs : HeldTx(q) # NoTx => (Live(HeldTx(q))' <=> Live(HeldTx(q)))
    BY <1>1, <1>6
  <1>10. FateInv'
    BY <1>7, <1>8, <1>9 DEF TxInv, FateInv
  <1>. QED
    BY <1>3, <1>10 DEF TxInv

LEMMA EndTxEffect ==
    ASSUME Typed, NEW t \in Tx, NEW b \in BOOLEAN, EndTx(t, b)
    PROVE  /\ ~Live(t)' /\ dirty'[t] = {}
           /\ \A u \in Tx \ {t} : /\ status'[u] = status[u] /\ (Live(u)' <=> Live(u))
                                  /\ dirty'[u] = dirty[u]
           /\ \A c \in Conns : conn'[c] = IF conn[c] = t THEN NoTx ELSE conn[c]
           /\ kept' = IF b THEN kept \cup dirty[t] ELSE kept
           /\ lost' = IF b THEN lost ELSE lost \cup dirty[t]
  <1>1. /\ status' = [status EXCEPT ![t] = "done"]
        /\ conn' = [c \in Conns |-> IF conn[c] = t THEN NoTx ELSE conn[c]]
        /\ dirty' = [dirty EXCEPT ![t] = {}]
        /\ kept' = IF b THEN kept \cup dirty[t] ELSE kept
        /\ lost' = IF b THEN lost ELSE lost \cup dirty[t]
    BY DEF EndTx
  <1>2. status \in [Tx -> TxStates] /\ dirty \in [Tx -> SUBSET Procs]
    BY DEF Typed, TypeOK
  <1>3. /\ status'[t] = "done"
        /\ \A u \in Tx \ {t} : status'[u] = status[u] /\ dirty'[u] = dirty[u]
        /\ dirty'[t] = {}
    BY <1>1, <1>2
  <1>. QED
    BY <1>1, <1>3 DEF Live, LiveStates

\* Whoever ends a live transaction, its connection is free and its writes are
\* decided.
LEMMA HolderEnd ==
    ASSUME Typed, HolderInv, NEW t \in Tx, NEW b \in BOOLEAN, EndTx(t, b),
           \A q \in Procs : \/ HeldTx(q)' = HeldTx(q)
                            \/ HeldTx(q) = t /\ HeldTx(q)' = NoTx
    PROVE  HolderInv'
  <1>1. conn \in [Conns -> Tx \cup {NoTx}]
    BY DEF Typed, TypeOK
  <1>2. \A q, r \in Procs : HeldTx(q)' = HeldTx(r)' => q = r \/ HeldTx(q)' = NoTx
    BY DEF HolderInv
  <1>3. \A c \in Conns : conn'[c] # NoTx => Live(conn[c])'
    <2>. SUFFICES ASSUME NEW c \in Conns, conn'[c] # NoTx PROVE Live(conn[c])'
      OBVIOUS
    <2>1. conn[c] # t /\ conn'[c] = conn[c] /\ conn[c] \in Tx
      BY <1>1, EndTxEffect
    <2>2. Live(conn[c])
      BY <2>1 DEF HolderInv
    <2>3. status'[conn'[c]] = status[conn[c]]
      BY <2>1, EndTxEffect
    <2>. QED
      BY <2>2, <2>3 DEF Live
  <1>4. ASSUME NEW u \in Tx, Live(u)'
        PROVE  /\ \E e \in Conns : \A d \in Conns : conn'[d] = u <=> d = e
               /\ status'[u] = "doomed" \/ \E q \in Procs : HeldTx(q)' = u
    <2>1. u # t /\ Live(u) /\ status'[u] = status[u]
      BY <1>4, EndTxEffect
    <2>2. PICK e \in Conns : \A d \in Conns : conn[d] = u <=> d = e
      BY <2>1 DEF HolderInv
    <2>3. \A d \in Conns : conn'[d] = u <=> conn[d] = u
      BY <2>1, EndTxEffect, ConstantsAssumption
    <2>4. status[u] = "doomed" \/ \E q \in Procs : HeldTx(q)' = u
      BY <2>1 DEF HolderInv
    <2>. QED
      BY <2>1, <2>2, <2>3, <2>4
  <1>. QED
    BY <1>2, <1>3, <1>4 DEF HolderInv

\* The owner of a live transaction ends it and returns r.
LEMMA EndStep ==
    ASSUME Typed, TxInv, NEW p \in Procs, pc[p] # "idle", NEW t \in Tx,
           t = HeldTx(p), Live(t), NEW b \in BOOLEAN, EndTx(t, b),
           pc'[p] = "idle", HeldTx(p)' = NoTx,
           b => status[t] = "open" /\ (result'[p] = "ok" \/ (result'[p] = "err" /\ "lostReply" \in Faults)),
           ~b => result'[p] = "err",
           \A q \in Procs \ {p} : /\ HeldTx(q)' = HeldTx(q)
                                  /\ pc'[q] = pc[q] /\ result'[q] = result[q]
    PROVE  TxInv'
  <1>1. HolderInv'
    BY HolderEnd DEF TxInv
  <1>2. \A q \in Procs : HeldTx(q) \in Tx \cup {NoTx}
    BY HeldTxType
  <1>3. /\ p \notin lost /\ p \notin kept
        /\ \A u \in Tx \ {t} : p \notin dirty[u]
    BY ConstantsAssumption DEF TxInv, FateInv
  <1>4. \A u \in Tx : p \notin dirty'[u]
    BY <1>3, EndTxEffect
  <1>5. ASSUME NEW q \in Procs \ {p}
        PROVE  HeldTx(q) # t /\ (q \in dirty[t] => pc[q] = "idle" /\ status[t] = "doomed")
    <2>1. HeldTx(q) # t
      BY ConstantsAssumption DEF TxInv, HolderInv
    <2>. QED
      BY <2>1 DEF TxInv, FateInv
  <1>6. ASSUME NEW q \in Procs \ {p}
        PROVE  /\ q \in kept' => q \in kept
               /\ q \in lost' => q \in lost \/ (q \in dirty[t] /\ pc[q] = "idle")
               /\ \A u \in Tx : q \in dirty'[u] => u # t /\ q \in dirty[u]
    <2>1. \A u \in Tx : q \in dirty'[u] => u # t /\ q \in dirty[u]
      BY EndTxEffect
    <2>2. q \in kept' => q \in kept
      BY <1>5, EndTxEffect
    <2>3. q \in lost' => q \in lost \/ (q \in dirty[t] /\ pc[q] = "idle")
      BY <1>5, EndTxEffect
    <2>. QED
      BY <2>1, <2>2, <2>3
  <1>7. ASSUME NEW q \in Procs \ {p}
        PROVE  /\ pc'[q] # "idle" => result'[q] = "none"
               /\ \A u \in Tx : q \in dirty'[u] =>
                   /\ Live(u)'
                   /\ IF pc'[q] = "idle" THEN result'[q] = "err" /\ status'[u] = "doomed"
                                         ELSE HeldTx(q)' = u
               /\ q \in lost' =>
                   IF pc'[q] = "idle" THEN result'[q] = "err"
                                      ELSE HeldTx(q)' # NoTx /\ ~Live(HeldTx(q))'
               /\ q \in kept' =>
                   /\ pc'[q] = "idle" /\ q \notin lost'
                   /\ result'[q] = "ok" \/ (result'[q] = "err" /\ "lostReply" \in Faults)
                   /\ \A u \in Tx : q \notin dirty'[u]
    <2>1. pc'[q] # "idle" => result'[q] = "none"
      BY DEF TxInv, FateInv
    <2>2. ASSUME NEW u \in Tx, q \in dirty'[u]
          PROVE  /\ Live(u)'
                 /\ IF pc'[q] = "idle" THEN result'[q] = "err" /\ status'[u] = "doomed"
                                       ELSE HeldTx(q)' = u
      <3>1. u # t /\ q \in dirty[u] /\ (Live(u)' <=> Live(u)) /\ status'[u] = status[u]
        BY <1>6, <2>2, EndTxEffect
      <3>. QED
        BY <3>1 DEF TxInv, FateInv
    <2>3. ASSUME q \in lost'
          PROVE  IF pc'[q] = "idle" THEN result'[q] = "err"
                                    ELSE HeldTx(q)' # NoTx /\ ~Live(HeldTx(q))'
      <3>1. CASE q \in dirty[t] /\ pc[q] = "idle"
        BY <3>1 DEF TxInv, FateInv
      <3>2. CASE q \in lost
        <4>1. CASE pc[q] = "idle"
          BY <3>2, <4>1 DEF TxInv, FateInv
        <4>2. CASE pc[q] # "idle"
          <5>1. HeldTx(q) # NoTx /\ ~Live(HeldTx(q)) /\ HeldTx(q) \in Tx \ {t}
            BY <1>2, <1>5, <3>2, <4>2 DEF TxInv, FateInv
          <5>2. status'[HeldTx(q)'] = status[HeldTx(q)]
            BY <5>1, EndTxEffect
          <5>3. ~Live(HeldTx(q))'
            BY <5>1, <5>2 DEF Live
          <5>. QED
            BY <4>2, <5>1, <5>3
        <4>. QED
          BY <4>1, <4>2
      <3>. QED
        BY <1>6, <2>3, <3>1, <3>2
    <2>4. ASSUME q \in kept'
          PROVE  /\ pc'[q] = "idle" /\ q \notin lost'
                 /\ result'[q] = "ok" \/ (result'[q] = "err" /\ "lostReply" \in Faults)
                 /\ \A u \in Tx : q \notin dirty'[u]
      BY <1>6, <2>4 DEF TxInv, FateInv
    <2>. QED
      BY <2>1, <2>2, <2>3, <2>4
  <1>8. /\ p \in lost' => result'[p] = "err"
        /\ p \in kept' => /\ p \notin lost'
                          /\ result'[p] = "ok" \/ (result'[p] = "err" /\ "lostReply" \in Faults)
    BY <1>3, EndTxEffect
  <1>9. FateInv'
    BY <1>4, <1>7, <1>8 DEF FateInv
  <1>. QED
    BY <1>1, <1>9 DEF TxInv

\* A call returns an error and has no live transaction to end.
LEMMA FailStep ==
    ASSUME Typed, TxInv, NEW p \in Procs, pc[p] # "idle",
           HeldTx(p) # NoTx => status[HeldTx(p)] \in {"doomed", "done"},
           pc'[p] = "idle", HeldTx(p)' = NoTx, result'[p] = "err",
           \A q \in Procs \ {p} : /\ HeldTx(q)' = HeldTx(q)
                                  /\ pc'[q] = pc[q] /\ result'[q] = result[q],
           UNCHANGED <<status, conn, dirty, kept, lost>>
    PROVE  TxInv'
  <1>1. \A u \in Tx : (Live(u)' <=> Live(u)) /\ status'[u] = status[u]
    BY DEF Live
  <1>2. conn \in [Conns -> Tx \cup {NoTx}]
    BY DEF Typed, TypeOK
  <1>3. \A q \in Procs : HeldTx(q) \in Tx \cup {NoTx}
    BY HeldTxType
  <1>4. \A q \in Procs : HeldTx(q) # NoTx => (Live(HeldTx(q))' <=> Live(HeldTx(q))) \/ q = p
    BY <1>1, <1>3
  <1>5. HolderInv'
    <2>1. \A q, r \in Procs : HeldTx(q)' = HeldTx(r)' => q = r \/ HeldTx(q)' = NoTx
      BY DEF TxInv, HolderInv
    <2>2. \A c \in Conns : conn'[c] # NoTx => Live(conn[c])'
      BY <1>1, <1>2 DEF TxInv, HolderInv
    <2>3. ASSUME NEW u \in Tx, Live(u)'
          PROVE  /\ \E e \in Conns : \A d \in Conns : conn'[d] = u <=> d = e
                 /\ status'[u] = "doomed" \/ \E q \in Procs : HeldTx(q)' = u
      <3>1. Live(u) /\ status'[u] = status[u]
        BY <1>1, <2>3
      <3>2. CASE HeldTx(p) = u
        <4>1. status[u] = "doomed"
          BY <3>1, <3>2, ConstantsAssumption DEF Live, LiveStates
        <4>. QED
          BY <3>1, <4>1 DEF TxInv, HolderInv
      <3>3. CASE HeldTx(p) # u
        BY <3>1, <3>3 DEF TxInv, HolderInv
      <3>. QED
        BY <3>2, <3>3
    <2>. QED
      BY <2>1, <2>2, <2>3 DEF HolderInv
  <1>6. \A u \in Tx : p \in dirty[u] => Live(u) /\ status[u] = "doomed"
    BY ConstantsAssumption DEF TxInv, FateInv, Live, LiveStates
  <1>7. p \notin kept
    BY DEF TxInv, FateInv
  <1>8. FateInv'
    BY <1>1, <1>4, <1>6, <1>7 DEF TxInv, FateInv
  <1>. QED
    BY <1>5, <1>8 DEF TxInv

\* database/sql rolls a doomed transaction back.
LEMMA RollbackDoomedStep ==
    ASSUME Typed, TxInv, NEW t \in Tx, RollbackDoomed(t)
    PROVE  TxInv'
  <1>1. /\ status[t] = "doomed" /\ EndTx(t, FALSE)
        /\ UNCHANGED <<stack, pc, result>>
    BY DEF RollbackDoomed, callVars
  <1>2. \A q \in Procs : HeldTx(q)' = HeldTx(q)
    BY <1>1 DEF HeldTx, Top
  <1>3. HolderInv'
    BY <1>1, <1>2, HolderEnd DEF TxInv
  <1>4. \A q \in Procs : HeldTx(q) \in Tx \cup {NoTx}
    BY HeldTxType
  <1>5. /\ ~Live(t)' /\ dirty'[t] = {}
        /\ \A u \in Tx \ {t} : /\ status'[u] = status[u] /\ (Live(u)' <=> Live(u))
                               /\ dirty'[u] = dirty[u]
        /\ kept' = kept
        /\ lost' = lost \cup dirty[t]
    BY <1>1, EndTxEffect
  <1>6. ASSUME NEW q \in Procs, NEW u \in Tx, q \in dirty'[u]
        PROVE  /\ Live(u)'
               /\ IF pc'[q] = "idle" THEN result'[q] = "err" /\ status'[u] = "doomed"
                                     ELSE HeldTx(q)' = u
    <2>1. u # t /\ q \in dirty[u] /\ (Live(u)' <=> Live(u)) /\ status'[u] = status[u]
      BY <1>5, <1>6
    <2>. QED
      BY <1>1, <1>2, <2>1 DEF TxInv, FateInv
  <1>7. ASSUME NEW q \in Procs, q \in lost'
        PROVE  IF pc'[q] = "idle" THEN result'[q] = "err"
                                  ELSE HeldTx(q)' # NoTx /\ ~Live(HeldTx(q))'
    <2>1. CASE pc[q] = "idle"
      BY <1>1, <1>5, <1>7, <2>1 DEF TxInv, FateInv
    <2>2. CASE pc[q] # "idle"
      <3>1. HeldTx(q) \in Tx /\ (HeldTx(q) = t \/ ~Live(HeldTx(q)))
        BY <1>4, <1>5, <1>7, <2>2, ConstantsAssumption DEF TxInv, FateInv
      <3>2. ~Live(HeldTx(q))'
        <4>1. HeldTx(q) = t => status'[HeldTx(q)'] = status'[t]
          BY <1>2
        <4>2. HeldTx(q) # t => status'[HeldTx(q)'] = status[HeldTx(q)]
          BY <1>2, <1>5, <3>1
        <4>. QED
          BY <1>5, <3>1, <4>1, <4>2 DEF Live
      <3>. QED
        BY <1>1, <1>2, <2>2, <3>1, <3>2, ConstantsAssumption
    <2>. QED
      BY <2>1, <2>2
  <1>8. ASSUME NEW q \in Procs, q \in kept'
        PROVE  /\ pc'[q] = "idle" /\ q \notin lost'
               /\ result'[q] = "ok" \/ (result'[q] = "err" /\ "lostReply" \in Faults)
               /\ \A u \in Tx : q \notin dirty'[u]
    BY <1>1, <1>5, <1>8 DEF TxInv, FateInv
  <1>9. \A q \in Procs : pc'[q] # "idle" => result'[q] = "none"
    BY <1>1 DEF TxInv, FateInv
  <1>10. FateInv'
    BY <1>6, <1>7, <1>8, <1>9 DEF FateInv
  <1>. QED
    BY <1>3, <1>10 DEF TxInv
-----------------------------------------------------------------------------
(***************************************************************************)
(* Every step preserves the invariant when no call begins a second         *)
(* transaction.                                                            *)
(***************************************************************************)
\* Programs that begin no transaction inside another.
WellBehaved == \A p \in Procs : Features[p] \subseteq {"walk", "writes"}

LEMMA InvInit == Init => Inv
  <1>. SUFFICES ASSUME Init PROVE Inv
    OBVIOUS
  <1>1. ASSUME NEW p \in Procs
        PROVE  /\ stack[p] = <<>> /\ pc[p] = "idle" /\ 1 .. Len(stack[p]) = {}
               /\ result[p] = "none" /\ HeldTx(p) = NoTx
               /\ p \notin lost /\ p \notin kept /\ \A t \in Tx : p \notin dirty[t]
    <2>1. stack[p] = <<>> /\ pc[p] = "idle" /\ result[p] = "none"
      BY DEF Init
    <2>2. p \notin lost /\ p \notin kept /\ \A t \in Tx : p \notin dirty[t]
      BY DEF Init
    <2>3. Len(stack[p]) = 0
      BY <2>1, EmptySeq
    <2>. QED
      BY <2>1, <2>2, <2>3 DEF HeldTx
  <1>2. (\A t \in Tx : ~Live(t)) /\ (\A c \in Conns : conn[c] = NoTx)
    BY DEF Init, Live, LiveStates
  <1>3. ChainInv
    BY <1>1 DEF ChainInv
  <1>4. HolderInv
    BY <1>1, <1>2 DEF HolderInv
  <1>5. FateInv
    BY <1>1 DEF FateInv
  <1>. QED
    BY <1>3, <1>4, <1>5 DEF Inv

LEMMA EnterInv ==
    ASSUME Typed, Inv,
           NEW p \in Procs, NEW fn \in {"WithTx", "stmt", "replace", "walk"},
           NEW s \in Shards, NEW t \in Tx \cup {NoTx},
           pc[p] \in {"idle", "run", "fetch"}, t = HeldTx(p),
           pc[p] = "idle" => fn \notin {"replace", "walk"},
           Enter(p, fn, s, t)
    PROVE  Inv'
  <1>1. /\ ChainInv'
        /\ \A q \in Procs : HeldTx(q)' = HeldTx(q)
        /\ pc'[p] # "idle"
        /\ \A q \in Procs \ {p} : pc'[q] = pc[q]
    BY ChainEnter DEF Inv
  <1>2. StartCall(p) /\ UNCHANGED <<status, conn>>
    BY DEF Enter, txVars
  <1>3. CASE pc[p] = "idle"
    BY <1>1, <1>2, <1>3, StartStep DEF Inv, TxInv, StartCall
  <1>4. CASE pc[p] # "idle"
    <2>1. UNCHANGED result /\ UNCHANGED <<dirty, kept, lost>>
      BY <1>2, <1>4 DEF StartCall, fateVars
    <2>2. \A u \in Tx : (Live(u)' <=> Live(u)) /\ status'[u] = status[u]
      BY <1>2 DEF Live
    <2>. QED
      BY <1>1, <1>2, <1>4, <2>1, <2>2, QuietStep DEF Inv, TxInv
  <1>. QED
    BY <1>3, <1>4

LEMMA CallInv ==
    ASSUME WellBehaved, Typed, Inv, NEW p \in Procs, CallStep(p)
    PROVE  Inv'
  <1>1. ASSUME NEW c \in Contexts(p)
        PROVE  /\ pc[p] \in {"idle", "run"}
               /\ c.shard \in Shards /\ c.tx \in Tx \cup {NoTx}
               /\ c.tx = HeldTx(p)
               /\ pc[p] = "run" => c.tx # NoTx
    <2>1. CASE pc[p] = "idle"
      BY <2>1, ContextsType, HeldTxType
    <2>2. CASE pc[p] # "idle"
      <3>1. pc[p] = "run" /\ c.tx = Top(p).tx /\ c.shard \in Shards
        BY <2>2, ContextsType
      <3>2. HeldTx(p) = Top(p).tx /\ HeldTx(p) \in Tx
        BY <2>2, <3>1, HeldTxType
      <3>. QED
        BY <3>1, <3>2, ConstantsAssumption
    <2>. QED
      BY <2>1, <2>2
  <1>2. CASE CallWithTx(p)
    <2>1. PICK c \in Contexts(p) : Enter(p, "WithTx", c.shard, c.tx)
      BY <1>2 DEF CallWithTx
    <2>. QED
      BY <1>1, <2>1, EnterInv
  <1>3. CASE CallWithTxInShard(p)
    <2>1. PICK c \in Contexts(p), s \in Shards :
              /\ c.shard = s \/ c.tx = NoTx
              /\ Enter(p, "WithTx", s, IF c.shard = s THEN c.tx ELSE NoTx)
      BY <1>3 DEF CallWithTxInShard
    <2>2. (IF c.shard = s THEN c.tx ELSE NoTx) = c.tx
      BY <2>1
    <2>. QED
      BY <1>1, <2>1, <2>2, EnterInv
  <1>4. CASE CallShardWithTx(p)
    BY <1>4 DEF CallShardWithTx, WellBehaved
  <1>5. CASE CallStatement(p)
    <2>1. PICK c \in Contexts(p) : Enter(p, "stmt", c.shard, c.tx)
      BY <1>5 DEF CallStatement
    <2>. QED
      BY <1>1, <2>1, EnterInv
  <1>6. CASE CallReplace(p)
    <2>1. PICK c \in Contexts(p) : c.tx # NoTx /\ Enter(p, "replace", c.shard, c.tx)
      BY <1>6 DEF CallReplace, WellBehaved
    <2>2. pc[p] # "idle"
      BY <1>1, <2>1, HeldTxType
    <2>. QED
      BY <1>1, <2>1, <2>2, EnterInv
  <1>7. CASE CallCursorWalk(p)
    <2>1. PICK c \in Contexts(p) : c.tx # NoTx /\ Enter(p, "walk", c.shard, c.tx)
      BY <1>7 DEF CallCursorWalk
    <2>2. pc[p] # "idle"
      BY <1>1, <2>1, HeldTxType
    <2>. QED
      BY <1>1, <2>1, <2>2, EnterInv
  <1>8. CASE RefuseCursorWalk(p)
    <2>1. PICK r \in {"err", "panic"} : FreshCall(p, r)
      BY <1>8 DEF RefuseCursorWalk
    <2>2. pc[p] = "idle" /\ UNCHANGED <<stack, pc, status, conn>>
      BY <1>8 DEF RefuseCursorWalk, txVars
    <2>3. \A q \in Procs : HeldTx(q)' = HeldTx(q)
      BY <2>2 DEF HeldTx, Top
    <2>4. ChainInv'
      BY <2>2, <2>3 DEF Inv, ChainInv
    <2>5. TxInv'
      BY <2>1, <2>2, <2>3, StartStep DEF Inv, TxInv
    <2>. QED
      BY <2>4, <2>5 DEF Inv, TxInv
  <1>. QED
    BY <1>2, <1>3, <1>4, <1>5, <1>6, <1>7, <1>8 DEF CallStep

LEMMA GotoInv ==
    ASSUME Typed, Inv, NEW p \in Procs, pc[p] # "idle",
           NEW l \in PCs \ {"idle", "acquire"}, Goto(p, l),
           \A t \in Tx : /\ Live(t)' <=> Live(t)
                         /\ status[t] = "doomed" => status'[t] = "doomed",
           UNCHANGED <<conn, dirty, kept, lost>>
    PROVE  Inv'
  BY ChainGoto, QuietStep DEF Inv, TxInv

LEMMA AbortInv ==
    ASSUME Typed, NEW t \in Tx, status[t] = "open",
           status' = [status EXCEPT ![t] = "aborted"]
    PROVE  \A u \in Tx : /\ Live(u)' <=> Live(u)
                         /\ status[u] = "doomed" => status'[u] = "doomed"
  BY DEF Typed, TypeOK, Live, LiveStates

LEMMA WalkFailsInv ==
    ASSUME Typed, Inv, NEW p \in Procs, pc[p] \in {"run", "fetch"}, WalkFails(p)
    PROVE  Inv'
  <1>1. /\ Goto(p, "err") \/ Goto(p, "panic")
        /\ UNCHANGED conn /\ UNCHANGED <<dirty, kept, lost>>
        /\ \/ status' = status
           \/ /\ status[Top(p).tx] = "open"
              /\ status' = [status EXCEPT ![Top(p).tx] = "aborted"]
    BY DEF WalkFails, txVars, fateVars
  <1>2. Top(p).tx \in Tx
    BY TopProperties
  <1>3. \A t \in Tx : /\ Live(t)' <=> Live(t)
                      /\ status[t] = "doomed" => status'[t] = "doomed"
    BY <1>1, <1>2, AbortInv DEF Live
  <1>. QED
    BY <1>1, <1>3, GotoInv DEF PCs

\* WithBeginTx ends its transaction, or finds it ended, and returns.
LEMMA LeaveInv ==
    ASSUME Typed, Inv, NEW p \in Procs, pc[p] # "idle",
           NEW r \in {"ok", "err", "panic"}, Leave(p, r),
           ~Top(p).own =>
               UNCHANGED <<status, conn>> /\ UNCHANGED <<dirty, kept, lost>>,
           Top(p).own =>
               \/ \E b \in BOOLEAN :
                   /\ Top(p).tx \in Tx /\ Live(Top(p).tx) /\ EndTx(Top(p).tx, b)
                   /\ b => status[Top(p).tx] = "open" /\ (r = "ok" \/ (r = "err" /\ "lostReply" \in Faults))
                   /\ ~b => r = "err"
               \/ /\ r = "err"
                  /\ Top(p).tx = NoTx \/ status[Top(p).tx] \in {"doomed", "done"}
                  /\ UNCHANGED <<status, conn>> /\ UNCHANGED <<dirty, kept, lost>>
    PROVE  Inv'
  <1>1. /\ ChainInv'
        /\ \A q \in Procs \ {p} : /\ HeldTx(q)' = HeldTx(q)
                                  /\ pc'[q] = pc[q] /\ result'[q] = result[q]
        /\ IF Top(p).own
           THEN pc'[p] = "idle" /\ HeldTx(p)' = NoTx /\ result'[p] = r
           ELSE pc'[p] # "idle" /\ HeldTx(p)' = HeldTx(p) /\ result'[p] = result[p]
    BY ChainLeave DEF Inv
  <1>2. HeldTx(p) = Top(p).tx
    BY HeldTxType
  <1>3. CASE ~Top(p).own
    <2>1. \A u \in Tx : (Live(u)' <=> Live(u)) /\ status'[u] = status[u]
      BY <1>3 DEF Live
    <2>2. \A q \in Procs : /\ HeldTx(q)' = HeldTx(q)
                           /\ pc'[q] = "idle" <=> pc[q] = "idle"
                           /\ result'[q] = result[q]
      BY <1>1, <1>3
    <2>. QED
      BY <1>1, <1>3, <2>1, <2>2, QuietStep DEF Inv, TxInv
  <1>4. ASSUME Top(p).own, NEW b \in BOOLEAN,
               Top(p).tx \in Tx, Live(Top(p).tx), EndTx(Top(p).tx, b),
               b => status[Top(p).tx] = "open" /\ (r = "ok" \/ (r = "err" /\ "lostReply" \in Faults)),
               ~b => r = "err"
        PROVE  Inv'
    BY <1>1, <1>2, <1>4, EndStep DEF Inv, TxInv
  <1>5. ASSUME Top(p).own, r = "err",
               Top(p).tx = NoTx \/ status[Top(p).tx] \in {"doomed", "done"},
               UNCHANGED <<status, conn>> /\ UNCHANGED <<dirty, kept, lost>>
        PROVE  Inv'
    BY <1>1, <1>2, <1>5, FailStep DEF Inv, TxInv
  <1>. QED
    BY <1>3, <1>4, <1>5

LEMMA StoreInv ==
    ASSUME WellBehaved, Typed, Inv, NEW p \in Procs,
           StoreStep(p) \/ ReturnFromCallback(p)
    PROVE  Inv'
  <1>. USE DEF PCs
  <1>0. \A t \in Tx : status' = status => /\ Live(t)' <=> Live(t)
                                          /\ status[t] = "doomed" => status'[t] = "doomed"
    BY DEF Live
  <1>1. CASE AcquireFails(p)
    <2>1. /\ pc[p] = "acquire" /\ Leave(p, "err")
          /\ UNCHANGED <<status, conn>> /\ UNCHANGED <<dirty, kept, lost>>
      BY <1>1 DEF AcquireFails, txVars, fateVars
    <2>2. Top(p).tx = NoTx
      BY <2>1, HeldTxType DEF Inv, ChainInv
    <2>. QED
      BY <2>1, <2>2, LeaveInv
  <1>2. CASE SetSearchPath(p)
    <2>1. /\ pc[p] = "path" /\ (Goto(p, "run") \/ Goto(p, "err"))
          /\ UNCHANGED conn /\ UNCHANGED <<dirty, kept, lost>>
          /\ \/ status' = status
             \/ /\ status[Top(p).tx] = "open"
                /\ status' = [status EXCEPT ![Top(p).tx] = "aborted"]
      BY <1>2 DEF SetSearchPath, fateVars
    <2>2. Top(p).tx \in Tx
      BY <2>1, TopProperties
    <2>3. \A t \in Tx : /\ Live(t)' <=> Live(t)
                        /\ status[t] = "doomed" => status'[t] = "doomed"
      BY <1>0, <2>1, <2>2, AbortInv
    <2>. QED
      BY <2>1, <2>3, GotoInv
  <1>3. CASE RunStatement(p)
    <2>1. /\ pc[p] = "run" /\ (Goto(p, "ok") \/ Goto(p, "err") \/ Goto(p, "panic"))
          /\ UNCHANGED <<conn, kept, lost>>
          /\ \/ UNCHANGED <<status, dirty>>
             \/ /\ status[Top(p).tx] = "open"
                /\ status' = [status EXCEPT ![Top(p).tx] = "aborted"]
                /\ UNCHANGED dirty
             \/ /\ status[Top(p).tx] = "open"
                /\ dirty' = [dirty EXCEPT ![Top(p).tx] = @ \cup {p}]
                /\ UNCHANGED status
      BY <1>3 DEF RunStatement, txVars, fateVars
    <2>2. Top(p).tx \in Tx /\ HeldTx(p) = Top(p).tx
      BY <2>1, TopProperties, HeldTxType
    <2>3. CASE UNCHANGED <<status, dirty>>
      BY <1>0, <2>1, <2>3, GotoInv
    <2>4. CASE /\ status[Top(p).tx] = "open"
               /\ status' = [status EXCEPT ![Top(p).tx] = "aborted"]
               /\ UNCHANGED dirty
      <3>1. \A t \in Tx : /\ Live(t)' <=> Live(t)
                          /\ status[t] = "doomed" => status'[t] = "doomed"
        BY <2>2, <2>4, AbortInv
      <3>. QED
        BY <2>1, <2>4, <3>1, GotoInv
    <2>5. CASE /\ status[Top(p).tx] = "open"
               /\ dirty' = [dirty EXCEPT ![Top(p).tx] = @ \cup {p}]
               /\ UNCHANGED status
      BY <2>1, <2>2, <2>5, WriteStep, ChainGoto DEF Inv, TxInv
    <2>. QED
      BY <2>1, <2>3, <2>4, <2>5
  <1>4. CASE RunReplace(p)
    <2>1. pc[p] = "run" /\ Top(p) \in Frame /\ Top(p).fn = "replace"
      BY <1>4, TopProperties DEF RunReplace
    <2>2. ~Top(p).own /\ Top(p).tx = HeldTx(p) /\ HeldTx(p) \in Tx
      <3>1. Top(p) = stack[p][1] /\ 1 \in 1 .. Len(stack[p])
        BY <2>1, TopProperties
      <3>2. stack[p][1].own => stack[p][1].fn # "replace"
        BY <3>1 DEF Inv, ChainInv
      <3>. QED
        BY <2>1, <3>1, <3>2, HeldTxType
    <2>3. CASE Enter(p, "stmt", Top(p).shard, Top(p).tx)
      <3>1. Top(p).shard \in Shards
        BY <2>1 DEF Frame
      <3>. QED
        BY <2>1, <2>2, <2>3, <3>1, EnterInv
    <2>4. CASE /\ Goto(p, "err") \/ Goto(p, "panic")
               /\ UNCHANGED <<status, conn>> /\ UNCHANGED <<dirty, kept, lost>>
      BY <1>0, <2>1, <2>4, GotoInv
    <2>5. \/ Enter(p, "stmt", Top(p).shard, IF Top(p).own THEN NoTx ELSE Top(p).tx)
          \/ /\ Goto(p, "err") \/ Goto(p, "panic")
             /\ UNCHANGED <<status, conn>> /\ UNCHANGED <<dirty, kept, lost>>
      BY <1>4 DEF RunReplace, txVars, fateVars
    <2>. QED
      BY <2>2, <2>3, <2>4, <2>5
  <1>5. CASE LeaveJoined(p)
    <2>1. /\ pc[p] \in {"ok", "err", "panic"} /\ ~Top(p).own /\ Leave(p, pc[p])
          /\ UNCHANGED <<status, conn>> /\ UNCHANGED <<dirty, kept, lost>>
      BY <1>5 DEF LeaveJoined, Ended, txVars, fateVars
    <2>. QED
      BY <2>1, LeaveInv
  <1>6. CASE Commit(p)
    <2>1. pc[p] = "ok" /\ Top(p).own
      BY <1>6 DEF Commit
    <2>2. Top(p).tx \in Tx
      BY <2>1, TopProperties
    <2>3. \/ status[Top(p).tx] = "open" /\ EndTx(Top(p).tx, TRUE) /\ Leave(p, "ok")
          \/ /\ status[Top(p).tx] = "open" /\ "lostReply" \in Faults
             /\ EndTx(Top(p).tx, TRUE) /\ Leave(p, "err")
          \/ /\ status[Top(p).tx] \in {"open", "aborted"}
             /\ EndTx(Top(p).tx, FALSE) /\ Leave(p, "err")
          \/ /\ status[Top(p).tx] \in {"doomed", "done"} /\ Leave(p, "err")
             /\ UNCHANGED <<status, conn>> /\ UNCHANGED <<dirty, kept, lost>>
      BY <1>6 DEF Commit, txVars, fateVars
    <2>4. status[Top(p).tx] \in {"open", "aborted"} => Live(Top(p).tx)
      BY DEF Live, LiveStates
    <2>5. CASE status[Top(p).tx] = "open" /\ EndTx(Top(p).tx, TRUE) /\ Leave(p, "ok")
      BY <2>1, <2>2, <2>4, <2>5, LeaveInv
    <2>6. CASE /\ status[Top(p).tx] = "open" /\ "lostReply" \in Faults
               /\ EndTx(Top(p).tx, TRUE) /\ Leave(p, "err")
      BY <2>1, <2>2, <2>4, <2>6, LeaveInv
    <2>7. CASE /\ status[Top(p).tx] \in {"open", "aborted"}
               /\ EndTx(Top(p).tx, FALSE) /\ Leave(p, "err")
      BY <2>1, <2>2, <2>4, <2>7, LeaveInv
    <2>8. CASE /\ status[Top(p).tx] \in {"doomed", "done"} /\ Leave(p, "err")
               /\ UNCHANGED <<status, conn>> /\ UNCHANGED <<dirty, kept, lost>>
      BY <2>1, <2>8, LeaveInv
    <2>. QED
      BY <2>3, <2>5, <2>6, <2>7, <2>8
  <1>7. CASE Rollback(p)
    <2>1. pc[p] \in {"err", "panic"} /\ Top(p).own /\ Leave(p, "err")
      BY <1>7 DEF Rollback
    <2>2. Top(p).tx \in Tx /\ status[Top(p).tx] \in TxStates
      BY <2>1, TopProperties DEF Typed, TypeOK
    <2>3. CASE Live(Top(p).tx)
      <3>1. EndTx(Top(p).tx, FALSE)
        BY <1>7, <2>3 DEF Rollback
      <3>. QED
        BY <2>1, <2>2, <2>3, <3>1, LeaveInv
    <2>4. CASE ~Live(Top(p).tx)
      <3>1. UNCHANGED <<status, conn>> /\ UNCHANGED <<dirty, kept, lost>>
        BY <1>7, <2>4 DEF Rollback, txVars, fateVars
      <3>2. status[Top(p).tx] = "done"
        BY <2>2, <2>4 DEF Live, LiveStates, TxStates
      <3>. QED
        BY <2>1, <3>1, <3>2, LeaveInv
    <2>. QED
      BY <2>3, <2>4
  <1>8. CASE ReturnFromCallback(p)
    <2>1. /\ pc[p] = "run" /\ (Goto(p, "ok") \/ Goto(p, "err") \/ Goto(p, "panic"))
          /\ UNCHANGED <<status, conn>> /\ UNCHANGED <<dirty, kept, lost>>
      BY <1>8 DEF ReturnFromCallback, txVars, fateVars
    <2>. QED
      BY <1>0, <2>1, GotoInv
  <1>9. CASE DeclareCursor(p)
    <2>1. pc[p] = "run"
      BY <1>9 DEF DeclareCursor
    <2>2. CASE WalkFails(p)
      BY <2>1, <2>2, WalkFailsInv
    <2>3. CASE ~WalkFails(p)
      <3>1. /\ Goto(p, "fetch")
            /\ UNCHANGED <<status, conn>> /\ UNCHANGED <<dirty, kept, lost>>
        BY <1>9, <2>3 DEF DeclareCursor, fateVars
      <3>. QED
        BY <1>0, <2>1, <3>1, GotoInv
    <2>. QED
      BY <2>2, <2>3
  <1>10. CASE FetchRows(p)
    <2>1. /\ pc[p] = "fetch" /\ Top(p).shard \in Shards
          /\ Top(p).tx = HeldTx(p) /\ HeldTx(p) \in Tx
      BY <1>10, TopProperties, HeldTxType DEF FetchRows, Frame
    <2>2. CASE WalkFails(p)
      BY <2>1, <2>2, WalkFailsInv
    <2>3. CASE Enter(p, "WithTx", Top(p).shard, Top(p).tx)
      BY <2>1, <2>3, EnterInv
    <2>. QED
      BY <1>10, <2>2, <2>3 DEF FetchRows
  <1>11. CASE FetchNothing(p)
    <2>1. /\ pc[p] = "fetch" /\ Goto(p, "ok")
          /\ UNCHANGED <<status, conn>> /\ UNCHANGED <<dirty, kept, lost>>
      BY <1>11 DEF FetchNothing, txVars, fateVars
    <2>. QED
      BY <1>0, <2>1, GotoInv
  <1>. QED
    BY <1>1, <1>2, <1>3, <1>4, <1>5, <1>6, <1>7, <1>8, <1>9, <1>10, <1>11 DEF StoreStep

LEMMA InvStep ==
    ASSUME WellBehaved, Typed, Inv, [Next]_vars
    PROVE  Inv'
  <1>1. ASSUME NEW p \in Procs, CallStep(p)
        PROVE  Inv'
    BY <1>1, CallInv
  <1>2. ASSUME NEW p \in Procs, Acquire(p)
        PROVE  Inv'
    BY <1>2, ChainAcquire, AcquireStep DEF Inv, TxInv
  <1>3. ASSUME NEW p \in Procs, StoreStep(p) \/ ReturnFromCallback(p)
        PROVE  Inv'
    BY <1>3, StoreInv
  <1>4. ASSUME NEW p \in Procs, Cancel(p)
        PROVE  Inv'
    <2>1. UNCHANGED <<stack, pc, result, conn>> /\ UNCHANGED <<dirty, kept, lost>>
      BY <1>4 DEF Cancel, fateVars
    <2>2. \A t \in Tx : /\ Live(t)' <=> Live(t)
                        /\ status[t] = "doomed" => status'[t] = "doomed"
      BY <1>4 DEF Cancel, Live, LiveStates
    <2>3. \A q \in Procs : HeldTx(q)' = HeldTx(q)
      BY <2>1 DEF HeldTx, Top
    <2>4. ChainInv'
      BY <2>1, <2>3 DEF Inv, ChainInv
    <2>. QED
      BY <2>1, <2>2, <2>3, <2>4, QuietStep DEF Inv, TxInv
  <1>5. ASSUME NEW t \in Tx, RollbackDoomed(t)
        PROVE  Inv'
    <2>1. UNCHANGED <<stack, pc>>
      BY <1>5 DEF RollbackDoomed, callVars
    <2>2. ChainInv'
      BY <2>1 DEF Inv, ChainInv, HeldTx, Top
    <2>. QED
      BY <1>5, <2>2, RollbackDoomedStep DEF Inv, TxInv
  <1>6. CASE UNCHANGED vars
    <2>1. /\ UNCHANGED <<stack, pc, result>> /\ UNCHANGED <<status, conn>>
          /\ UNCHANGED <<dirty, kept, lost>>
      BY <1>6 DEF vars, callVars, txVars, fateVars
    <2>2. \A q \in Procs : HeldTx(q)' = HeldTx(q)
      BY <2>1 DEF HeldTx, Top
    <2>3. ChainInv'
      BY <2>1, <2>2 DEF Inv, ChainInv
    <2>4. \A t \in Tx : (Live(t)' <=> Live(t)) /\ status'[t] = status[t]
      BY <2>1 DEF Live
    <2>. QED
      BY <2>1, <2>2, <2>3, <2>4, QuietStep DEF Inv, TxInv
  <1>. QED
    BY <1>1, <1>2, <1>3, <1>4, <1>5, <1>6 DEF Next
-----------------------------------------------------------------------------
(***************************************************************************)
(* Search paths.  Whatever calls a program nests, the transaction of every *)
(* frame but the innermost, and of the innermost once its closure runs,    *)
(* has its search_path for as long as it lives.                            *)
(***************************************************************************)
PathAt(p, i) ==
    LET t == stack[p][i].tx IN
    t # NoTx /\ Live(t) /\ (i # 1 \/ pc[p] \in {"run", "fetch"}) => t \in path

PathInv == \A p \in Procs : \A i \in 1 .. Len(stack[p]) : PathAt(p, i)

\* No transaction comes to life, and no living one loses its search_path.
PathsStay == \A t \in Tx : Live(t)' => Live(t) /\ (t \in path => t \in path')

LEMMA EndTxPaths ==
    ASSUME Typed, NEW t \in Tx, NEW b \in BOOLEAN, EndTx(t, b)
    PROVE  PathsStay
  <1>1. path' = path \ {t}
    BY DEF EndTx
  <1>. QED
    BY <1>1, EndTxEffect DEF PathsStay

LEMMA PathEnter ==
    ASSUME Typed, PathInv, NEW p \in Procs,
           NEW fn \in {"WithTx", "stmt", "replace", "walk"},
           NEW s \in Shards, NEW t \in Tx \cup {NoTx},
           pc[p] \in {"idle", "run", "fetch"},
           t # NoTx => pc[p] # "idle" /\ t = Top(p).tx,
           Enter(p, fn, s, t)
    PROVE  PathInv'
  <1> DEFINE f == [fn |-> fn, shard |-> s, tx |-> t, own |-> t = NoTx]
  <1>1. /\ f \in Frame /\ f.tx = t
        /\ stack' = [stack EXCEPT ![p] = <<f>> \o stack[p]]
        /\ pc' = [pc EXCEPT ![p] = IF t = NoTx THEN "acquire" ELSE "run"]
        /\ stack \in [Procs -> Seq(Frame)] /\ pc \in [Procs -> PCs]
        /\ UNCHANGED <<status, path>>
    BY DEF Enter, Frame, Typed, TypeOK, txVars
  <1>. HIDE DEF f
  <1>2. /\ Len(stack'[p]) = Len(stack[p]) + 1
        /\ stack'[p][1] = f
        /\ \A i \in 2 .. Len(stack'[p]) : stack'[p][i] = stack[p][i - 1]
        /\ Len(stack[p]) \in Nat
    BY <1>1, PushProperties, LenProperties
  <1>3. t # NoTx /\ Live(t) => t \in path
    <2>. SUFFICES ASSUME t # NoTx, Live(t) PROVE t \in path
      OBVIOUS
    <2>1. /\ pc[p] \in {"run", "fetch"} /\ stack[p][1].tx = t
          /\ 1 \in 1 .. Len(stack[p])
      BY TopProperties
    <2>. QED
      BY <2>1 DEF PathInv, PathAt
  <1>4. ASSUME NEW i \in 1 .. Len(stack'[p]) PROVE PathAt(p, i)'
    <2>1. CASE i = 1
      BY <1>1, <1>2, <1>3, <2>1 DEF PathAt, Live
    <2>2. CASE i # 1
      <3>1. i - 1 \in 1 .. Len(stack[p]) /\ stack'[p][i] = stack[p][i - 1]
        BY <1>2, <2>2
      <3>2. i - 1 # 1 \/ pc[p] \in {"run", "fetch"}
        <4>1. stack[p] # <<>>
          BY <3>1, EmptySeq
        <4>. QED
          BY <4>1 DEF Typed, Shape
      <3>3. LET u == stack[p][i - 1].tx IN u # NoTx /\ Live(u) => u \in path
        BY <3>1, <3>2 DEF PathInv, PathAt
      <3>. QED
        BY <1>1, <3>1, <3>3 DEF PathAt, Live
    <2>. QED
      BY <2>1, <2>2
  <1>5. ASSUME NEW q \in Procs \ {p}, NEW i \in 1 .. Len(stack'[q]) PROVE PathAt(q, i)'
    <2>1. stack'[q] = stack[q] /\ pc'[q] = pc[q]
      BY <1>1
    <2>. QED
      BY <1>1, <2>1 DEF PathInv, PathAt, Live
  <1>. QED
    BY <1>4, <1>5 DEF PathInv

LEMMA PathLeave ==
    ASSUME Typed, PathInv, NEW p \in Procs, pc[p] # "idle",
           NEW r \in {"ok", "err", "panic"}, Leave(p, r), PathsStay
    PROVE  PathInv'
  <1> DEFINE rest == Tail(stack[p])
  <1>1. /\ stack' = [stack EXCEPT ![p] = rest]
        /\ \A q \in Procs \ {p} : pc'[q] = pc[q]
        /\ stack \in [Procs -> Seq(Frame)]
    BY DEF Leave, Typed, TypeOK
  <1>2. /\ Len(rest) = Len(stack[p]) - 1
        /\ Len(stack[p]) \in Nat
        /\ \A i \in 1 .. Len(rest) : rest[i] = stack[p][i + 1]
    BY TopProperties
  <1>. HIDE DEF rest
  <1>3. ASSUME NEW q \in Procs, NEW i \in 1 .. Len(stack[q])
        PROVE  stack[q][i].tx \in Tx \cup {NoTx}
    <2>1. stack[q][i] \in Frame
      BY <1>1, ElementOfSeq
    <2>. QED
      BY <2>1 DEF Frame
  <1>4. ASSUME NEW i \in 1 .. Len(stack'[p]) PROVE PathAt(p, i)'
    <2>1. /\ stack'[p][i] = stack[p][i + 1] /\ i + 1 \in 1 .. Len(stack[p])
          /\ i + 1 # 1
      BY <1>1, <1>2
    <2>2. PICK u : u = stack[p][i + 1].tx
      OBVIOUS
    <2>3. u \in Tx \cup {NoTx} /\ (u # NoTx /\ Live(u) => u \in path)
      BY <1>3, <2>1, <2>2 DEF PathInv, PathAt
    <2>4. u # NoTx /\ Live(u)' => u \in path'
      BY <2>3 DEF PathsStay
    <2>. QED
      BY <2>1, <2>2, <2>4 DEF PathAt, Live
  <1>5. ASSUME NEW q \in Procs \ {p}, NEW i \in 1 .. Len(stack'[q]) PROVE PathAt(q, i)'
    <2>1. stack'[q] = stack[q] /\ pc'[q] = pc[q]
      BY <1>1
    <2>2. PICK u : u = stack[q][i].tx
      OBVIOUS
    <2>3. u \in Tx \cup {NoTx} /\ PathAt(q, i)
      BY <1>3, <2>1, <2>2 DEF PathInv
    <2>4. u # NoTx /\ Live(u)' => Live(u) /\ (u \in path => u \in path')
      BY <2>3 DEF PathsStay
    <2>. QED
      BY <2>1, <2>2, <2>3, <2>4 DEF PathAt, Live
  <1>. QED
    BY <1>4, <1>5 DEF PathInv

LEMMA PathGoto ==
    ASSUME Typed, PathInv, NEW p \in Procs, pc[p] \notin {"idle", "acquire"},
           NEW l \in PCs, Goto(p, l), PathsStay,
           l \in {"run", "fetch"} => pc[p] = "run" \/ Top(p).tx \in path'
    PROVE  PathInv'
  <1>1. /\ UNCHANGED stack /\ pc' = [pc EXCEPT ![p] = l]
        /\ stack \in [Procs -> Seq(Frame)] /\ pc \in [Procs -> PCs]
    BY DEF Goto, Typed, TypeOK
  <1>2. ASSUME NEW q \in Procs, NEW i \in 1 .. Len(stack[q])
        PROVE  /\ stack[q][i].tx \in Tx \cup {NoTx}
               /\ q = p /\ i = 1 => stack[q][i].tx = Top(p).tx
    <2>1. stack[q][i] \in Frame
      BY <1>1, ElementOfSeq
    <2>2. Top(p) = stack[p][1]
      BY TopProperties
    <2>. QED
      BY <2>1, <2>2 DEF Frame
  <1>3. ASSUME NEW q \in Procs, NEW i \in 1 .. Len(stack'[q]) PROVE PathAt(q, i)'
    <2>0. PICK t : t = stack[q][i].tx
      OBVIOUS
    <2>1. /\ i \in 1 .. Len(stack[q]) /\ stack'[q][i].tx = t
          /\ t \in Tx \cup {NoTx} /\ (q = p /\ i = 1 => t = Top(p).tx)
      BY <1>1, <1>2, <2>0
    <2>2. t # NoTx /\ Live(t) /\ (i # 1 \/ pc[q] \in {"run", "fetch"}) => t \in path
      BY <2>0, <2>1 DEF PathInv, PathAt
    <2>3. q # p => pc'[q] = pc[q]
      BY <1>1
    <2>4. pc'[p] = l
      BY <1>1
    <2>5. t # NoTx /\ Live(t)' => Live(t) /\ (t \in path => t \in path')
      BY <2>1 DEF PathsStay
    <2>6. t # NoTx /\ Live(t)' /\ (i # 1 \/ pc'[q] \in {"run", "fetch"}) => t \in path'
      BY <2>1, <2>2, <2>3, <2>4, <2>5
    <2>. QED
      BY <2>1, <2>6 DEF PathAt, Live
  <1>. QED
    BY <1>3 DEF PathInv

LEMMA PathAcquire ==
    ASSUME Typed, PathInv, NEW p \in Procs, Acquire(p)
    PROVE  PathInv'
  <1>1. PICK t \in Tx \ Referenced :
            /\ status' = [status EXCEPT ![t] = "open"]
            /\ stack' = [stack EXCEPT ![p] = <<[Top(p) EXCEPT !.tx = t]>> \o Tail(stack[p])]
    BY DEF Acquire
  <1>2. /\ pc[p] = "acquire" /\ pc' = [pc EXCEPT ![p] = "path"] /\ UNCHANGED path
        /\ stack \in [Procs -> Seq(Frame)] /\ pc \in [Procs -> PCs]
        /\ status \in [Tx -> TxStates]
    BY DEF Acquire, Typed, TypeOK
  <1> DEFINE f == [Top(p) EXCEPT !.tx = t]
             rest == Tail(stack[p])
  <1>a. f \in Frame
    <2>1. Top(p) \in Frame /\ t \in Tx
      BY <1>2, TopProperties
    <2>. QED
      BY <2>1 DEF Frame
  <1>b. /\ rest \in Seq(Frame)
        /\ Len(stack[p]) \in Nat /\ Len(stack[p]) >= 1
        /\ Len(rest) = Len(stack[p]) - 1
        /\ \A i \in 1 .. Len(stack[p]) - 1 : rest[i] = stack[p][i + 1]
    BY <1>2, TopProperties
  <1>4. stack' = [stack EXCEPT ![p] = <<f>> \o rest]
    BY <1>1
  <1>. HIDE DEF f, rest
  <1>5. /\ Len(stack'[p]) = Len(stack[p])
        /\ \A i \in 2 .. Len(stack'[p]) : stack'[p][i] = stack[p][i]
    <2>1. /\ Len(stack'[p]) = Len(rest) + 1
          /\ \A i \in 2 .. Len(stack'[p]) : stack'[p][i] = rest[i - 1]
      BY <1>2, <1>a, <1>b, <1>4, PushProperties
    <2>2. Len(stack'[p]) = Len(stack[p])
      BY <1>b, <2>1
    <2>3. ASSUME NEW i \in 2 .. Len(stack'[p]) PROVE stack'[p][i] = stack[p][i]
      <3>1. i - 1 \in 1 .. Len(stack[p]) - 1 /\ (i - 1) + 1 = i
        BY <1>b, <2>2, <2>3
      <3>2. rest[i - 1] = stack[p][(i - 1) + 1]
        BY <1>b, <3>1
      <3>. QED
        BY <2>1, <2>3, <3>1, <3>2
    <2>. QED
      BY <2>2, <2>3
  <1>6. ASSUME NEW q \in Procs, NEW i \in 1 .. Len(stack[q]),
               NEW u, u = stack[q][i].tx, u # NoTx
        PROVE  status'[u] = status[u]
    <2>1. stack[q][i] \in Frame /\ stack[q][i] \in FramesOf(q)
      BY <1>2, ElementOfSeq DEF FramesOf
    <2>2. u \in Tx /\ u # t
      BY <1>1, <1>6, <2>1 DEF Frame, Referenced
    <2>. QED
      BY <1>1, <1>2, <2>2
  <1>7. ASSUME NEW i \in 1 .. Len(stack'[p]) PROVE PathAt(p, i)'
    <2>1. CASE i = 1
      BY <1>2, <2>1 DEF PathAt
    <2>2. CASE i # 1
      <3>1. i \in 2 .. Len(stack'[p]) /\ Len(stack'[p]) = Len(stack[p])
        BY <1>b, <1>5, <2>2
      <3>2. i \in 1 .. Len(stack[p]) /\ stack'[p][i] = stack[p][i]
        BY <1>b, <1>5, <3>1
      <3>3. PICK u : u = stack[p][i].tx
        OBVIOUS
      <3>4. u # NoTx /\ Live(u) => u \in path
        BY <2>2, <3>2, <3>3 DEF PathInv, PathAt
      <3>5. u # NoTx => status'[u] = status[u]
        BY <1>6, <3>2, <3>3
      <3>6. u # NoTx /\ Live(u)' => u \in path'
        BY <1>2, <3>4, <3>5 DEF Live
      <3>. QED
        BY <3>2, <3>3, <3>6 DEF PathAt, Live
    <2>. QED
      BY <2>1, <2>2
  <1>8. ASSUME NEW q \in Procs \ {p}, NEW i \in 1 .. Len(stack'[q]) PROVE PathAt(q, i)'
    <2>1. stack'[q] = stack[q] /\ pc'[q] = pc[q]
      BY <1>2, <1>4
    <2>2. PICK u : u = stack[q][i].tx
      OBVIOUS
    <2>3. u # NoTx /\ Live(u) /\ (i # 1 \/ pc[q] \in {"run", "fetch"}) => u \in path
      BY <1>8, <2>1, <2>2 DEF PathInv, PathAt
    <2>4. u # NoTx => status'[u] = status[u]
      BY <1>6, <1>8, <2>1, <2>2
    <2>5. u # NoTx /\ Live(u)' /\ (i # 1 \/ pc'[q] \in {"run", "fetch"}) => u \in path'
      BY <1>2, <2>1, <2>3, <2>4 DEF Live
    <2>. QED
      BY <2>1, <2>2, <2>5 DEF PathAt, Live
  <1>. QED
    BY <1>7, <1>8 DEF PathInv

LEMMA PathStoreStep ==
    ASSUME Typed, PathInv, NEW p \in Procs, StoreStep(p) \/ ReturnFromCallback(p)
    PROVE  PathInv'
  <1>. USE DEF PCs
  <1>0. \A t \in Tx : status' = status => Live(t)' <=> Live(t)
    BY DEF Live
  <1>1. ASSUME NEW t \in Tx, status[t] = "open", UNCHANGED path,
               status' = [status EXCEPT ![t] = "aborted"]
        PROVE  PathsStay
    BY <1>1, AbortInv DEF PathsStay
  <1>2. CASE AcquireFails(p)
    <2>1. pc[p] # "idle" /\ Leave(p, "err") /\ UNCHANGED <<status, path>>
      BY <1>2 DEF AcquireFails, txVars
    <2>. QED
      BY <1>0, <2>1, PathLeave DEF PathsStay
  <1>3. CASE SetSearchPath(p)
    <2>1. pc[p] = "path" /\ Top(p).tx \in Tx
      BY <1>3, TopProperties DEF SetSearchPath
    <2>2. CASE Goto(p, "run")
      <3>1. path' = path \cup {Top(p).tx} /\ UNCHANGED status
        BY <1>3, <2>1, <2>2 DEF SetSearchPath, Goto, Typed, TypeOK
      <3>. QED
        BY <1>0, <2>1, <2>2, <3>1, PathGoto DEF PathsStay
    <2>3. CASE ~Goto(p, "run")
      <3>1. /\ Goto(p, "err") /\ UNCHANGED path
            /\ \/ status' = status
               \/ /\ status[Top(p).tx] = "open"
                  /\ status' = [status EXCEPT ![Top(p).tx] = "aborted"]
        BY <1>3, <2>3 DEF SetSearchPath
      <3>2. PathsStay
        BY <1>0, <1>1, <2>1, <3>1 DEF PathsStay
      <3>. QED
        BY <2>1, <3>1, <3>2, PathGoto
    <2>. QED
      BY <2>2, <2>3
  <1>4. ASSUME pc[p] \in {"run", "fetch"}, NEW l \in {"ok", "err", "panic"},
               Goto(p, l), UNCHANGED path,
               \/ status' = status
               \/ /\ status[Top(p).tx] = "open"
                  /\ status' = [status EXCEPT ![Top(p).tx] = "aborted"]
        PROVE  PathInv'
    <2>1. Top(p).tx \in Tx
      BY <1>4, TopProperties
    <2>2. PathsStay
      BY <1>0, <1>1, <1>4, <2>1 DEF PathsStay
    <2>. QED
      BY <1>4, <2>2, PathGoto
  <1>5. CASE RunStatement(p)
    <2>1. /\ pc[p] = "run" /\ (Goto(p, "ok") \/ Goto(p, "err") \/ Goto(p, "panic"))
          /\ UNCHANGED path
          /\ \/ status' = status
             \/ /\ status[Top(p).tx] = "open"
                /\ status' = [status EXCEPT ![Top(p).tx] = "aborted"]
      BY <1>5 DEF RunStatement, txVars
    <2>. QED
      BY <1>4, <2>1
  <1>6. CASE RunReplace(p)
    <2>1. /\ pc[p] = "run" /\ Top(p).shard \in Shards /\ Top(p).tx \in Tx
          /\ (IF Top(p).own THEN NoTx ELSE Top(p).tx) \in {NoTx, Top(p).tx}
      BY <1>6, TopProperties DEF RunReplace, Frame
    <2>2. CASE Enter(p, "stmt", Top(p).shard, IF Top(p).own THEN NoTx ELSE Top(p).tx)
      BY <2>1, <2>2, PathEnter
    <2>3. CASE ~Enter(p, "stmt", Top(p).shard, IF Top(p).own THEN NoTx ELSE Top(p).tx)
      <3>1. (Goto(p, "err") \/ Goto(p, "panic")) /\ UNCHANGED <<status, path>>
        BY <1>6, <2>3 DEF RunReplace, txVars
      <3>. QED
        BY <1>4, <2>1, <3>1
    <2>. QED
      BY <2>2, <2>3
  <1>7. ASSUME pc[p] \in {"run", "fetch"}, WalkFails(p)
        PROVE  PathInv'
    <2>1. /\ Goto(p, "err") \/ Goto(p, "panic")
          /\ UNCHANGED path
          /\ \/ status' = status
             \/ /\ status[Top(p).tx] = "open"
                /\ status' = [status EXCEPT ![Top(p).tx] = "aborted"]
      BY <1>7 DEF WalkFails, txVars
    <2>. QED
      BY <1>4, <1>7, <2>1
  <1>8. CASE DeclareCursor(p)
    <2>1. CASE WalkFails(p)
      BY <1>7, <1>8, <2>1 DEF DeclareCursor
    <2>2. CASE ~WalkFails(p)
      <3>1. pc[p] = "run" /\ Goto(p, "fetch") /\ UNCHANGED <<status, path>>
        BY <1>8, <2>2 DEF DeclareCursor
      <3>. QED
        BY <1>0, <3>1, PathGoto DEF PathsStay
    <2>. QED
      BY <2>1, <2>2
  <1>9. CASE FetchRows(p)
    <2>1. pc[p] = "fetch" /\ Top(p).shard \in Shards /\ Top(p).tx \in Tx
      BY <1>9, TopProperties DEF FetchRows, Frame
    <2>2. CASE Enter(p, "WithTx", Top(p).shard, Top(p).tx)
      BY <2>1, <2>2, PathEnter
    <2>. QED
      BY <1>7, <1>9, <2>1, <2>2 DEF FetchRows
  <1>10. CASE FetchNothing(p)
    <2>1. pc[p] = "fetch" /\ Goto(p, "ok") /\ UNCHANGED <<status, path>>
      BY <1>10 DEF FetchNothing, txVars
    <2>. QED
      BY <1>4, <2>1
  <1>11. CASE LeaveJoined(p)
    <2>1. pc[p] \in {"ok", "err", "panic"} /\ Leave(p, pc[p]) /\ UNCHANGED <<status, path>>
      BY <1>11 DEF LeaveJoined, Ended, txVars
    <2>. QED
      BY <1>0, <2>1, PathLeave DEF PathsStay
  <1>12. CASE Commit(p)
    <2>1. pc[p] # "idle" /\ (Leave(p, "ok") \/ Leave(p, "err")) /\ Top(p).tx \in Tx
      BY <1>12, TopProperties DEF Commit
    <2>2. \/ EndTx(Top(p).tx, TRUE)
          \/ EndTx(Top(p).tx, FALSE)
          \/ UNCHANGED <<status, path>>
      BY <1>12 DEF Commit, txVars
    <2>3. PathsStay
      BY <1>0, <2>1, <2>2, EndTxPaths DEF PathsStay
    <2>. QED
      BY <2>1, <2>3, PathLeave
  <1>13. CASE Rollback(p)
    <2>1. pc[p] # "idle" /\ Leave(p, "err") /\ Top(p).tx \in Tx
      BY <1>13, TopProperties DEF Rollback
    <2>2. EndTx(Top(p).tx, FALSE) \/ UNCHANGED <<status, path>>
      BY <1>13 DEF Rollback, txVars
    <2>3. PathsStay
      BY <1>0, <2>1, <2>2, EndTxPaths DEF PathsStay
    <2>. QED
      BY <2>1, <2>3, PathLeave
  <1>14. CASE ReturnFromCallback(p)
    <2>1. /\ pc[p] = "run" /\ (Goto(p, "ok") \/ Goto(p, "err") \/ Goto(p, "panic"))
          /\ UNCHANGED <<status, path>>
      BY <1>14 DEF ReturnFromCallback, txVars
    <2>. QED
      BY <1>4, <2>1
  <1>. QED
    BY <1>2, <1>3, <1>5, <1>6, <1>8, <1>9, <1>10, <1>11, <1>12, <1>13, <1>14 DEF StoreStep

LEMMA PathCallStep ==
    ASSUME Typed, PathInv, NEW p \in Procs, CallStep(p)
    PROVE  PathInv'
  <1>1. ASSUME NEW fn \in {"WithTx", "stmt", "replace", "walk"},
               NEW c \in Contexts(p), NEW s \in Shards,
               NEW t \in {c.tx, NoTx}, Enter(p, fn, s, t)
        PROVE  PathInv'
    <2>1. /\ c.shard \in Shards /\ c.tx \in Tx \cup {NoTx}
          /\ pc[p] \in {"idle", "run"}
          /\ pc[p] = "idle" => c.tx = NoTx
          /\ pc[p] # "idle" => c.tx = Top(p).tx
      BY ContextsType
    <2>. QED
      BY <1>1, <2>1, PathEnter
  <1>2. \A c \in Contexts(p) : c.shard \in Shards
    BY ContextsType
  <1>3. CASE CallWithTx(p)
    BY <1>1, <1>2, <1>3 DEF CallWithTx
  <1>4. CASE CallWithTxInShard(p)
    <2>1. PICK c \in Contexts(p), s \in Shards :
              Enter(p, "WithTx", s, IF c.shard = s THEN c.tx ELSE NoTx)
      BY <1>4 DEF CallWithTxInShard
    <2>. QED
      BY <1>1, <2>1
  <1>5. CASE CallShardWithTx(p)
    BY <1>1, <1>5 DEF CallShardWithTx
  <1>6. CASE CallStatement(p)
    BY <1>1, <1>2, <1>6 DEF CallStatement
  <1>7. CASE CallReplace(p)
    BY <1>1, <1>2, <1>7 DEF CallReplace
  <1>8. CASE CallCursorWalk(p)
    BY <1>1, <1>2, <1>8 DEF CallCursorWalk
  <1>9. CASE RefuseCursorWalk(p)
    <2>1. UNCHANGED <<stack, pc, status, path>>
      BY <1>9 DEF RefuseCursorWalk, txVars
    <2>. QED
      BY <2>1 DEF PathInv, PathAt, Live
  <1>. QED
    BY <1>3, <1>4, <1>5, <1>6, <1>7, <1>8, <1>9 DEF CallStep

LEMMA PathStep == Typed /\ PathInv /\ [Next]_vars => PathInv'
  <1>. SUFFICES ASSUME Typed, PathInv, [Next]_vars PROVE PathInv'
    OBVIOUS
  <1>1. ASSUME UNCHANGED <<stack, pc>>, PathsStay PROVE PathInv'
    <2>. SUFFICES ASSUME NEW p \in Procs, NEW i \in 1 .. Len(stack[p]),
                         NEW t, t = stack[p][i].tx
                  PROVE  /\ t # NoTx /\ Live(t)' /\ (i # 1 \/ pc[p] \in {"run", "fetch"})
                         => t \in path'
      BY <1>1 DEF PathInv, PathAt, Live
    <2>1. stack[p][i] \in Frame
      BY ElementOfSeq DEF Typed, TypeOK
    <2>2. t \in Tx \cup {NoTx} /\ PathAt(p, i)
      BY <2>1 DEF Frame, PathInv
    <2>. QED
      BY <1>1, <2>2 DEF PathsStay, PathAt
  <1>2. ASSUME NEW p \in Procs, CallStep(p) PROVE PathInv'
    BY <1>2, PathCallStep
  <1>3. ASSUME NEW p \in Procs, Acquire(p) PROVE PathInv'
    BY <1>3, PathAcquire
  <1>4. ASSUME NEW p \in Procs, StoreStep(p) \/ ReturnFromCallback(p) PROVE PathInv'
    BY <1>4, PathStoreStep
  <1>5. ASSUME NEW p \in Procs, Cancel(p) PROVE PathInv'
    <2>1. UNCHANGED <<stack, pc, path>>
      BY <1>5 DEF Cancel
    <2>2. \A t \in Tx : Live(t)' <=> Live(t)
      BY <1>5 DEF Cancel, Live, LiveStates
    <2>. QED
      BY <1>1, <2>1, <2>2 DEF PathsStay
  <1>6. ASSUME NEW t \in Tx, RollbackDoomed(t) PROVE PathInv'
    <2>1. UNCHANGED <<stack, pc>> /\ EndTx(t, FALSE)
      BY <1>6 DEF RollbackDoomed, callVars
    <2>. QED
      BY <1>1, <2>1, EndTxPaths
  <1>7. CASE UNCHANGED vars
    <2>1. UNCHANGED <<stack, pc>> /\ UNCHANGED <<status, path>>
      BY <1>7 DEF vars, callVars, txVars
    <2>. QED
      BY <1>1, <2>1 DEF PathsStay, Live
  <1>. QED
    BY <1>2, <1>3, <1>4, <1>5, <1>6, <1>7 DEF Next

\* Whatever a program nests and whatever fails, no closure runs in a live
\* transaction before set_config succeeded in it (WithBeginTx).
THEOREM SearchPathSetHolds == Spec => []SearchPathSet
  <1>1. Init => PathInv
    <2>. SUFFICES ASSUME Init, NEW p \in Procs PROVE 1 .. Len(stack[p]) = {}
      BY DEF PathInv
    <2>1. stack[p] = <<>> /\ Len(stack[p]) = 0
      BY EmptySeq DEF Init
    <2>. QED
      BY <2>1
  <1>2. Typed /\ PathInv => SearchPathSet
    <2>. SUFFICES ASSUME Typed, PathInv, NEW p \in Procs, pc[p] = "run", Live(Top(p).tx)
                  PROVE  Top(p).tx \in path
      BY DEF SearchPathSet
    <2>1. /\ Top(p).tx \in Tx /\ Top(p) = stack[p][1]
          /\ 1 \in 1 .. Len(stack[p])
      BY TopProperties
    <2>. QED
      BY <2>1, ConstantsAssumption DEF PathInv, PathAt
  <1>. QED
    BY <1>1, <1>2, PathStep, TypeCorrect, PTL DEF Spec
-----------------------------------------------------------------------------
\* Every variable keeps its type, whatever the program and the environment do.
THEOREM TypesHold == Spec => []TypeOK
  <1>1. Typed => TypeOK
    BY DEF Typed
  <1>. QED
    BY <1>1, TypeCorrect, PTL

\* For well-behaved programs the chains of calls, the holders of transactions
\* and the fates of writes stay consistent (WithTx and WithBeginTx).
THEOREM InvHolds ==
  ASSUME WellBehaved
  PROVE  Spec => []Inv
  <1>1. Init => Inv
    BY InvInit
  <1>2. Typed /\ Inv /\ [Next]_vars => Inv'
    BY InvStep
  <1>. QED
    BY <1>1, <1>2, TypeCorrect, PTL DEF Spec

\* A store call made inside a transaction never begins a second one.
THEOREM OneTxPerChainHolds ==
  ASSUME WellBehaved
  PROVE  Spec => []OneTxPerChain
  <1>1. Inv => OneTxPerChain
    BY DEF Inv, ChainInv, OneTxPerChain
  <1>. QED
    BY <1>1, InvHolds, PTL

\* A goroutine that waits for a connection in BeginTxx holds none.
THEOREM NoHoldAndWaitHolds ==
  ASSUME WellBehaved
  PROVE  Spec => []NoHoldAndWait
  <1>1. Inv => NoHoldAndWait
    BY DEF Inv, ChainInv, NoHoldAndWait, FramesOf
  <1>. QED
    BY <1>1, InvHolds, PTL

\* The writes of an outermost call are committed together or rolled back
\* together.
THEOREM AllOrNothingHolds ==
  ASSUME WellBehaved
  PROVE  Spec => []AllOrNothing
  <1>1. Typed /\ Inv => AllOrNothing
    <2>. SUFFICES ASSUME Typed, FateInv, NEW p \in kept
                  PROVE  p \notin lost /\ \A t \in Tx : p \notin dirty[t]
      BY DEF AllOrNothing, Inv
    <2>1. p \in Procs
      BY DEF Typed, TypeOK
    <2>. QED
      BY <2>1 DEF FateInv
  <1>. QED
    BY <1>1, InvHolds, TypeCorrect, PTL

\* What a call returned tells what became of its writes.
THEOREM ResultTellsFateHolds ==
  ASSUME WellBehaved
  PROVE  Spec => []ResultTellsFate
  <1>1. Typed /\ Inv => ResultTellsFate
    <2>. SUFFICES ASSUME Typed, FateInv, NEW p \in Procs
                  PROVE  /\ result[p] = "ok" =>
                             p \notin lost /\ \A t \in Tx : p \notin dirty[t]
                         /\ result[p] = "err" /\ "lostReply" \notin Faults =>
                             p \notin kept
                         /\ result[p] = "panic" =>
                             p \notin kept \cup lost /\ \A t \in Tx : p \notin dirty[t]
      BY DEF ResultTellsFate, Inv
    <2>1. /\ pc[p] # "idle" => result[p] = "none"
          /\ \A t \in Tx : p \in dirty[t] /\ pc[p] = "idle" => result[p] = "err"
          /\ p \in lost /\ pc[p] = "idle" => result[p] = "err"
          /\ p \in kept => result[p] = "ok" \/ (result[p] = "err" /\ "lostReply" \in Faults)
      BY DEF FateInv
    <2>. QED
      BY <2>1
  <1>. QED
    BY <1>1, InvHolds, TypeCorrect, PTL

\* No return, error or panic leaks a connection or a transaction.
THEOREM NoLeakHolds ==
  ASSUME WellBehaved
  PROVE  Spec => []NoLeak
  <1>1. ASSUME Typed, ChainInv, NEW p \in Procs, NEW t \in Tx, HeldTx(p) = t
        PROVE  \E f \in FramesOf(p) : f.own /\ f.tx = t
    <2>1. HeldTx(p) # NoTx
      BY <1>1, ConstantsAssumption
    <2>2. pc[p] # "idle"
      BY <1>1, <2>1, HeldTxType
    <2>3. Len(stack[p]) \in 1 .. Len(stack[p]) /\ stack[p] # <<>>
      BY <1>1, <2>2, TopProperties
    <2>4. stack[p][Len(stack[p])].own
      BY <1>1, <2>3 DEF Typed, Shape
    <2>5. stack[p][Len(stack[p])].tx = t
      BY <1>1, <2>3 DEF ChainInv
    <2>. QED
      BY <2>3, <2>4, <2>5 DEF FramesOf
  <1>2. Typed /\ Inv => NoLeak
    <2>. SUFFICES ASSUME Typed, ChainInv, HolderInv
                  PROVE  NoLeak
      BY DEF Inv
    <2>. QED
      BY <1>1 DEF HolderInv, NoLeak
  <1>. QED
    BY <1>2, InvHolds, TypeCorrect, PTL
-----------------------------------------------------------------------------
(***************************************************************************)
(* The promise to callers.  The kinds of step there are, seen from the     *)
(* results of calls and the fates of their writes, each of which is a step *)
(* of AtomicCalls or changes nothing there.                                *)
(***************************************************************************)

\* Undecided writes in a transaction are those of one call, which has no other
\* writes, and no other call holds the transaction.
SoleInv ==
    \A p \in Procs, t \in Tx : p \in dirty[t] =>
        /\ p \notin lost
        /\ \A q \in Procs : q \in dirty[t] \/ HeldTx(q) = t => q = p
        /\ \A u \in Tx : p \in dirty[u] => u = t

Quiet ==
    /\ UNCHANGED <<result, dirty, kept, lost>>
    /\ \A q \in Procs, t \in Tx : HeldTx(q)' = t => HeldTx(q) = t \/ dirty[t] = {}

Starts(p) ==
    /\ \E r \in {"none", "err", "panic"} : FreshCall(p, r)
    /\ \A q \in Procs : HeldTx(q)' = HeldTx(q)

Writes(p) ==
    /\ pc[p] # "idle"
    /\ \E t \in Tx : /\ HeldTx(p) = t /\ Live(t)
                     /\ dirty' = [dirty EXCEPT ![t] = @ \cup {p}]
    /\ UNCHANGED <<result, kept, lost>>
    /\ \A q \in Procs : HeldTx(q)' = HeldTx(q)

Returns(p, r) ==
    /\ pc[p] # "idle"
    /\ result' = [result EXCEPT ![p] = r]
    /\ HeldTx(p)' = NoTx
    /\ \A q \in Procs \ {p} : HeldTx(q)' = HeldTx(q)

EndsWith(p, r) ==
    /\ Returns(p, r)
    /\ \E t \in Tx : /\ HeldTx(p) = t /\ Live(t)
                     /\ \/ EndTx(t, TRUE) /\ (r = "ok" \/ "lostReply" \in Faults)
                        \/ EndTx(t, FALSE) /\ r = "err"

FailsWith(p) == Returns(p, "err") /\ UNCHANGED <<dirty, kept, lost>>

LEMMA FateValue ==
    ASSUME NEW p \in Procs
    PROVE  /\ Fate[p] = IF p \in kept THEN "durable"
                        ELSE IF p \in lost THEN "undone"
                        ELSE IF \E t \in Tx : p \in dirty[t] THEN "tentative" ELSE "clean"
           /\ Fate'[p] = IF p \in kept' THEN "durable"
                         ELSE IF p \in lost' THEN "undone"
                         ELSE IF \E t \in Tx : p \in dirty'[t] THEN "tentative" ELSE "clean"
  BY DEF Fate

LEMMA OneValueChanges ==
    ASSUME NEW S, NEW F, NEW G, F = [x \in S |-> F[x]], G = [x \in S |-> G[x]],
           NEW p \in S, NEW v, G[p] = v, \A q \in S \ {p} : G[q] = F[q]
    PROVE  G = [F EXCEPT ![p] = v]
  OBVIOUS

\* One goroutine's fate changes.
LEMMA FateChange ==
    ASSUME NEW p \in Procs, NEW v,
           Fate'[p] = v, \A q \in Procs \ {p} : Fate'[q] = Fate[q]
    PROVE  Fate' = [Fate EXCEPT ![p] = v]
  <1>1. Fate = [q \in Procs |-> Fate[q]] /\ Fate' = [q \in Procs |-> Fate'[q]]
    BY DEF Fate
  <1>. QED
    BY <1>1, OneValueChanges

LEMMA FateStays ==
    ASSUME \A q \in Procs : Fate'[q] = Fate[q]
    PROVE  Fate' = Fate
  BY DEF Fate

LEMMA QuietRefines ==
    ASSUME Typed, SoleInv, Quiet
    PROVE  SoleInv' /\ UNCHANGED Promise!vars
  <1>1. SoleInv'
    BY DEF SoleInv, Quiet
  <1>2. UNCHANGED <<result, Fate>>
    BY DEF Quiet, Fate
  <1>. QED
    BY <1>1, <1>2 DEF Promise!vars

LEMMA StartRefines ==
    ASSUME Typed, SoleInv, NEW p \in Procs, Starts(p)
    PROVE  SoleInv' /\ (Promise!Call(p) \/ Promise!Refuse(p))
  <1>0. PICK r \in {"none", "err", "panic"} : FreshCall(p, r)
    BY DEF Starts
  <1>1. /\ result' = [result EXCEPT ![p] = r]
        /\ dirty' = [t \in Tx |-> dirty[t] \ {p}]
        /\ kept' = kept \ {p}
        /\ lost' = lost \ {p}
    BY <1>0 DEF FreshCall
  <1>2. \A q \in Procs : HeldTx(q)' = HeldTx(q)
    BY DEF Starts
  <1>3. SoleInv'
    BY <1>1, <1>2 DEF SoleInv
  <1>4. Fate'[p] = "clean" /\ \A q \in Procs \ {p} : Fate'[q] = Fate[q]
    BY <1>1, FateValue
  <1>. QED
    BY <1>0, <1>1, <1>3, <1>4, FateChange DEF Promise!Call, Promise!Refuse, Promise!Begin

LEMMA WriteRefines ==
    ASSUME Typed, TxInv, SoleInv, NEW p \in Procs, Writes(p)
    PROVE  SoleInv' /\ Promise!Write(p)
  <1>1. PICK t \in Tx : /\ HeldTx(p) = t /\ Live(t)
                        /\ dirty' = [dirty EXCEPT ![t] = @ \cup {p}]
    BY DEF Writes
  <1>2. /\ pc[p] # "idle" /\ UNCHANGED <<result, kept, lost>>
        /\ \A q \in Procs : HeldTx(q)' = HeldTx(q)
        /\ dirty \in [Tx -> SUBSET Procs]
    BY DEF Writes, Typed, TypeOK
  <1>3. /\ result[p] = "none" /\ p \notin kept /\ p \notin lost
        /\ \A u \in Tx : p \in dirty[u] => u = t
    BY <1>1, <1>2 DEF TxInv, FateInv
  <1>4. \A q \in Procs : q \in dirty[t] \/ HeldTx(q) = t => q = p
    BY <1>1, ConstantsAssumption DEF SoleInv, TxInv, HolderInv
  <1>5. \A q \in Procs, u \in Tx : q \in dirty'[u] <=> q \in dirty[u] \/ (q = p /\ u = t)
    BY <1>1, <1>2
  <1>6. SoleInv'
    BY <1>2, <1>3, <1>4, <1>5 DEF SoleInv
  <1>7. Fate[p] \in {"clean", "tentative"}
    BY <1>3, FateValue
  <1>8. Fate'[p] = "tentative" /\ \A q \in Procs \ {p} : Fate'[q] = Fate[q]
    BY <1>2, <1>3, <1>5, FateValue
  <1>. QED
    BY <1>2, <1>3, <1>6, <1>7, <1>8, FateChange DEF Promise!Write

LEMMA EndRefines ==
    ASSUME Typed, TxInv, SoleInv, NEW p \in Procs, NEW r \in {"ok", "err"}, EndsWith(p, r)
    PROVE  SoleInv' /\ (Promise!Succeed(p) \/ Promise!Fail(p))
  <1>1. PICK t \in Tx : /\ HeldTx(p) = t /\ Live(t)
                        /\ \/ EndTx(t, TRUE) /\ (r = "ok" \/ "lostReply" \in Faults)
                           \/ EndTx(t, FALSE) /\ r = "err"
    BY DEF EndsWith
  <1>2. /\ pc[p] # "idle" /\ result' = [result EXCEPT ![p] = r]
        /\ HeldTx(p)' = NoTx
        /\ \A q \in Procs \ {p} : HeldTx(q)' = HeldTx(q)
    BY DEF EndsWith, Returns
  <1>3. /\ result[p] = "none" /\ p \notin kept /\ p \notin lost
        /\ \A u \in Tx : p \in dirty[u] => u = t
    BY <1>1, <1>2, ConstantsAssumption DEF TxInv, FateInv
  <1>4. \A q \in Procs : q \in dirty[t] => q = p
    BY <1>1 DEF SoleInv
  <1>5. /\ \A u \in Tx, q \in Procs : q \in dirty'[u] <=> q \in dirty[u] /\ u # t
        /\ \/ EndTx(t, TRUE) /\ kept' = kept \cup dirty[t] /\ lost' = lost
           \/ EndTx(t, FALSE) /\ kept' = kept /\ lost' = lost \cup dirty[t]
    BY <1>1, EndTxEffect
  <1>6. SoleInv'
    <2>. SUFFICES ASSUME NEW q \in Procs, NEW u \in Tx, q \in dirty'[u]
                  PROVE  /\ q \notin lost'
                         /\ \A s \in Procs : s \in dirty'[u] \/ HeldTx(s)' = u => s = q
                         /\ \A v \in Tx : q \in dirty'[v] => v = u
      BY DEF SoleInv
    <2>1. q \in dirty[u] /\ u # t /\ q # p
      BY <1>3, <1>5
    <2>2. q \notin dirty[t] /\ q \notin lost
      BY <1>4, <2>1 DEF SoleInv
    <2>. QED
      BY <1>2, <1>5, <2>1, <2>2, ConstantsAssumption DEF SoleInv
  <1>7. /\ Fate[p] = IF p \in dirty[t] THEN "tentative" ELSE "clean"
        /\ \A q \in Procs \ {p} : Fate'[q] = Fate[q]
    <2>1. Fate[p] = IF p \in dirty[t] THEN "tentative" ELSE "clean"
      BY <1>3, FateValue
    <2>2. ASSUME NEW q \in Procs \ {p} PROVE Fate'[q] = Fate[q]
      <3>1. (q \in kept' <=> q \in kept) /\ (q \in lost' <=> q \in lost)
        BY <1>4, <1>5
      <3>2. \A u \in Tx : q \in dirty'[u] <=> q \in dirty[u]
        BY <1>4, <1>5
      <3>. QED
        BY <3>1, <3>2, FateValue
    <2>. QED
      BY <2>1, <2>2
  <1>8. \A u \in Tx : p \notin dirty'[u]
    BY <1>3, <1>5
  <1>9. CASE EndTx(t, TRUE) /\ kept' = kept \cup dirty[t] /\ lost' = lost
    <2>1. Fate'[p] = IF p \in dirty[t] THEN "durable" ELSE "clean"
      BY <1>3, <1>8, <1>9, FateValue
    <2>2. CASE r = "ok"
      <3>1. Fate' = [Fate EXCEPT ![p] = IF Fate[p] = "tentative" THEN "durable" ELSE Fate[p]]
        BY <1>7, <2>1, FateChange
      <3>2. Fate[p] \in {"clean", "tentative"}
        BY <1>7
      <3>. QED
        BY <1>2, <1>3, <1>6, <2>2, <3>1, <3>2 DEF Promise!Succeed
    <2>3. CASE r = "err" /\ p \in dirty[t]
      <3>1. Fate' = [Fate EXCEPT ![p] = "durable"]
        BY <1>7, <2>1, <2>3, FateChange
      <3>2. "lostReply" \in Faults \/ EndTx(t, FALSE)
        BY <1>1, <2>3
      <3>3. "lostReply" \in Faults
        BY <1>1, <1>3, <1>5, <1>9, <2>3, <3>2, EndTxEffect
      <3>. QED
        BY <1>2, <1>3, <1>6, <1>7, <2>3, <3>1, <3>3 DEF Promise!Fail
    <2>4. CASE r = "err" /\ p \notin dirty[t]
      <3>1. Fate' = Fate
        BY <1>7, <2>1, <2>4, FateStays
      <3>. QED
        BY <1>2, <1>3, <1>6, <1>7, <2>4, <3>1 DEF Promise!Fail
    <2>. QED
      BY <2>2, <2>3, <2>4
  <1>10. CASE EndTx(t, FALSE) /\ kept' = kept /\ lost' = lost \cup dirty[t]
    <2>1. Fate'[p] = IF p \in dirty[t] THEN "undone" ELSE "clean"
      BY <1>3, <1>8, <1>10, FateValue
    <2>2. p \in dirty[t] => r = "err"
      <3>1. ASSUME EndTx(t, TRUE), p \in dirty[t] PROVE FALSE
        <4>1. kept' = kept \cup dirty[t]
          BY <3>1, EndTxEffect
        <4>. QED
          BY <1>3, <1>10, <3>1, <4>1
      <3>. QED
        BY <1>1, <3>1
    <2>3. CASE p \in dirty[t]
      <3>1. Fate' = [Fate EXCEPT ![p] = "undone"]
        BY <1>7, <2>1, <2>3, FateChange
      <3>. QED
        BY <1>2, <1>3, <1>6, <1>7, <2>2, <2>3, <3>1 DEF Promise!Fail
    <2>4. CASE p \notin dirty[t]
      <3>1. Fate' = Fate
        BY <1>7, <2>1, <2>4, FateStays
      <3>2. CASE r = "err"
        BY <1>2, <1>3, <1>6, <1>7, <2>4, <3>1, <3>2 DEF Promise!Fail
      <3>3. CASE r = "ok"
        <4>1. Fate' = [Fate EXCEPT ![p] = IF Fate[p] = "tentative" THEN "durable" ELSE Fate[p]]
          BY <1>7, <2>1, <2>4, FateChange
        <4>. QED
          BY <1>2, <1>3, <1>6, <1>7, <2>4, <3>3, <4>1 DEF Promise!Succeed
      <3>. QED
        BY <3>2, <3>3
    <2>. QED
      BY <2>3, <2>4
  <1>. QED
    BY <1>5, <1>9, <1>10

LEMMA FailRefines ==
    ASSUME Typed, TxInv, SoleInv, NEW p \in Procs, FailsWith(p)
    PROVE  SoleInv' /\ Promise!Fail(p)
  <1>1. /\ pc[p] # "idle" /\ result' = [result EXCEPT ![p] = "err"]
        /\ HeldTx(p)' = NoTx
        /\ \A q \in Procs \ {p} : HeldTx(q)' = HeldTx(q)
        /\ UNCHANGED <<dirty, kept, lost>>
    BY DEF FailsWith, Returns
  <1>2. result[p] = "none" /\ p \notin kept
    BY <1>1 DEF TxInv, FateInv
  <1>3. SoleInv'
    BY <1>1, ConstantsAssumption DEF SoleInv
  <1>4. Fate' = Fate
    BY <1>1 DEF Fate
  <1>5. Fate[p] \in {"clean", "undone", "tentative"}
    BY <1>2, FateValue
  <1>. QED
    BY <1>1, <1>2, <1>3, <1>4, <1>5 DEF Promise!Fail

LEMMA RollbackDoomedRefines ==
    ASSUME Typed, TxInv, SoleInv, NEW t \in Tx, RollbackDoomed(t)
    PROVE  /\ SoleInv'
           /\ UNCHANGED Promise!vars \/ \E p \in Procs : Promise!Undo(p)
  <1>1. UNCHANGED <<stack, pc, result>> /\ EndTx(t, FALSE)
    BY DEF RollbackDoomed, callVars
  <1>2. \A q \in Procs : HeldTx(q)' = HeldTx(q)
    BY <1>1 DEF HeldTx, Top
  <1>3. /\ \A u \in Tx, q \in Procs : q \in dirty'[u] <=> q \in dirty[u] /\ u # t
        /\ kept' = kept /\ lost' = lost \cup dirty[t]
    BY <1>1, EndTxEffect
  <1>4. SoleInv'
    BY <1>2, <1>3 DEF SoleInv
  <1>5. CASE \A q \in Procs : q \notin dirty[t]
    <2>1. lost' = lost
      BY <1>3, <1>5 DEF Typed, TypeOK
    <2>2. \A q \in Procs : \A u \in Tx : q \in dirty'[u] <=> q \in dirty[u]
      BY <1>3, <1>5
    <2>3. Fate' = Fate
      BY <1>3, <2>1, <2>2, FateValue, FateStays
    <2>. QED
      BY <1>1, <1>4, <2>3 DEF Promise!vars
  <1>6. ASSUME NEW p \in Procs, p \in dirty[t]
        PROVE  Promise!Undo(p)
    <2>1. /\ p \notin lost /\ \A q \in Procs : q \in dirty[t] => q = p
          /\ \A u \in Tx : p \in dirty[u] => u = t
      BY <1>6 DEF SoleInv
    <2>2. result[p] \in {"none", "err"} /\ p \notin kept
      BY <1>6 DEF TxInv, FateInv
    <2>3. Fate[p] = "tentative"
      BY <1>6, <2>1, <2>2, FateValue
    <2>4. Fate'[p] = "undone"
      BY <1>3, <1>6, <2>2, FateValue
    <2>5. ASSUME NEW q \in Procs \ {p} PROVE Fate'[q] = Fate[q]
      <3>1. (q \in lost' <=> q \in lost) /\ \A u \in Tx : q \in dirty'[u] <=> q \in dirty[u]
        BY <1>3, <2>1
      <3>. QED
        BY <1>3, <3>1, FateValue
    <2>. QED
      BY <1>1, <2>2, <2>3, <2>4, <2>5, FateChange DEF Promise!Undo
  <1>. QED
    BY <1>4, <1>5, <1>6

\* Every step is of one of these kinds.
LEMMA WalkFailsKind ==
    ASSUME Typed, NEW p \in Procs, WalkFails(p)
    PROVE  Quiet
  BY DEF WalkFails, Goto, Quiet, txVars, fateVars, HeldTx, Top

LEMMA EnterKind ==
    ASSUME Typed, Inv, NEW p \in Procs,
           NEW fn \in {"WithTx", "stmt", "replace", "walk"},
           NEW s \in Shards, NEW t \in Tx \cup {NoTx},
           pc[p] \in {"idle", "run", "fetch"}, t = HeldTx(p),
           pc[p] = "idle" => fn \notin {"replace", "walk"},
           Enter(p, fn, s, t)
    PROVE  Starts(p) \/ Quiet
  <1>1. \A q \in Procs : HeldTx(q)' = HeldTx(q)
    BY ChainEnter DEF Inv
  <1>2. StartCall(p)
    BY DEF Enter
  <1>3. pc[p] # "idle" => UNCHANGED result /\ UNCHANGED <<dirty, kept, lost>>
    BY <1>2 DEF StartCall, fateVars
  <1>. QED
    BY <1>1, <1>2, <1>3 DEF Starts, Quiet, StartCall

LEMMA CallKind ==
    ASSUME WellBehaved, Typed, Inv, NEW p \in Procs, CallStep(p)
    PROVE  Starts(p) \/ Quiet
  <1>1. ASSUME NEW c \in Contexts(p)
        PROVE  /\ pc[p] \in {"idle", "run"}
               /\ c.shard \in Shards /\ c.tx \in Tx \cup {NoTx}
               /\ c.tx = HeldTx(p)
               /\ pc[p] = "idle" => c.tx = NoTx
    <2>1. CASE pc[p] = "idle"
      BY <2>1, ContextsType, HeldTxType
    <2>2. CASE pc[p] # "idle"
      BY <2>2, ContextsType, HeldTxType
    <2>. QED
      BY <2>1, <2>2
  <1>2. CASE CallWithTx(p)
    BY <1>1, <1>2, EnterKind DEF CallWithTx
  <1>3. CASE CallWithTxInShard(p)
    <2>1. PICK c \in Contexts(p), s \in Shards :
              /\ c.shard = s \/ c.tx = NoTx
              /\ Enter(p, "WithTx", s, IF c.shard = s THEN c.tx ELSE NoTx)
      BY <1>3 DEF CallWithTxInShard
    <2>2. (IF c.shard = s THEN c.tx ELSE NoTx) = c.tx
      BY <2>1
    <2>. QED
      BY <1>1, <2>1, <2>2, EnterKind
  <1>4. CASE CallShardWithTx(p)
    BY <1>4 DEF CallShardWithTx, WellBehaved
  <1>5. CASE CallStatement(p)
    BY <1>1, <1>5, EnterKind DEF CallStatement
  <1>6. CASE CallReplace(p)
    <2>1. PICK c \in Contexts(p) : c.tx # NoTx /\ Enter(p, "replace", c.shard, c.tx)
      BY <1>6 DEF CallReplace, WellBehaved
    <2>. QED
      BY <1>1, <2>1, EnterKind
  <1>7. CASE CallCursorWalk(p)
    <2>1. PICK c \in Contexts(p) : c.tx # NoTx /\ Enter(p, "walk", c.shard, c.tx)
      BY <1>7 DEF CallCursorWalk
    <2>. QED
      BY <1>1, <2>1, EnterKind
  <1>8. CASE RefuseCursorWalk(p)
    <2>1. \E r \in {"err", "panic"} : FreshCall(p, r)
      BY <1>8 DEF RefuseCursorWalk
    <2>2. \A q \in Procs : HeldTx(q)' = HeldTx(q)
      BY <1>8 DEF RefuseCursorWalk, HeldTx, Top
    <2>. QED
      BY <2>1, <2>2 DEF Starts
  <1>. QED
    BY <1>2, <1>3, <1>4, <1>5, <1>6, <1>7, <1>8 DEF CallStep

LEMMA LeaveKind ==
    ASSUME Typed, Inv, NEW p \in Procs, pc[p] # "idle",
           NEW r \in {"ok", "err", "panic"}, Leave(p, r)
    PROVE  /\ Top(p).own => Returns(p, r)
           /\ ~Top(p).own => /\ UNCHANGED result
                             /\ \A q \in Procs : HeldTx(q)' = HeldTx(q)
  <1>1. /\ \A q \in Procs \ {p} : HeldTx(q)' = HeldTx(q) /\ result'[q] = result[q]
        /\ IF Top(p).own
           THEN HeldTx(p)' = NoTx /\ result'[p] = r
           ELSE HeldTx(p)' = HeldTx(p) /\ result'[p] = result[p]
    BY ChainLeave DEF Inv
  <1>2. \E v : result' = [result EXCEPT ![p] = v]
    BY DEF Leave
  <1>3. result' = [result EXCEPT ![p] = result'[p]]
    BY <1>2 DEF Typed, TypeOK
  <1>4. ~Top(p).own => result' = result
    BY <1>1, <1>3 DEF Typed, TypeOK
  <1>. QED
    BY <1>1, <1>3, <1>4 DEF Returns

LEMMA AcquireKind ==
    ASSUME Typed, Inv, NEW p \in Procs, Acquire(p)
    PROVE  Quiet
  <1>1. PICK t \in Tx \ Referenced :
            ~Live(t) /\ HeldTx(p)' = t /\ \A q \in Procs : HeldTx(q)' = HeldTx(q) \/ q = p
    BY ChainAcquire DEF Inv
  <1>2. dirty[t] = {}
    BY <1>1 DEF Inv, FateInv, Typed, TypeOK
  <1>. QED
    BY <1>1, <1>2 DEF Quiet, Acquire, fateVars

LEMMA StoreKind ==
    ASSUME Typed, Inv, NEW p \in Procs, StoreStep(p) \/ ReturnFromCallback(p)
    PROVE  \/ Quiet \/ Starts(p) \/ Writes(p) \/ FailsWith(p)
           \/ \E r \in {"ok", "err"} : EndsWith(p, r)
  <1>1. ASSUME NEW l, Goto(p, l), UNCHANGED <<dirty, kept, lost>>
        PROVE  Quiet
    BY <1>1 DEF Goto, Quiet, HeldTx, Top
  <1>2. CASE AcquireFails(p)
    <2>1. pc[p] = "acquire" /\ Leave(p, "err") /\ UNCHANGED <<dirty, kept, lost>>
      BY <1>2 DEF AcquireFails, fateVars
    <2>. QED
      BY <2>1, LeaveKind DEF FailsWith, Quiet
  <1>3. CASE SetSearchPath(p)
    BY <1>1, <1>3 DEF SetSearchPath, fateVars
  <1>4. CASE RunStatement(p)
    <2>1. pc[p] = "run" /\ (Goto(p, "ok") \/ Goto(p, "err") \/ Goto(p, "panic"))
          /\ UNCHANGED <<kept, lost>>
          /\ \/ UNCHANGED dirty
             \/ /\ status[Top(p).tx] = "open"
                /\ dirty' = [dirty EXCEPT ![Top(p).tx] = @ \cup {p}]
      BY <1>4 DEF RunStatement, txVars, fateVars
    <2>2. Top(p).tx \in Tx /\ HeldTx(p) = Top(p).tx
      BY <2>1, TopProperties, HeldTxType
    <2>3. CASE UNCHANGED dirty
      BY <1>1, <2>1, <2>3
    <2>4. CASE /\ status[Top(p).tx] = "open"
               /\ dirty' = [dirty EXCEPT ![Top(p).tx] = @ \cup {p}]
      <3>1. Live(Top(p).tx)
        BY <2>4 DEF Live, LiveStates
      <3>2. UNCHANGED <<stack, result>>
        BY <2>1 DEF Goto
      <3>3. \A q \in Procs : HeldTx(q)' = HeldTx(q)
        BY <3>2 DEF HeldTx, Top
      <3>. QED
        BY <2>1, <2>2, <2>4, <3>1, <3>2, <3>3 DEF Writes
    <2>. QED
      BY <2>1, <2>3, <2>4
  <1>5. CASE RunReplace(p)
    <2>1. pc[p] = "run" /\ Top(p) \in Frame /\ Top(p).fn = "replace"
      BY <1>5, TopProperties DEF RunReplace
    <2>2. ~Top(p).own /\ Top(p).tx = HeldTx(p) /\ HeldTx(p) \in Tx
      <3>1. Top(p) = stack[p][1] /\ 1 \in 1 .. Len(stack[p])
        BY <2>1, TopProperties
      <3>2. stack[p][1].own => stack[p][1].fn # "replace"
        BY <3>1 DEF Inv, ChainInv
      <3>. QED
        BY <2>1, <3>1, <3>2, HeldTxType
    <2>3. CASE Enter(p, "stmt", Top(p).shard, Top(p).tx)
      <3>1. Top(p).shard \in Shards
        BY <2>1 DEF Frame
      <3>. QED
        BY <2>1, <2>2, <2>3, <3>1, EnterKind
    <2>4. CASE (Goto(p, "err") \/ Goto(p, "panic")) /\ UNCHANGED <<dirty, kept, lost>>
      BY <1>1, <2>4
    <2>5. \/ Enter(p, "stmt", Top(p).shard, IF Top(p).own THEN NoTx ELSE Top(p).tx)
          \/ (Goto(p, "err") \/ Goto(p, "panic")) /\ UNCHANGED <<dirty, kept, lost>>
      BY <1>5 DEF RunReplace, fateVars
    <2>. QED
      BY <2>2, <2>3, <2>4, <2>5
  <1>6. CASE DeclareCursor(p)
    BY <1>1, <1>6, WalkFailsKind DEF DeclareCursor, fateVars
  <1>7. CASE FetchRows(p)
    <2>1. /\ pc[p] = "fetch" /\ Top(p).shard \in Shards
          /\ Top(p).tx = HeldTx(p) /\ HeldTx(p) \in Tx
      BY <1>7, TopProperties, HeldTxType DEF FetchRows, Frame
    <2>. QED
      BY <1>7, <2>1, EnterKind, WalkFailsKind DEF FetchRows
  <1>8. CASE FetchNothing(p)
    BY <1>1, <1>8 DEF FetchNothing, fateVars
  <1>9. CASE LeaveJoined(p)
    <2>1. /\ pc[p] \in {"ok", "err", "panic"} /\ ~Top(p).own /\ Leave(p, pc[p])
          /\ UNCHANGED <<dirty, kept, lost>>
      BY <1>9 DEF LeaveJoined, Ended, fateVars
    <2>. QED
      BY <2>1, LeaveKind DEF Quiet
  <1>10. ASSUME pc[p] # "idle", Top(p).own, Top(p).tx \in Tx
         PROVE  HeldTx(p) = Top(p).tx /\ HeldTx(p) \in Tx
    BY <1>10, HeldTxType
  <1>11. CASE Commit(p)
    <2>1. pc[p] = "ok" /\ Top(p).own
      BY <1>11 DEF Commit
    <2>2. Top(p).tx \in Tx
      BY <2>1, TopProperties
    <2>3. \/ status[Top(p).tx] = "open" /\ EndTx(Top(p).tx, TRUE) /\ Leave(p, "ok")
          \/ /\ status[Top(p).tx] = "open" /\ "lostReply" \in Faults
             /\ EndTx(Top(p).tx, TRUE) /\ Leave(p, "err")
          \/ /\ status[Top(p).tx] \in {"open", "aborted"}
             /\ EndTx(Top(p).tx, FALSE) /\ Leave(p, "err")
          \/ Leave(p, "err") /\ UNCHANGED <<dirty, kept, lost>>
      BY <1>11 DEF Commit, fateVars
    <2>4. status[Top(p).tx] \in {"open", "aborted"} => Live(Top(p).tx)
      BY DEF Live, LiveStates
    <2>. QED
      BY <1>10, <2>1, <2>2, <2>3, <2>4, LeaveKind DEF EndsWith, FailsWith
  <1>12. CASE Rollback(p)
    <2>1. pc[p] \in {"err", "panic"} /\ Top(p).own /\ Leave(p, "err")
      BY <1>12 DEF Rollback
    <2>2. Top(p).tx \in Tx
      BY <2>1, TopProperties
    <2>3. \/ Live(Top(p).tx) /\ EndTx(Top(p).tx, FALSE)
          \/ UNCHANGED <<dirty, kept, lost>>
      BY <1>12 DEF Rollback, fateVars
    <2>. QED
      BY <1>10, <2>1, <2>2, <2>3, LeaveKind DEF EndsWith, FailsWith
  <1>13. CASE ReturnFromCallback(p)
    BY <1>1, <1>13 DEF ReturnFromCallback, fateVars
  <1>. QED
    BY <1>2, <1>3, <1>4, <1>5, <1>6, <1>7, <1>8, <1>9, <1>11, <1>12, <1>13 DEF StoreStep

LEMMA RefinementStep ==
    ASSUME WellBehaved, Typed, Inv, SoleInv, [Next]_vars
    PROVE  SoleInv' /\ [Promise!Next]_(Promise!vars)
  <1>1. TxInv
    BY DEF Inv, TxInv
  <1>2. ASSUME Quiet PROVE SoleInv' /\ [Promise!Next]_(Promise!vars)
    BY <1>2, QuietRefines
  <1>3. ASSUME NEW p \in Procs,
               \/ Starts(p) \/ Writes(p) \/ FailsWith(p)
               \/ \E r \in {"ok", "err"} : EndsWith(p, r)
        PROVE  SoleInv' /\ [Promise!Next]_(Promise!vars)
    <2>1. /\ SoleInv'
          /\ \/ Promise!Call(p) \/ Promise!Refuse(p) \/ Promise!Write(p)
             \/ Promise!Succeed(p) \/ Promise!Fail(p)
      BY <1>1, <1>3, StartRefines, WriteRefines, EndRefines, FailRefines
    <2>. QED
      BY <2>1 DEF Promise!Next
  <1>4. ASSUME NEW p \in Procs, CallStep(p) \/ Acquire(p) \/ StoreStep(p) \/ ReturnFromCallback(p)
        PROVE  SoleInv' /\ [Promise!Next]_(Promise!vars)
    BY <1>2, <1>3, <1>4, CallKind, AcquireKind, StoreKind
  <1>5. ASSUME NEW p \in Procs, Cancel(p)
        PROVE  SoleInv' /\ [Promise!Next]_(Promise!vars)
    <2>1. Quiet
      BY <1>5 DEF Cancel, fateVars, Quiet, HeldTx, Top
    <2>. QED
      BY <1>2, <2>1
  <1>6. ASSUME NEW t \in Tx, RollbackDoomed(t)
        PROVE  SoleInv' /\ [Promise!Next]_(Promise!vars)
    BY <1>1, <1>6, RollbackDoomedRefines DEF Promise!Next
  <1>7. CASE UNCHANGED vars
    <2>1. Quiet
      BY <1>7 DEF vars, callVars, fateVars, Quiet, HeldTx, Top
    <2>. QED
      BY <1>2, <2>1
  <1>. QED
    BY <1>4, <1>5, <1>6, <1>7 DEF Next

\* The store keeps the promise of AtomicCalls: what a call wrote shares one
\* fate, and what it returned tells which (WithTx, WithBeginTx).
THEOREM AtomicCallsImplemented ==
  ASSUME WellBehaved
  PROVE  Spec => ImplementsAtomicCalls
  <1>1. Init => SoleInv /\ Promise!Init
    <2>. SUFFICES ASSUME Init PROVE SoleInv /\ Promise!Init
      OBVIOUS
    <2>1. Fate = [p \in Procs |-> "clean"]
      BY DEF Init, Fate
    <2>. QED
      BY <2>1 DEF Init, SoleInv, Promise!Init
  <1>2. Typed /\ Inv /\ SoleInv /\ [Next]_vars => SoleInv' /\ [Promise!Next]_(Promise!vars)
    BY RefinementStep
  <1>. QED
    BY <1>1, <1>2, InvHolds, TypeCorrect, PTL DEF Spec, ImplementsAtomicCalls, Promise!Spec
=============================================================================
