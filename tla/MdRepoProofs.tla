---------------------------- MODULE MdRepoProofs ----------------------------
(***************************************************************************)
(* Every caller of MD() gets the one description of its type, and it finds *)
(* the fields of the struct, whatever the goroutines, types and errors.    *)
(***************************************************************************)
EXTENDS MdRepo, TLAPS

LEMMA InitInv == Init => Inv
  BY NoProcAssumption, TypesAssumption, SMT
  DEF Init, Inv, TypeOK, FromRepo, Located, ReadersKnown, MutexInit, MutexTypeOK, NoDesc, Names

\* The key of a goroutine that has called is a name of the program.
LEMMA KeyInNames ==
  ASSUME NEW p \in Procs, type[p] \in Types
  PROVE  Key(p) \in Names
  BY DEF Key, Names

\* What a return leaves in got.
LEMMA Returned ==
  ASSUME TypeOK, NEW p \in Procs, type[p] \in Types, NEW desc \in Nat, Return(p, desc)
  PROVE  /\ pc' = [pc EXCEPT ![p] = "idle"]
         /\ type' = [type EXCEPT ![p] = NoType]
         /\ DOMAIN got' = Procs
         /\ \A q \in Procs : DOMAIN got'[q] = Types
         /\ \A q \in Procs, t \in Types :
               got'[q][t] = IF q = p /\ t = type[p] THEN desc ELSE got[q][t]
         /\ \A n \in Nat : made <= n /\ desc <= n => got' \in [Procs -> [Types -> 0 .. n]]
  <1>1. got' = [q \in Procs |-> IF q = p
                  THEN [t \in Types |-> IF t = type[p] THEN desc ELSE got[p][t]]
                  ELSE got[q]]
    BY DEF Return, TypeOK
  <1>2. \A q \in Procs : got[q] \in [Types -> 0 .. made]
    BY DEF TypeOK
  <1>3. \A q \in Procs, t \in Types :
            got'[q][t] = IF q = p /\ t = type[p] THEN desc ELSE got[q][t]
    BY <1>1
  <1>4. \A q \in Procs : DOMAIN got'[q] = Types
    BY <1>1, <1>2
  <1>5. ASSUME NEW n \in Nat, made <= n, desc <= n
        PROVE  got' \in [Procs -> [Types -> 0 .. n]]
    <2>1. made \in Nat
      BY DEF TypeOK
    <2>2. \A q \in Procs, t \in Types : got[q][t] \in 0 .. n
      BY <1>2, <1>5, <2>1
    <2>3. \A q \in Procs : got'[q] \in [Types -> 0 .. n]
      BY <1>1, <1>5, <2>1, <1>2, <2>2
    <2> QED
      BY <1>1, <2>3
  <1> QED
    BY <1>1, <1>3, <1>4, <1>5 DEF Return, Goto

\* A call takes the read lock or queues for it.
LEMMA CallInv ==
  ASSUME Inv, NEW p \in Procs, NEW t \in Types, CallMD(p, t)
  PROVE  Inv'
  <1> USE NoProcAssumption, TypesAssumption
      DEF Inv, TypeOK, MutexTypeOK, CallMD, RLock, Goto
  <1>1. TypeOK'
    OBVIOUS
  <1>2. FromRepo'
    BY DEF FromRepo
  <1>3. Located'
    BY DEF Located
  <1>4. ReadersKnown'
    BY DEF ReadersKnown
  <1> QED
    BY <1>1, <1>2, <1>3, <1>4

LEMMA LookUpInv ==
  ASSUME Inv, NEW p \in Procs, LookUp(p)
  PROVE  Inv'
  <1> USE NoProcAssumption, TypesAssumption DEF Inv
  <1>1. type[p] \in Types /\ repo[Key(p)] \in 0 .. made /\ made \in Nat
    BY KeyInNames DEF LookUp, Located, TypeOK
  <1>2. CASE repo[Key(p)] # NoDesc
    <2>1. Return(p, repo[Key(p)])
      BY <1>2 DEF LookUp
    <2>2. repo[Key(p)] \in Nat
      BY <1>1
    <2> HIDE DEF Inv
    <2>3. TypeOK
      BY DEF Inv
    <2>4. /\ pc' = [pc EXCEPT ![p] = "idle"]
          /\ type' = [type EXCEPT ![p] = NoType]
          /\ \A q \in Procs, t \in Types :
                got'[q][t] = IF q = p /\ t = type[p] THEN repo[Key(p)] ELSE got[q][t]
          /\ got' \in [Procs -> [Types -> 0 .. made]]
      BY <1>1, <2>1, <2>2, <2>3, Returned
    <2>5. TypeOK'
      BY <2>4, <2>3, <1>1 DEF TypeOK, MutexTypeOK, LookUp, RUnlock, ReadersKnown, HasRLock, Inv
    <2>6. FromRepo'
      BY <2>4 DEF Inv, FromRepo, LookUp, Key
    <2>7. Located'
      BY <2>4, <2>3 DEF Inv, Located, LookUp, RUnlock, TypeOK
    <2>8. ReadersKnown'
      BY <2>4, <2>3 DEF Inv, ReadersKnown, LookUp, RUnlock, HasRLock, TypeOK, MutexTypeOK
    <2> QED
      BY <2>5, <2>6, <2>7, <2>8 DEF Inv
  <1>3. CASE repo[Key(p)] = NoDesc
    <2>1. pc' = [pc EXCEPT ![p] = "lock"] /\ UNCHANGED <<type, got, repo, made>>
      BY <1>3 DEF LookUp, Goto
    <2>2. TypeOK'
      BY <2>1 DEF TypeOK, MutexTypeOK, LookUp, RUnlock, ReadersKnown, HasRLock
    <2>3. FromRepo' /\ Located'
      BY <2>1 DEF FromRepo, Located, LookUp, RUnlock, TypeOK
    <2>4. ReadersKnown'
      BY <2>1 DEF ReadersKnown, LookUp, RUnlock, HasRLock, TypeOK, MutexTypeOK
    <2> QED
      BY <2>2, <2>3, <2>4
  <1> QED
    BY <1>2, <1>3

LEMMA AnnounceInv ==
  ASSUME Inv, NEW p \in Procs, AnnounceWrite(p)
  PROVE  Inv'
  <1> USE NoProcAssumption, TypesAssumption
      DEF Inv, TypeOK, MutexTypeOK, AnnounceWrite, Lock, Goto
  <1>1. TypeOK'
    OBVIOUS
  <1>2. FromRepo'
    BY DEF FromRepo
  <1>3. Located'
    BY DEF Located
  <1>4. ReadersKnown'
    BY DEF ReadersKnown
  <1> QED
    BY <1>1, <1>2, <1>3, <1>4

\* The writer returns desc, which it has found or made.
LEMMA WriterReturns ==
  ASSUME Inv, NEW p \in Procs, NEW desc \in Nat,
         pc[p] = "locked", HasLock(p), Unlock(p), Return(p, desc),
         made' \in Nat, made <= made', desc <= made',
         repo' \in [Names -> 0 .. made'],
         repo'[Key(p)] = desc,
         \A n \in Names : n # Key(p) \/ Described(p) => repo'[n] = repo[n]
  PROVE  Inv'
  <1> USE NoProcAssumption, TypesAssumption
  <1>1. TypeOK /\ type[p] \in Types /\ writing = p
    BY DEF Inv, Located
  <1>2. /\ pc' = [pc EXCEPT ![p] = "idle"]
        /\ type' = [type EXCEPT ![p] = NoType]
        /\ \A q \in Procs, t \in Types :
              got'[q][t] = IF q = p /\ t = type[p] THEN desc ELSE got[q][t]
        /\ got' \in [Procs -> [Types -> 0 .. made']]
    BY <1>1, Returned
  <1>3. TypeOK'
    <2>1. reading' \in [Procs -> Nat]
      BY <1>1 DEF TypeOK, MutexTypeOK, Unlock
    <2> QED
      BY <1>1, <1>2, <2>1 DEF TypeOK, MutexTypeOK, Unlock
  <1>4. FromRepo'
    <2> SUFFICES ASSUME NEW q \in Procs, NEW t \in Types, got'[q][t] # NoDesc
                 PROVE  got'[q][t] = repo'[TypeName[t]]
      BY DEF FromRepo
    <2>1. CASE TypeName[t] = Key(p) /\ ~Described(p)
      <3>1. got[q][t] = NoDesc
        BY <2>1 DEF Inv, FromRepo, Described
      <3> QED
        BY <1>2, <2>1, <3>1
    <2>2. CASE TypeName[t] # Key(p) \/ Described(p)
      <3>1. TypeName[t] \in Names /\ (t = type[p] => TypeName[t] = Key(p))
        BY DEF Names, Key
      <3> QED
        BY <1>2, <2>2, <3>1 DEF Inv, FromRepo
    <2> QED
      BY <2>1, <2>2
  <1>5. Located'
    BY <1>1, <1>2 DEF Inv, Located, Unlock, TypeOK
  <1>6. ReadersKnown'
    <2>1. \A q \in queued : q # p /\ pc[q] = "rlock"
      BY <1>1 DEF Inv, ReadersKnown, Located, TypeOK, MutexTypeOK
    <2>2. \A q \in Procs : reading[q] = 0
      BY DEF HasLock
    <2>3. \A q \in Procs : q \notin queued => (pc[q] # "rlock" \/ q = p)
      BY <2>2 DEF Inv, ReadersKnown
    <2>4. \A q \in Procs : reading'[q] = IF q \in queued THEN 1 ELSE 0
      BY <2>2, <1>1 DEF Unlock, TypeOK, MutexTypeOK
    <2> QED
      BY <1>1, <1>2, <2>1, <2>3, <2>4 DEF Unlock, ReadersKnown, TypeOK, MutexTypeOK
  <1> QED
    BY <1>3, <1>4, <1>5, <1>6 DEF Inv

LEMMA LookUpAgainInv ==
  ASSUME Inv, NEW p \in Procs, LookUpAgain(p)
  PROVE  Inv'
  <1>1. /\ repo' = repo /\ made' = made /\ made \in Nat
        /\ Key(p) \in Names
        /\ repo \in [Names -> 0 .. made]
    BY KeyInNames DEF LookUpAgain, Inv, TypeOK, Located
  <1>2. repo[Key(p)] \in Nat /\ repo[Key(p)] <= made
    BY <1>1
  <1> QED
    BY <1>1, <1>2, WriterReturns DEF LookUpAgain

LEMMA NewInv ==
  ASSUME Inv, NEW p \in Procs, NewModelDescription(p)
  PROVE  Inv'
  <1>1. made \in Nat /\ Key(p) \in Names /\ repo \in [Names -> 0 .. made]
    BY KeyInNames DEF NewModelDescription, Inv, TypeOK, Located
  <1>2. /\ made' = made + 1
        /\ repo' = [repo EXCEPT ![Key(p)] = made + 1]
        /\ pc[p] = "locked" /\ HasLock(p) /\ ~Described(p)
        /\ Unlock(p) /\ Return(p, made + 1)
    BY DEF NewModelDescription
  <1>3. /\ repo' \in [Names -> 0 .. made']
        /\ repo'[Key(p)] = made + 1
        /\ \A n \in Names : n # Key(p) => repo'[n] = repo[n]
    BY <1>1, <1>2
  <1> QED
    BY <1>1, <1>2, <1>3, WriterReturns

LEMMA FailsInv ==
  ASSUME Inv, NEW p \in Procs, NewModelDescriptionFails(p)
  PROVE  Inv'
  <1>1. /\ repo' = repo /\ made' = made /\ made \in Nat
        /\ Key(p) \in Names
        /\ repo \in [Names -> 0 .. made]
        /\ repo[Key(p)] = NoDesc
    BY KeyInNames DEF NewModelDescriptionFails, Inv, TypeOK, Located, Described
  <1> QED
    BY <1>1, WriterReturns DEF NewModelDescriptionFails, NoDesc

LEMMA AskInsideInv ==
  ASSUME Inv, NEW p \in Procs, AskInside(p)
  PROVE  Inv'
  <1> USE NoProcAssumption, TypesAssumption
      DEF Inv, TypeOK, MutexTypeOK, AskInside, RLock, HasLock, Goto
  <1>1. writing = p
    OBVIOUS
  <1>2. TypeOK'
    BY <1>1
  <1>3. FromRepo'
    BY DEF FromRepo
  <1>4. Located'
    BY <1>1 DEF Located
  <1>5. ReadersKnown'
    BY <1>1 DEF ReadersKnown
  <1> QED
    BY <1>2, <1>3, <1>4, <1>5

LEMMA StutterInv == Inv /\ UNCHANGED vars => Inv'
  BY DEF vars, mutexVars, Inv, TypeOK, FromRepo, Located, ReadersKnown, MutexTypeOK

\* Every description MD() has returned is the one in the repository, and who
\* holds which lock follows from where he stands (md.go:20-47).
THEOREM InvHolds == Spec => []Inv
  <1>1. Inv /\ [Next]_vars => Inv'
    BY CallInv, LookUpInv, AnnounceInv, LookUpAgainInv, NewInv, FailsInv, AskInsideInv, StutterInv
    DEF Next, Step
  <1> QED
    BY <1>1, InitInv, PTL DEF Spec

\* All callers of MD() get the same description of a name (md.go:24).
THEOREM OneDescriptionHolds == Spec => []OneDescription
  <1>1. Inv => OneDescription
    BY DEF Inv, FromRepo, OneDescription
  <1> QED
    BY <1>1, InvHolds, PTL
-----------------------------------------------------------------------------
(***************************************************************************)
(* The lookups of a description.                                           *)
(***************************************************************************)

\* A description in the repository is of a type of its name, whose fields have
\* different names.
MakerKnown ==
    /\ struct \in Programs
    /\ maker \in [Names -> Types \cup {NoType}]
    /\ \A n \in Names : repo[n] # NoDesc =>
          /\ maker[n] \in Types
          /\ TypeName[maker[n]] = n
          /\ ~NotUnique(struct[maker[n]])

LEMMA NextKeepsMaker ==
  ASSUME Inv, MakerKnown, [Next]_vars
  PROVE  MakerKnown'
  <1>1. ASSUME UNCHANGED <<struct, maker, repo>> PROVE MakerKnown'
    BY <1>1 DEF MakerKnown
  <1>2. ASSUME NEW p \in Procs, NewModelDescription(p) PROVE MakerKnown'
    <2>1. /\ type[p] \in Types /\ Key(p) \in Names
          /\ repo \in [Names -> 0 .. made]
      BY <1>2, KeyInNames DEF NewModelDescription, Inv, TypeOK, Located
    <2>2. /\ maker' = [maker EXCEPT ![Key(p)] = type[p]] /\ struct' = struct
          /\ repo' = [repo EXCEPT ![Key(p)] = made + 1]
          /\ ~NotUnique(struct[type[p]])
      BY <1>2 DEF NewModelDescription
    <2>3. maker' \in [Names -> Types \cup {NoType}]
      BY <2>1, <2>2 DEF MakerKnown
    <2>4. ASSUME NEW n \in Names, repo'[n] # NoDesc
          PROVE  /\ maker'[n] \in Types /\ TypeName[maker'[n]] = n
                 /\ ~NotUnique(struct[maker'[n]])
      <3>1. CASE n = Key(p)
        BY <2>1, <2>2, <3>1 DEF MakerKnown, Key
      <3>2. CASE n # Key(p)
        BY <2>1, <2>2, <2>4, <3>2 DEF MakerKnown
      <3> QED
        BY <3>1, <3>2
    <2> QED
      BY <2>2, <2>3, <2>4 DEF MakerKnown
  <1> QED
    BY <1>1, <1>2 DEF Next, Step, vars, CallMD, LookUp, AnnounceWrite, LookUpAgain,
                     NewModelDescriptionFails, AskInside

\* Of the fields at several positions the last one is entered.
LEMMA IndexedLast ==
  ASSUME NEW fds, NEW At \in SUBSET Nat, NEW i \in At, \A j \in At : j <= i
  PROVE  Indexed(fds, At) = {fds[i]}
  <1>1. \A h \in At : (\A j \in At : j <= h) => h = i
    OBVIOUS
  <1> QED
    BY <1>1 DEF Indexed

LEMMA FieldsAre ==
  ASSUME NEW s, IsStruct(s), ~NotUnique(s)
  PROVE  /\ DOMAIN Fields(s) = {i \in DOMAIN s : s[i].exported}
         /\ DOMAIN Fields(s) \subseteq Nat
         /\ \A i \in DOMAIN Fields(s) : /\ Fields(s)[i].of = s[i]
                                       /\ Fields(s)[i].FieldName = s[i].name
         /\ \A i, j \in DOMAIN Fields(s) : s[i].name = s[j].name => i = j
  <1>1. /\ DOMAIN Fields(s) = {i \in DOMAIN s : s[i].exported}
        /\ \A i \in DOMAIN Fields(s) : Fields(s)[i] = NewFD(s[i])
    BY DEF Fields
  <1>2. \A i \in DOMAIN Fields(s) : Fields(s)[i].of = s[i] /\ Fields(s)[i].FieldName = s[i].name
    <2>1. ASSUME NEW f PROVE NewFD(f).of = f /\ NewFD(f).FieldName = f.name
      BY DEF NewFD
    <2> QED
      BY <1>1, <2>1
  <1> QED
    BY <1>1, <1>2 DEF NotUnique, IsStruct

\* reflect finds an exported field by its name unless one that is hidden is as
\* near to the top.
LEMMA FoundByReflect ==
  ASSUME NEW s, IsStruct(s), ~NotUnique(s), NEW i \in DOMAIN Fields(s)
  PROVE  Covered(s, Fields(s)[i]) \/ FieldByName(s, Fields(s)[i].FieldName) = {Fields(s)[i].of}
  <1>0. Fields(s)[i].of = s[i] /\ Fields(s)[i].FieldName = s[i].name
    BY FieldsAre
  <1> SUFFICES ASSUME ~Covered(s, Fields(s)[i])
               PROVE  FieldByName(s, s[i].name) = {s[i]}
    BY <1>0
  <1>1. /\ i \in DOMAIN s /\ s[i].exported /\ s[i].depth \in Nat
        /\ \A j \in DOMAIN s : s[j].depth \in Nat
        /\ \A j \in DOMAIN s : s[j].exported /\ s[j].name = s[i].name => j = i
    <2>1. /\ DOMAIN Fields(s) = {j \in DOMAIN s : s[j].exported}
          /\ \A h, j \in DOMAIN Fields(s) : s[h].name = s[j].name => h = j
      BY FieldsAre
    <2>2. \A j \in DOMAIN s : s[j].depth \in Nat
      BY DEF IsStruct
    <2> QED
      BY <2>1, <2>2
  <1>2. \A j \in DOMAIN s : s[j].name = s[i].name /\ j # i => s[i].depth < s[j].depth
    <2>1. \A j \in DOMAIN s : ~s[j].exported /\ s[j].name = s[i].name => ~(s[j].depth <= s[i].depth)
      BY FieldsAre DEF Covered
    <2> QED
      BY <1>1, <2>1
  <1> DEFINE named == {f \in {s[j] : j \in DOMAIN s} : f.name = s[i].name}
             top == {f \in named : \A g \in named : f.depth <= g.depth}
             once(f) == \A h, j \in DOMAIN s : s[h] = f /\ s[j] = f => h = j
  <1>3. top = {s[i]}
    <2>1. s[i] \in named
      BY <1>1
    <2>2. ASSUME NEW f \in named PROVE f = s[i] \/ (s[i].depth < f.depth /\ f.depth \in Nat)
      BY <1>1, <1>2
    <2>3. s[i] \in top
      BY <1>1, <2>1, <2>2
    <2>4. ASSUME NEW f \in top PROVE f = s[i]
      <3>1. f \in named /\ f.depth <= s[i].depth
        BY <2>1
      <3> QED
        BY <1>1, <2>2, <3>1
    <2> QED
      BY <2>3, <2>4
  <1>4. once(s[i])
    BY <1>1, <1>2
  <1>5. \A f, g \in top : f = g /\ once(f)
    BY <1>3, <1>4
  <1> QED
    BY <1>3, <1>5 DEF FieldByName

\* Each lookup leads back to the field.
LEMMA LookupsFit ==
  ASSUME NEW s, IsStruct(s), ~NotUnique(s), NEW i \in DOMAIN Fields(s)
  PROVE  FieldFits(s, s, i)
  <1> DEFINE fds == Fields(s)
             fd == fds[i]
  <1>1. /\ DOMAIN fds \subseteq Nat /\ i \in DOMAIN fds
        /\ \A j \in DOMAIN fds : fds[j].FieldName = fd.FieldName => j = i
    BY FieldsAre DEF NotUnique
  <1>2. ColumnByFieldName(s, fd.FieldName) = {fd}
    <2> DEFINE At == {j \in DOMAIN fds : fds[j].FieldName = fd.FieldName}
    <2>1. At \in SUBSET Nat /\ i \in At
      BY <1>1
    <2>2. \A j \in At : j = i
      BY <1>1
    <2>3. \A j \in At : j <= i
      BY <1>1, <2>2
    <2>4. Indexed(fds, At) = {fds[i]}
      BY <2>1, <2>3, IndexedLast
    <2> QED
      BY <2>4 DEF ColumnByFieldName
  <1>3. ASSUME ~SharedColumn(fds, i)
        PROVE  ColumnByDatabaseName(s, fd.DatabaseName) = {fd}
    <2> DEFINE At == {j \in DOMAIN fds : fds[j].DatabaseName = fd.DatabaseName}
    <2>1. At \in SUBSET Nat /\ i \in At
      BY <1>1
    <2>2. \A j \in At : j = i
      BY <1>3 DEF SharedColumn
    <2>3. \A j \in At : j <= i
      BY <1>1, <2>2
    <2>4. Indexed(fds, At) = {fds[i]}
      BY <2>1, <2>3, IndexedLast
    <2> QED
      BY <2>4 DEF ColumnByDatabaseName
  <1>4. ASSUME fd.JsonName # "", ~SharedJson(fds, i)
        PROVE  ColumnByJsonName(s, fd.JsonName) = {fd}
    <2> DEFINE At == {j \in DOMAIN fds : JsonKey(fds[j]) = fd.JsonName}
    <2>1. At \in SUBSET Nat /\ i \in At
      BY <1>1, <1>4 DEF JsonKey
    <2>2. ASSUME NEW j \in At PROVE j <= i
      <3>1. CASE fds[j].JsonName = ""
        <4>1. fds[j].FieldName = fds[i].JsonName
          BY <3>1 DEF JsonKey
        <4>2. ~(j > i)
          BY <1>4, <3>1, <4>1 DEF SharedJson
        <4> QED
          BY <1>1, <4>2
      <3>2. CASE fds[j].JsonName # ""
        <4>1. fds[j].JsonName = fds[i].JsonName
          BY <3>2 DEF JsonKey
        <4>2. j = i
          BY <1>4, <3>2, <4>1 DEF SharedJson
        <4> QED
          BY <1>1, <4>2
      <3> QED
        BY <3>1, <3>2
    <2>3. Indexed(fds, At) = {fds[i]}
      BY <2>1, <2>2, IndexedLast
    <2> QED
      BY <2>3 DEF ColumnByJsonName
  <1>5. Covered(s, fd) \/ FieldByName(s, fd.FieldName) = {fd.of}
    BY FoundByReflect
  <1> QED
    BY <1>2, <1>3, <1>4, <1>5 DEF FieldFits

\* Whatever the structs are: a description that MD() returned finds each field
\* by its name, its column and its key in JSON, and reflection finds it too.
THEOREM DescriptionFitsHolds == Spec => []DescriptionFits
  <1>1. Init => MakerKnown
    BY DEF Init, MakerKnown, NoDesc
  <1>2. Inv /\ MakerKnown /\ [Next]_vars => MakerKnown'
    BY NextKeepsMaker
  <1>3. Inv /\ MakerKnown => DescriptionFits
    <2> HAVE Inv /\ MakerKnown
    <2> SUFFICES ASSUME NEW p \in Procs, NEW t \in Types, got[p][t] # NoDesc,
                        \A u \in Types : TypeName[u] = TypeName[t] => u = t,
                        NEW i \in DOMAIN Fields(struct[maker[TypeName[t]]])
                 PROVE  FieldFits(struct[maker[TypeName[t]]], struct[t], i)
      BY DEF DescriptionFits
    <2>1. TypeName[t] \in Names /\ repo[TypeName[t]] # NoDesc
      BY DEF Names, Inv, FromRepo
    <2>2. maker[TypeName[t]] = t /\ ~NotUnique(struct[t])
      BY <2>1 DEF MakerKnown
    <2>3. IsStruct(struct[t])
      BY ProgramsAssumption DEF MakerKnown
    <2>4. FieldFits(struct[t], struct[t], i)
      BY <2>2, <2>3, LookupsFit
    <2> QED
      BY <2>2, <2>4
  <1> QED
    BY <1>1, <1>2, <1>3, InvHolds, PTL DEF Spec

-----------------------------------------------------------------------------
\* The next step of p waits for nobody.
CanGoOn(p) ==
    \/ pc[p] = "rlock" /\ HasRLock(p)
    \/ pc[p] = "lock" /\ writing = NoProc
    \/ pc[p] = "locked" /\ HasLock(p)

SomeoneCanGoOn ==
    (\E p \in Procs : pc[p] # "idle") =>
        \E p \in Procs : CanGoOn(p) \/ pc[p] = "inside"

\* Goroutines that want the lock of mdRepo do not wait for one another: what
\* EveryCallReturns asks of the states.  Only a model that asks for a
\* description while its own is made stops them (md.go:33).
THEOREM SomeoneCanGoOnHolds == Spec => []SomeoneCanGoOn
  <1>1. Inv => SomeoneCanGoOn
    <2> SUFFICES ASSUME Inv, NEW p \in Procs, pc[p] # "idle", \A q \in Procs : pc[q] # "inside"
                 PROVE  \E q \in Procs : CanGoOn(q)
      BY DEF SomeoneCanGoOn
    <2> USE NoProcAssumption DEF Inv
    <2>1. CASE writing = NoProc
      <3>1. queued = {} /\ pc[p] # "locked"
        BY <2>1 DEF ReadersKnown, Located
      <3>2. pc[p] \in {"rlock", "lock"}
        BY <3>1 DEF TypeOK
      <3> QED
        BY <2>1, <3>1, <3>2 DEF CanGoOn, HasRLock
    <2>2. CASE writing # NoProc
      <3>1. PICK w \in Procs : writing = w /\ pc[w] = "locked"
        BY <2>2 DEF TypeOK, MutexTypeOK, Located
      <3>2. CASE \A q \in Procs : reading[q] = 0
        BY <3>1, <3>2 DEF CanGoOn, HasLock
      <3>3. ASSUME NEW q \in Procs, reading[q] # 0 PROVE CanGoOn(q)
        BY <3>3 DEF ReadersKnown, CanGoOn, HasRLock
      <3> QED
        BY <3>2, <3>3
    <2> QED
      BY <2>1, <2>2
  <1> QED
    BY <1>1, InvHolds, PTL
=============================================================================
