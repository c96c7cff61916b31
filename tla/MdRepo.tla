-------------------------------- MODULE MdRepo --------------------------------
(***************************************************************************)
(* mdRepo: MD[T].MD() in md.go, the repository of model descriptions.      *)
(*                                                                         *)
(* A description is known by its pointer: ModelObject.FieldValue and       *)
(* JsonView.Filled compare the pointers of its fields.  Pointers are the   *)
(* numbers of the descriptions made.                                       *)
(***************************************************************************)
EXTENDS RWMutex, Structs

CONSTANTS
    Types,      \* Go types of models
    TypeName,   \* their names, without the package
    Asking,     \* types whose Fields() or ViewQuery() asks for a description
    Programs,   \* what struct each type is
    NoType

ASSUME TypesAssumption == NoType \notin Types

ASSUME ProgramsAssumption == \A program \in Programs, t \in Types : IsStruct(program[t])

Names == {TypeName[t] : t \in Types}

NoDesc == 0

VARIABLES
    repo,    \* mdRepo.m
    maker,   \* the types whose structs these descriptions describe
    made,    \* the number of descriptions made
    struct,  \* the structs of the program
    pc, type, got

vars == <<mutexVars, repo, maker, made, struct, pc, type, got>>

Init ==
    /\ MutexInit
    /\ repo = [n \in Names |-> NoDesc]
    /\ maker = [n \in Names |-> NoType]
    /\ made = 0
    /\ struct \in Programs
    /\ pc = [p \in Procs |-> "idle"]
    /\ type = [p \in Procs |-> NoType]
    /\ got = [p \in Procs |-> [t \in Types |-> NoDesc]]

\* The name that p looks for.
Key(p) == TypeName[type[p]]

Goto(p, l) == pc' = [pc EXCEPT ![p] = l]

Return(p, desc) ==
    /\ got' = [got EXCEPT ![p][type[p]] = desc]
    /\ type' = [type EXCEPT ![p] = NoType]
    /\ Goto(p, "idle")

CallMD(p, t) ==
    /\ pc[p] = "idle"
    /\ RLock(p)
    /\ type' = [type EXCEPT ![p] = t]
    /\ Goto(p, "rlock")
    /\ UNCHANGED <<repo, maker, made, struct, got>>

LookUp(p) ==
    /\ pc[p] = "rlock"
    /\ HasRLock(p)
    /\ RUnlock(p)
    /\ IF repo[Key(p)] # NoDesc THEN Return(p, repo[Key(p)])
       ELSE Goto(p, "lock") /\ UNCHANGED <<type, got>>
    /\ UNCHANGED <<repo, maker, made, struct>>

AnnounceWrite(p) ==
    /\ pc[p] = "lock"
    /\ Lock(p)
    /\ Goto(p, "locked")
    /\ UNCHANGED <<repo, maker, made, struct, type, got>>

\* Mutant: nobody looks a second time.
NeverDescribed(p) == FALSE

\* Another goroutine may have made the description since LookUp.
Described(p) == repo[Key(p)] # NoDesc

LookUpAgain(p) ==
    /\ pc[p] = "locked"
    /\ HasLock(p)
    /\ Described(p)
    /\ Unlock(p)
    /\ Return(p, repo[Key(p)])
    /\ UNCHANGED <<repo, maker, made, struct>>

NewModelDescription(p) ==
    /\ pc[p] = "locked"
    /\ HasLock(p)
    /\ ~Described(p)
    /\ type[p] \notin Asking
    /\ ~NotUnique(struct[type[p]])
    /\ made' = made + 1
    /\ repo' = [repo EXCEPT ![Key(p)] = made + 1]
    /\ maker' = [maker EXCEPT ![Key(p)] = type[p]]
    /\ Unlock(p)
    /\ Return(p, made + 1)
    /\ UNCHANGED struct

\* Mutant: after an error the goroutine tries again.
TryAgain(p) ==
    /\ pc[p] = "locked"
    /\ HasLock(p)
    /\ type[p] \notin Asking
    /\ NotUnique(struct[type[p]])
    /\ Unlock(p)
    /\ Goto(p, "lock")
    /\ UNCHANGED <<repo, maker, made, struct, type, got>>

NewModelDescriptionFails(p) ==
    /\ pc[p] = "locked"
    /\ HasLock(p)
    /\ ~Described(p)
    /\ type[p] \notin Asking
    /\ NotUnique(struct[type[p]])
    /\ Unlock(p)
    /\ Return(p, NoDesc)
    /\ UNCHANGED <<repo, maker, made, struct>>

\* Fields() or ViewQuery() of the model calls MD(), which wants a read lock.
AskInside(p) ==
    /\ pc[p] = "locked"
    /\ HasLock(p)
    /\ ~Described(p)
    /\ type[p] \in Asking
    /\ RLock(p)
    /\ Goto(p, "inside")
    /\ UNCHANGED <<repo, maker, made, struct, type, got>>
-----------------------------------------------------------------------------
Step(p) ==
    \/ LookUp(p)
    \/ AnnounceWrite(p)
    \/ LookUpAgain(p)
    \/ NewModelDescription(p) \/ NewModelDescriptionFails(p) \/ AskInside(p)

Next == \E p \in Procs : Step(p) \/ \E t \in Types : CallMD(p, t)

Spec == Init /\ [][Next]_vars

\* Goroutines run on, and a mutex is handed to who has waited long enough.
FairSpec == Spec /\ \A p \in Procs : SF_vars(Step(p))
-----------------------------------------------------------------------------
TypeOK ==
    /\ MutexTypeOK
    /\ made \in Nat
    /\ repo \in [Names -> 0 .. made]
    /\ pc \in [Procs -> {"idle", "rlock", "lock", "locked", "inside"}]
    /\ type \in [Procs -> Types \cup {NoType}]
    /\ got \in [Procs -> [Types -> 0 .. made]]

\* Whoever got a description of a name got the same one (md.go:24): a field of
\* one description is unknown to the objects of another (modelobject.go:94).
OneDescription ==
    \A p, q \in Procs, t, u \in Types :
        TypeName[t] = TypeName[u] /\ got[p][t] # NoDesc /\ got[q][u] # NoDesc =>
            got[p][t] = got[q][u]

\* What makes OneDescription inductive: a description got is the one in the
\* repository,
FromRepo ==
    \A p \in Procs, t \in Types : got[p][t] # NoDesc => got[p][t] = repo[TypeName[t]]

\* the writer is known, a goroutine that has called knows its type,
Located ==
    /\ \A p \in Procs : pc[p] \in {"locked", "inside"} <=> writing = p
    /\ \A p \in Procs : pc[p] # "idle" => type[p] \in Types

\* and the read locks are those of the goroutines that look up.
ReadersKnown ==
    /\ \A p \in Procs : reading[p] = IF pc[p] = "rlock" /\ p \notin queued THEN 1 ELSE 0
    /\ \A p \in queued : pc[p] \in {"rlock", "inside"}
    /\ writing = NoProc => queued = {}

Inv == TypeOK /\ FromRepo /\ Located /\ ReadersKnown

\* Two fields have one key, or one has no name in JSON and comes after one that
\* has its name there.
SharedColumn(fds, i) ==
    \E j \in DOMAIN fds : j # i /\ fds[j].DatabaseName = fds[i].DatabaseName

SharedJson(fds, i) ==
    \E j \in DOMAIN fds :
        \/ j # i /\ fds[j].JsonName # "" /\ fds[j].JsonName = fds[i].JsonName
        \/ j > i /\ fds[j].JsonName = "" /\ fds[j].FieldName = fds[i].JsonName

\* reflect finds another field of this name, or two: one that is hidden in a
\* struct that is not exported, at the same depth or above.
Covered(s, fd) ==
    \E i \in DOMAIN s : ~s[i].exported /\ s[i].name = fd.FieldName /\ s[i].depth <= fd.of.depth

\* Field i of a description of struct s: under its name reflect finds it in
\* struct u, under its column and its JSON name the description finds it again.
FieldFits(s, u, i) ==
    LET fds == Fields(s)
        fd == fds[i]
    IN  /\ ColumnByFieldName(s, fd.FieldName) = {fd}
        /\ Covered(u, fd) \/ FieldByName(u, fd.FieldName) = {fd.of}
        /\ fd.Skip \/ SharedColumn(fds, i) \/ ColumnByDatabaseName(s, fd.DatabaseName) = {fd}
        /\ fd.JsonName = "" \/ SharedJson(fds, i) \/ ColumnByJsonName(s, fd.JsonName) = {fd}

\* A description that MD() returned fits the struct of the caller's type, if no
\* other type has its name (jsonview.go:136, sqlview.go:130, modelobject.go:203,
\* 296).
DescriptionFits ==
    \A p \in Procs, t \in Types :
        got[p][t] # NoDesc /\ (\A u \in Types : TypeName[u] = TypeName[t] => u = t) =>
            LET s == struct[maker[TypeName[t]]]
            IN  \A i \in DOMAIN Fields(s) : FieldFits(s, struct[t], i)

\* MD() returns, also when other calls fail with an error, unless a model asks
\* for a description while its own is made (md.go:33).
EveryCallReturns ==
    \A p \in Procs : pc[p] # "idle" ~> pc[p] = "idle" \/ \E q \in Procs : pc[q] = "inside"
=============================================================================
