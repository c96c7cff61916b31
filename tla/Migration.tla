------------------------------ MODULE Migration ------------------------------
(***************************************************************************)
(* PgStore.Migrate: migrate.go, migrateschema.go, dbconfig.go and the       *)
(* execution of the patches of SchemaDiff in migratesql.go.                *)
(*                                                                         *)
(* Instances of a service migrate one schema to the models of their        *)
(* version, each in a transaction of its own, and may do so at once.  A    *)
(* statement sees what is committed and what its own transaction did; what *)
(* a transaction changes stays locked until it ends.                       *)
(***************************************************************************)
EXTENDS SchemaDiff, Naturals

CONSTANTS
    Procs, NoProc,   \* service instances, and none
    Versions,        \* released versions of the service
    Rels,            \* DatabaseName of the models
    Models,          \* Models[v][r]: the model of r in version v
    NoConf,          \* no row in _config
    Rolling,         \* instances of different versions may migrate at once
    ManualIndexes,   \* indexes an administrator creates by hand
    Faults           \* what can fail besides what PostgreSQL must refuse

\* statement: any statement, or BEGIN, fails.  commit: COMMIT fails.
\* hook: a method of the MigrationProcessor returns an error.
ASSUME ConstantsAssumption ==
    /\ NoProc \notin Procs
    /\ Rolling \in BOOLEAN
    /\ Faults \subseteq {"statement", "commit", "hook"}

ByName(f) == f = [n \in DOMAIN f |-> f[n]]

ASSUME ModelsAssumption ==
    \A v \in Versions : \A r \in DOMAIN Models[v] :
        /\ r \in Rels
        /\ Models[v][r] # NoConf
        /\ Models[v][r].kind \in {"table", "view", "materialized"}
        /\ Models[v][r].kind # "table" => Models[v][r].query.from \in Rels
        /\ \A c \in DOMAIN Models[v][r].cols : Models[v][r].cols[c].pk \in BOOLEAN
        /\ ByName(Models[v][r].idxs)

VARIABLES
    up,         \* of Onces: those that exist
    rel, conf,  \* committed relations and rows of _config
    lock,       \* lock[x]: the migrator whose transaction changed x
    newRel, newConf,   \* their values in that transaction
    pc, version, todo, cur, seen, result   \* the migrators

dbVars == <<up, rel, conf>>
txVars == <<lock, newRel, newConf>>
procVars == <<pc, version, todo, cur, seen, result>>
vars == <<dbVars, txVars, procVars>>

\* What CREATE ... IF NOT EXISTS makes: the schema with _config, _migrations.
Onces == {"schema", "migrations"}

Resources == ({"rel", "conf"} \X Rels) \cup ({"once"} \X Onces)

PCs == {"off", "next", "waitSchema", "indexes", "load", "columns", "create",
        "alter", "save", "migrations", "waitMigrations", "hook", "commit"}

None == [idxs |-> <<>>, conf |-> NoConf, cols |-> <<>>]

RelSeen(p, r) == IF lock[<<"rel", r>>] = p THEN newRel[r] ELSE rel[r]
ConfSeen(p, r) == IF lock[<<"conf", r>>] = p THEN newConf[r] ELSE conf[r]

Target(p) == Models[version[p]][cur[p]]

Base(p) == IF Target(p).kind = "table" THEN Absent
           ELSE RelSeen(p, Target(p).query.from)

\* The columns of r that views select.
Viewed(p, r) == UNION {RelSeen(p, v).query.cols : v \in
    {w \in Rels : RelSeen(p, w) # Absent /\ RelSeen(p, w).kind # "table"
                  /\ RelSeen(p, w).query.from = r}}

Init ==
    /\ up = {}
    /\ rel = [r \in Rels |-> Absent]
    /\ conf = [r \in Rels |-> NoConf]
    /\ lock = [x \in Resources |-> NoProc]
    /\ newRel = [r \in Rels |-> Absent]
    /\ newConf = [r \in Rels |-> NoConf]
    /\ pc = [p \in Procs |-> "off"]
    /\ version = [p \in Procs |-> NoProc]
    /\ todo = [p \in Procs |-> {}]
    /\ cur = [p \in Procs |-> NoProc]
    /\ seen = [p \in Procs |-> None]
    /\ result = [p \in Procs |-> "none"]
-----------------------------------------------------------------------------
Goto(p, l) == pc' = [pc EXCEPT ![p] = l]

\* The transaction of p ends, and what it locked has the committed value.
Release(p) ==
    /\ lock' = [x \in Resources |-> IF lock[x] = p THEN NoProc ELSE lock[x]]
    /\ newRel' = [r \in Rels |-> IF lock[<<"rel", r>>] = p THEN Absent ELSE newRel[r]]
    /\ newConf' = [r \in Rels |-> IF lock[<<"conf", r>>] = p THEN NoConf ELSE newConf[r]]

Finish(p, r) ==
    /\ Goto(p, "off")
    /\ result' = [result EXCEPT ![p] = r]
    /\ todo' = [todo EXCEPT ![p] = {}]
    /\ version' = [version EXCEPT ![p] = NoProc]
    /\ cur' = [cur EXCEPT ![p] = NoProc]
    /\ seen' = [seen EXCEPT ![p] = None]

\* Mutant: an error returns without a rollback.
AbortWithoutRollback(p) == Finish(p, "err") /\ UNCHANGED <<dbVars, txVars>>

\* Every error, and the panic over a primary key, rolls back.
Abort(p) == Release(p) /\ Finish(p, "err") /\ UNCHANGED dbVars

Free(p, x) == lock[x] \in {p, NoProc}

Start(p, v) ==
    /\ pc[p] = "off"
    /\ Rolling \/ \A q \in Procs : pc[q] # "off" => version[q] = v
    /\ version' = [version EXCEPT ![p] = v]
    /\ todo' = [todo EXCEPT ![p] = DOMAIN Models[v]]
    /\ result' = [result EXCEPT ![p] = "none"]
    /\ Goto(p, "next")
    /\ UNCHANGED <<dbVars, txVars, cur, seen>>

\* CREATE ... IF NOT EXISTS o.  If another transaction has made it and not
\* committed, the statement waits, and fails if that transaction commits.
Ensure(p, o, wait, done) ==
    \/ /\ o \in up \/ lock[<<"once", o>>] = p
       /\ Goto(p, done)
       /\ UNCHANGED lock
    \/ /\ o \notin up /\ lock[<<"once", o>>] = NoProc
       /\ lock' = [lock EXCEPT ![<<"once", o>>] = p]
       /\ Goto(p, done)
    \/ /\ o \notin up /\ lock[<<"once", o>>] \notin {p, NoProc}
       /\ Goto(p, wait)
       /\ UNCHANGED lock

EnsureAfterWait(p, o, done) ==
    /\ lock[<<"once", o>>] = NoProc
    /\ \/ o \in up /\ Abort(p)
       \/ /\ o \notin up
          /\ lock' = [lock EXCEPT ![<<"once", o>>] = p]
          /\ Goto(p, done)
          /\ UNCHANGED <<dbVars, newRel, newConf, version, todo, cur, seen, result>>

\* The range over the map of models takes any order.  EnsureModelSchema.
EnsureModelSchema(p) ==
    /\ pc[p] = "next"
    /\ \E r \in todo[p] :
        /\ todo' = [todo EXCEPT ![p] = @ \ {r}]
        /\ cur' = [cur EXCEPT ![p] = r]
    /\ Ensure(p, "schema", "waitSchema", "indexes")
    /\ UNCHANGED <<dbVars, newRel, newConf, version, seen, result>>

WaitForSchema(p) ==
    pc[p] = "waitSchema" /\ EnsureAfterWait(p, "schema", "indexes")

\* CurrentSchemaIndexes.
ReadIndexes(p) ==
    /\ pc[p] = "indexes"
    /\ seen' = [seen EXCEPT ![p].idxs = DBIndexes(RelSeen(p, cur[p]))]
    /\ Goto(p, "load")
    /\ UNCHANGED <<dbVars, txVars, version, todo, cur, result>>

\* LoadTable, and what the loop of Migrate decides.
LoadConfig(p) ==
    /\ pc[p] = "load"
    /\ LET last == ConfSeen(p, cur[p]) IN
        /\ seen' = [seen EXCEPT ![p].conf = last]
        /\ Goto(p, IF last = NoConf THEN "create"
                   ELSE IF ModelEqual(last, Target(p))
                           /\ IndexesEqual(Target(p), seen[p].idxs)
                   THEN "migrations"
                   ELSE IF Target(p).kind = "table" THEN "columns" ELSE "alter")
    /\ UNCHANGED <<dbVars, txVars, version, todo, cur, result>>

\* DBColumnsInfo.
ReadColumns(p) ==
    /\ pc[p] = "columns"
    /\ seen' = [seen EXCEPT ![p].cols = DBColumns(RelSeen(p, cur[p]))]
    /\ Goto(p, "alter")
    /\ UNCHANGED <<dbVars, txVars, version, todo, cur, result>>

\* The relation of p becomes x in its transaction, which locks xs.
Change(p, xs, x, l) ==
    /\ \A y \in xs : Free(p, y)
    /\ lock' = [y \in Resources |-> IF y \in xs THEN p ELSE lock[y]]
    /\ newRel' = [r \in Rels |-> IF r = cur[p] THEN x
                                 ELSE IF <<"rel", r>> \in xs THEN RelSeen(p, r)
                                 ELSE newRel[r]]
    /\ Goto(p, l)
    /\ UNCHANGED <<dbVars, newConf, version, todo, cur, seen, result>>

Relation(p) == {<<"rel", cur[p]>>}

\* A view keeps its base from being altered.  Bases have one view each here,
\* so that this lock can be exclusive.
RelationAndBase(p) ==
    Relation(p) \cup (IF Base(p) = Absent THEN {} ELSE {<<"rel", Target(p).query.from>>})

\* The queries of SQLCreateModelWithColumns, and the last ones of SQLAlterView.
CreateModel(p) ==
    /\ pc[p] = "create"
    /\ IF CreateFails(Target(p), Base(p)) THEN Abort(p)
       ELSE \/ /\ Creatable(RelSeen(p, cur[p]), Target(p))
               /\ Change(p, RelationAndBase(p), NewRelation(Target(p)), "save")
            \/ /\ Free(p, <<"rel", cur[p]>>)
               /\ ~Creatable(RelSeen(p, cur[p]), Target(p))
               /\ Abort(p)

\* SQLAlterModel of a view: SQLAlterView drops it first.
DropView(p) ==
    /\ pc[p] = "alter"
    /\ Target(p).kind # "table"
    /\ IF DropViewFails(RelSeen(p, cur[p])) THEN Abort(p)
       ELSE Change(p, Relation(p), Absent, "create")

\* SQLAlterModel of a table.
AlterTable(p) ==
    /\ pc[p] = "alter"
    /\ Target(p).kind = "table"
    /\ LET last == seen[p].conf
           patch == Patch(last, Target(p), seen[p].cols, seen[p].idxs)
           table == RelSeen(p, cur[p])
       IN  \/ /\ KeyChanges(last, Target(p), seen[p].cols)
              /\ Abort(p)
           \/ /\ ~KeyChanges(last, Target(p), seen[p].cols)
              /\ NothingToDo(patch)
              /\ Goto(p, "save")
              /\ UNCHANGED <<dbVars, txVars, version, todo, cur, seen, result>>
           \/ /\ ~KeyChanges(last, Target(p), seen[p].cols)
              /\ ~NothingToDo(patch)
              /\ Free(p, <<"rel", cur[p]>>)
              /\ IF PatchFails(table, Target(p), patch, Viewed(p, cur[p]))
                 THEN Abort(p)
                 ELSE Change(p, Relation(p), Patched(table, Target(p), patch), "save")

\* SaveTable.  A new relation ends its turn here: _migrations and AfterMigrate
\* are for the existing ones.
SaveConfig(p) ==
    /\ pc[p] = "save"
    /\ Free(p, <<"conf", cur[p]>>)
    /\ lock' = [lock EXCEPT ![<<"conf", cur[p]>>] = p]
    /\ newConf' = [newConf EXCEPT ![cur[p]] = Target(p)]
    /\ Goto(p, IF seen[p].conf # NoConf THEN "migrations"
               ELSE IF todo[p] = {} THEN "commit" ELSE "next")
    /\ UNCHANGED <<dbVars, newRel, version, todo, cur, seen, result>>

EnsureMigrations(p) ==
    /\ pc[p] = "migrations"
    /\ Ensure(p, "migrations", "waitMigrations", "hook")
    /\ UNCHANGED <<dbVars, newRel, newConf, version, todo, cur, seen, result>>

WaitForMigrations(p) ==
    pc[p] = "waitMigrations" /\ EnsureAfterWait(p, "migrations", "hook")

AfterMigrate(p) ==
    /\ pc[p] = "hook"
    /\ Goto(p, IF todo[p] = {} THEN "commit" ELSE "next")
    /\ UNCHANGED <<dbVars, txVars, version, todo, cur, seen, result>>

\* The transaction commits, then AfterCommit may fail.
Commit(p) ==
    /\ pc[p] = "commit"
    /\ up' = up \cup {o \in Onces : lock[<<"once", o>>] = p}
    /\ rel' = [r \in Rels |-> RelSeen(p, r)]
    /\ conf' = [r \in Rels |-> ConfSeen(p, r)]
    /\ Release(p)
    /\ \/ Finish(p, "ok")
       \/ "hook" \in Faults /\ Finish(p, "err")

Fail(p) ==
    /\ \/ pc[p] # "off" /\ "statement" \in Faults
       \/ pc[p] = "commit" /\ "commit" \in Faults
       \/ pc[p] \in {"next", "hook", "commit"} /\ "hook" \in Faults
    /\ Abort(p)

\* PostgreSQL breaks a circle of transactions that wait for each other.
WaitsFor(p) ==
    {lock[x] : x \in CASE pc[p] = "create" -> RelationAndBase(p)
                       [] pc[p] = "alter" -> Relation(p)
                       [] pc[p] = "save" -> {<<"conf", cur[p]>>}
                       [] pc[p] = "waitSchema" -> {<<"once", "schema">>}
                       [] pc[p] = "waitMigrations" -> {<<"once", "migrations">>}
                       [] OTHER -> {}} \ {p, NoProc}

DeadlockVictim(p) ==
    /\ \E circle \in SUBSET Procs :
        /\ p \in circle
        /\ \A q \in circle : WaitsFor(q) \cap circle # {}
    /\ Abort(p)
-----------------------------------------------------------------------------
\* The service inserts rows that leave nullable columns NULL.
InsertRows(r) ==
    /\ rel[r] # Absent
    /\ rel[r].kind = "table"
    /\ lock[<<"rel", r>>] = NoProc
    /\ rel' = [rel EXCEPT ![r].rows = TRUE,
                          ![r].nulls = {c \in DOMAIN rel[r].cols : ~rel[r].cols[c].notnull}]
    /\ UNCHANGED <<up, conf, txVars, procVars>>

\* Between migrations an administrator creates or drops an index by hand.
ManualIndex(r, i) ==
    /\ \A p \in Procs : pc[p] = "off"
    /\ rel[r] # Absent
    /\ rel[r].kind = "table"
    /\ rel' = [rel EXCEPT ![r].idxs =
                IF i \in DOMAIN @ THEN [j \in DOMAIN @ \ {i} |-> @[j]]
                ELSE [j \in DOMAIN @ \cup {i} |->
                        IF j # i THEN @[j]
                        ELSE [on |-> DOMAIN rel[r].cols, opts |-> "", concurrently |-> FALSE]]]
    /\ UNCHANGED <<up, conf, txVars, procVars>>
-----------------------------------------------------------------------------
Step(p) ==
    \/ EnsureModelSchema(p) \/ WaitForSchema(p)
    \/ ReadIndexes(p) \/ LoadConfig(p) \/ ReadColumns(p)
    \/ CreateModel(p) \/ DropView(p) \/ AlterTable(p)
    \/ SaveConfig(p)
    \/ EnsureMigrations(p) \/ WaitForMigrations(p) \/ AfterMigrate(p)
    \/ Commit(p)
    \/ DeadlockVictim(p)

Next ==
    \/ \E p \in Procs : \/ \E v \in Versions : Start(p, v)
                        \/ Step(p)
                        \/ Fail(p)
    \/ \E r \in Rels : \/ InsertRows(r)
                       \/ \E i \in ManualIndexes : ManualIndex(r, i)

Spec == Init /\ [][Next]_vars

\* The code runs on, and PostgreSQL grants locks in the order they were asked.
FairSpec == Spec /\ \A p \in Procs : SF_vars(Step(p))
-----------------------------------------------------------------------------
(***************************************************************************)
(* What releases must keep to, because Migrate does not see when they do   *)
(* not: the kind in _config is not compared, a column becomes part of the  *)
(* primary key only when its table is made, and of a column that _config   *)
(* has forgotten the default is not known (migratesql.go:280).  Then what  *)
(* the structure needs besides.                                            *)
(***************************************************************************)
IsTable(v, r) == r \in DOMAIN Models[v] /\ Models[v][r].kind = "table"

TablesStayTables ==
    \A v, w \in Versions : \A r \in DOMAIN Models[v] \cap DOMAIN Models[w] :
        IsTable(v, r) => IsTable(w, r)

KeysStay ==
    \A v, w \in Versions : \A r \in Rels : IsTable(v, r) /\ IsTable(w, r) =>
        \A c \in DOMAIN Models[v][r].cols :
            Models[v][r].cols[c].pk => c \in DOMAIN Models[w][r].cols

DefaultsComeBack ==
    \A u, v, w \in Versions : \A r \in Rels : IsTable(u, r) /\ IsTable(v, r) /\ IsTable(w, r) =>
        \A c \in DOMAIN Models[v][r].cols \cap DOMAIN Models[w][r].cols :
            c \notin DOMAIN Models[u][r].cols =>
                Models[v][r].cols[c].default = Models[w][r].cols[c].default

ReleasesAgree == TablesStayTables /\ KeysStay /\ DefaultsComeBack

\* ModelEqual does not see that a view has another query.
ViewsChangeColumns ==
    \A v, w \in Versions : \A r \in DOMAIN Models[v] \cap DOMAIN Models[w] :
        ~IsTable(v, r) /\ ModelEqual(Models[v][r], Models[w][r]) =>
            /\ Models[v][r].kind = Models[w][r].kind
            /\ Models[v][r].query = Models[w][r].query

IndexesOwned ==
    \A v \in Versions : \A r \in DOMAIN Models[v] :
        ManualIndexes \cap DOMAIN Models[v][r].idxs = {}
-----------------------------------------------------------------------------
RelationOK(x) ==
    x # Absent =>
        /\ x.nulls \subseteq {c \in DOMAIN x.cols : ~x.cols[c].notnull}
        /\ \A c \in DOMAIN x.cols : x.cols[c].pk => x.cols[c].default = NoDefault

TypeOK ==
    /\ up \subseteq Onces
    /\ \A r \in Rels : RelationOK(rel[r]) /\ RelationOK(newRel[r])
    /\ lock \in [Resources -> Procs \cup {NoProc}]
    /\ pc \in [Procs -> PCs]
    /\ \A p \in Procs : pc[p] # "off" => version[p] \in Versions
    /\ todo \in [Procs -> SUBSET Rels]
    /\ cur \in [Procs -> Rels \cup {NoProc}]
    /\ result \in [Procs -> {"none", "ok", "err"}]

\* The rows of _config describe the tables of the database: every later
\* migration computes its difference from them (README.md:80).
ConfigTrue ==
    \A r \in Rels :
        conf[r] # NoConf =>
            /\ rel[r] # Absent
            /\ rel[r].kind = "table" => HasColumns(rel[r], conf[r])

\* A Migrate that commits leaves every relation as the models of its version
\* have it (README.md:47).
StructureIsCurrent ==
    [][\A p \in Procs :
        pc[p] = "commit" /\ result'[p] = "ok" =>
            \A r \in DOMAIN Models[version[p]] :
                Conforms(rel'[r], Models[version[p]][r])]_vars

\* No migration, not even to an older version, loses a table, a column or
\* the rows of a table.
NothingIsLost ==
    [][\A r \in Rels :
        rel[r] # Absent /\ rel[r].kind = "table" =>
            /\ rel'[r] # Absent /\ rel'[r].kind = "table"
            /\ DOMAIN rel[r].cols \subseteq DOMAIN rel'[r].cols
            /\ rel[r].rows => rel'[r].rows]_vars

\* Migrate works at any time (README.md:47): it fails only when a statement,
\* the COMMIT or a hook fails for a reason outside the models.
NeverRefused == \A p \in Procs : result[p] # "err"

\* Every Migrate ends, also when instances wait for each other's locks.
EveryMigrationEnds == \A p \in Procs : []<>(pc[p] = "off")
=============================================================================
