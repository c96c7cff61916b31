-------------------------- MODULE MigrationProofs --------------------------
(***************************************************************************)
(* Migrations of any models, by any number of instances: no table, column  *)
(* or row is lost; and while no two versions migrate at once and releases  *)
(* keep to what Migrate takes for granted, _config tells the truth.        *)
(***************************************************************************)
EXTENDS Migration, TLAPS

-----------------------------------------------------------------------------
(* The difference of SQLAlterTable.                                        *)

\* Columns over types T and default values D.
ColumnsOf(T, D) == [type : T, default : D, notnull : BOOLEAN, pk : BOOLEAN]

\* What information_schema shows of a type is its own name for it.
LEMMA TargetNameOfUdtName ==
  ASSUME NEW type
  PROVE  UdtName(TargetName(UdtName(type))) = UdtName(type)
  BY DEF UdtName, TargetName

\* PatchTable leaves every column of the model as CREATE TABLE would make it.
\* A column that _config has lost but the table still has must come back with
\* the default it had: SQLAlterTable cannot see that default.
THEOREM AlterTableIsEnough ==
  ASSUME NEW T, NEW D, NEW table, NEW last, NEW to, NEW dbidxs,
         table # Absent,
         \A c \in DOMAIN to.cols : to.cols[c] \in ColumnsOf(T, D),
         \A c \in DOMAIN last.cols :
             /\ last.cols[c] \in ColumnsOf(T, D)
             /\ c \in DOMAIN table.cols
             /\ table.cols[c] = Stored(last.cols[c]),
         \A c \in DOMAIN to.cols \cap DOMAIN table.cols :
             c \notin DOMAIN last.cols =>
                 \E col \in ColumnsOf(T, D) :
                     /\ table.cols[c] = Stored(col)
                     /\ col.default = to.cols[c].default
                     /\ col.pk = to.cols[c].pk,
         \A c \in DOMAIN to.cols :
             to.cols[c].pk => c \in DOMAIN table.cols,
         ~KeyChanges(last, to, DBColumns(table))
  PROVE  HasColumns(Patched(table, to, Patch(last, to, DBColumns(table), dbidxs)), to)
  <1> DEFINE info == DBColumns(table)
             patch == Patch(last, to, info, dbidxs)
             common == Common(last, to, info)
             known(c) == Known(c, last, to, info)
  <1>1. /\ DOMAIN info = DOMAIN table.cols
        /\ \A c \in DOMAIN table.cols :
              /\ info[c].type = table.cols[c].type
              /\ info[c].notnull = table.cols[c].notnull
    BY DEF DBColumns
  <1>2. common = DOMAIN to.cols \cap DOMAIN table.cols
    BY <1>1 DEF Common
  <1>3. /\ patch.add = DOMAIN to.cols \ common
        /\ patch.types = {c \in common : to.cols[c].type # known(c).type}
        /\ patch.nullable = {c \in common : to.cols[c].notnull # known(c).notnull}
        /\ patch.defaults = {c \in common : to.cols[c].default # known(c).default}
    BY DEF Patch
  <1>4. \A c \in common : to.cols[c].pk = known(c).pk
    BY DEF KeyChanges
  <1>. HIDE DEF patch, common
  <1>5. ASSUME NEW c \in common
        PROVE  AlteredColumn(c, table, to, patch) = Stored(to.cols[c])
    <2>1. PICK col \in ColumnsOf(T, D) :
              /\ table.cols[c] = Stored(col)
              /\ UdtName(known(c).type) = UdtName(col.type)
              /\ known(c).notnull = col.notnull
              /\ known(c).default = col.default
              /\ known(c).pk = col.pk
      <3>1. CASE c \in DOMAIN last.cols
        BY <3>1 DEF Known
      <3>2. CASE c \notin DOMAIN last.cols
        <4>1. PICK x \in ColumnsOf(T, D) : /\ table.cols[c] = Stored(x)
                                           /\ x.default = to.cols[c].default
                                           /\ x.pk = to.cols[c].pk
          BY <1>2, <3>2
        <4>2. /\ info[c].type = UdtName(x.type)
              /\ info[c].notnull = x.notnull
          BY <1>1, <1>2, <4>1 DEF Stored
        <4>3. /\ known(c).type = TargetName(UdtName(x.type))
              /\ known(c).notnull = x.notnull
              /\ known(c).default = x.default
              /\ known(c).pk = x.pk
          BY <3>2, <4>1, <4>2 DEF Known
        <4>. QED
          BY <4>1, <4>3, TargetNameOfUdtName
      <3>. QED
        BY <3>1, <3>2
    <2>2. to.cols[c] \in ColumnsOf(T, D)
      BY <1>2
    <2>3. to.cols[c].pk = col.pk
      BY <1>4, <2>1
    <2>4. (IF c \in patch.types THEN UdtName(to.cols[c].type) ELSE table.cols[c].type)
             = UdtName(to.cols[c].type)
      BY <1>3, <2>1 DEF Stored
    <2>5. (IF c \in patch.defaults THEN Stored(to.cols[c]).default
                                   ELSE table.cols[c].default)
             = Stored(to.cols[c]).default
      BY <1>3, <2>1, <2>3 DEF Stored
    <2>6. (IF c \in patch.nullable THEN to.cols[c].notnull ELSE table.cols[c].notnull)
             = to.cols[c].notnull
      BY <1>3, <2>1 DEF Stored
    <2>7. table.cols[c].pk = to.cols[c].pk
      BY <2>1, <2>3 DEF Stored
    <2>. QED
      BY <2>4, <2>5, <2>6, <2>7 DEF AlteredColumn, Stored
  <1>6. ASSUME NEW c \in patch.add
        PROVE  Added(to.cols[c]) = Stored(to.cols[c])
    <2>1. to.cols[c] \in ColumnsOf(T, D) /\ ~to.cols[c].pk
      BY <1>2, <1>3
    <2>. QED
      BY <2>1 DEF Added, Stored, ColumnsOf
  <1>7. LET cols == Patched(table, to, patch).cols IN
        /\ DOMAIN cols = DOMAIN table.cols \cup patch.add
        /\ \A c \in DOMAIN table.cols \cup patch.add :
              cols[c] = IF c \in patch.add THEN Added(to.cols[c])
                        ELSE AlteredColumn(c, table, to, patch)
    BY DEF Patched
  <1>8. HasColumns(Patched(table, to, patch), to)
    BY <1>2, <1>3, <1>5, <1>6, <1>7 DEF HasColumns
  <1>. QED
    BY <1>8 DEF patch

\* A column as PostgreSQL keeps it.
IsColumn(x) ==
    /\ x = [type |-> x.type, default |-> x.default, notnull |-> x.notnull, pk |-> x.pk]
    /\ UdtName(TargetName(x.type)) = x.type

\* The same when last and info were read before others brought columns of the
\* table to what the model asks for.
LEMMA StalePatchIsEnough ==
  ASSUME NEW table, NEW last, NEW to, NEW info, NEW dbidxs,
         \A c \in DOMAIN to.cols : to.cols[c].pk \in BOOLEAN,
         \A c \in DOMAIN last.cols :
             /\ c \in DOMAIN table.cols
             /\ \/ table.cols[c] = Stored(last.cols[c])
                \/ c \in DOMAIN to.cols /\ table.cols[c] = Stored(to.cols[c]),
         \A c \in DOMAIN info :
             /\ c \in DOMAIN table.cols
             /\ \/ /\ info[c].type = table.cols[c].type
                   /\ info[c].notnull = table.cols[c].notnull
                \/ c \in DOMAIN to.cols /\ table.cols[c] = Stored(to.cols[c]),
         \A c \in DOMAIN to.cols \cap DOMAIN table.cols :
             c \notin DOMAIN last.cols =>
                 /\ table.cols[c].default = Stored(to.cols[c]).default
                 /\ table.cols[c].pk = to.cols[c].pk
                 /\ IsColumn(table.cols[c]),
         \A c \in DOMAIN to.cols : to.cols[c].pk => c \in DOMAIN table.cols,
         Patch(last, to, info, dbidxs).add \cap DOMAIN table.cols = {},
         ~KeyChanges(last, to, info)
  PROVE  HasColumns(Patched(table, to, Patch(last, to, info, dbidxs)), to)
<1> DEFINE patch == Patch(last, to, info, dbidxs)
           common == Common(last, to, info)
           known(c) == Known(c, last, to, info)
<1>1. /\ patch.add = DOMAIN to.cols \ common
      /\ patch.types = {c \in common : to.cols[c].type # known(c).type}
      /\ patch.nullable = {c \in common : to.cols[c].notnull # known(c).notnull}
      /\ patch.defaults = {c \in common : to.cols[c].default # known(c).default}
  BY DEF Patch
<1>2. common = DOMAIN to.cols \cap (DOMAIN last.cols \cup DOMAIN info)
  BY DEF Common
<1>3. patch.add \cap DOMAIN table.cols = {}
  OBVIOUS
<1>4. \A c \in common : to.cols[c].pk = known(c).pk
  BY DEF KeyChanges
<1> HIDE DEF patch, common
<1>5. ASSUME NEW c \in common
      PROVE  c \in DOMAIN table.cols /\ AlteredColumn(c, table, to, patch) = Stored(to.cols[c])
  <2>1. c \in DOMAIN to.cols /\ c \in DOMAIN table.cols
    BY <1>2
  <2>2. CASE table.cols[c] = Stored(to.cols[c])
    BY <2>1, <2>2 DEF AlteredColumn, Stored
  <2>3. CASE c \in DOMAIN last.cols /\ table.cols[c] = Stored(last.cols[c])
    <3>1. known(c) = last.cols[c]
      BY <2>3 DEF Known
    <3>2. to.cols[c].pk = last.cols[c].pk
      BY <1>4, <3>1
    <3>3. /\ c \notin patch.types => to.cols[c].type = last.cols[c].type
          /\ c \notin patch.nullable => to.cols[c].notnull = last.cols[c].notnull
          /\ c \notin patch.defaults => to.cols[c].default = last.cols[c].default
      BY <1>1, <3>1
    <3> QED
      BY <2>3, <3>2, <3>3 DEF AlteredColumn, Stored
  <2>4. CASE c \notin DOMAIN last.cols /\ table.cols[c] # Stored(to.cols[c])
    <3>1. /\ info[c].type = table.cols[c].type
          /\ info[c].notnull = table.cols[c].notnull
      BY <1>2, <2>4
    <3>2. /\ known(c).type = TargetName(table.cols[c].type)
          /\ known(c).notnull = table.cols[c].notnull
          /\ known(c).default = to.cols[c].default
      BY <2>4, <3>1 DEF Known
    <3>3. UdtName(TargetName(table.cols[c].type)) = table.cols[c].type
      BY <2>1, <2>4 DEF IsColumn
    <3>4. /\ c \notin patch.types => UdtName(to.cols[c].type) = table.cols[c].type
          /\ c \notin patch.nullable => to.cols[c].notnull = table.cols[c].notnull
      BY <1>1, <3>2, <3>3
    <3>5. /\ table.cols[c].default = Stored(to.cols[c]).default
          /\ table.cols[c].pk = to.cols[c].pk
      BY <2>1, <2>4
    <3>6. (IF c \in patch.types THEN UdtName(to.cols[c].type) ELSE table.cols[c].type)
             = UdtName(to.cols[c].type)
      BY <3>4
    <3>7. (IF c \in patch.defaults THEN Stored(to.cols[c]).default ELSE table.cols[c].default)
             = IF to.cols[c].pk THEN NoDefault ELSE to.cols[c].default
      BY <3>5 DEF Stored
    <3>8. (IF c \in patch.nullable THEN to.cols[c].notnull ELSE table.cols[c].notnull)
             = to.cols[c].notnull
      BY <3>4
    <3>9. table.cols[c].pk = to.cols[c].pk
      BY <3>5
    <3>10. AlteredColumn(c, table, to, patch) =
             [type |-> UdtName(to.cols[c].type),
              default |-> IF to.cols[c].pk THEN NoDefault ELSE to.cols[c].default,
              notnull |-> to.cols[c].notnull, pk |-> to.cols[c].pk]
      BY <3>6, <3>7, <3>8, <3>9 DEF AlteredColumn
    <3> QED
      BY <2>1, <3>10 DEF Stored
  <2> QED
    BY <2>1, <2>2, <2>3, <2>4
<1>6. ASSUME NEW c \in patch.add
      PROVE  Added(to.cols[c]) = Stored(to.cols[c])
  <2>1. c \in DOMAIN to.cols /\ c \notin DOMAIN table.cols
    BY <1>1, <1>3
  <2>2. to.cols[c].pk = FALSE
    BY <2>1
  <2> QED
    BY <2>2 DEF Added, Stored
<1>7. LET cols == Patched(table, to, patch).cols IN
      /\ DOMAIN cols = DOMAIN table.cols \cup patch.add
      /\ \A c \in DOMAIN table.cols \cup patch.add :
            cols[c] = IF c \in patch.add THEN Added(to.cols[c])
                      ELSE AlteredColumn(c, table, to, patch)
  BY DEF Patched
<1>8. HasColumns(Patched(table, to, patch), to)
  BY <1>1, <1>5, <1>6, <1>7 DEF HasColumns
<1> QED
  BY <1>8 DEF patch

\* The indexes of the table become those of the model, when they were read
\* before others brought them there, and when they were not.
LEMMA PatchedIndexes ==
  ASSUME NEW table, NEW last, NEW to, NEW info, NEW dbidxs,
         to.idxs = [i \in DOMAIN to.idxs |-> to.idxs[i]],
         \/ table.idxs = to.idxs
         \/ /\ dbidxs = DBIndexes(table)
            /\ \A i \in DOMAIN last.idxs :
                  i \in DOMAIN table.idxs /\ table.idxs[i] = last.idxs[i],
         LET patch == Patch(last, to, info, dbidxs) IN
         /\ patch.drop \subseteq DOMAIN table.idxs
         /\ patch.create \cap (DOMAIN table.idxs \ (patch.dropIfExists \cup patch.drop)) = {}
  PROVE  Patched(table, to, Patch(last, to, info, dbidxs)).idxs = to.idxs
<1> DEFINE patch == Patch(last, to, info, dbidxs)
           recreate == patch.dropIfExists
           on(i) == i \in DOMAIN last.idxs /\ to.idxs[i] = last.idxs[i] /\ to.idxs[i].on = dbidxs[i]
           kept == DOMAIN table.idxs \ (recreate \cup patch.drop)
<1>1. /\ recreate = {i \in DOMAIN to.idxs \cap DOMAIN dbidxs : ~on(i)}
      /\ patch.drop = DOMAIN dbidxs \ DOMAIN to.idxs
      /\ patch.create = recreate \cup (DOMAIN to.idxs \ DOMAIN dbidxs)
  BY DEF Patch
<1>2. /\ patch.drop \subseteq DOMAIN table.idxs
      /\ patch.create \cap kept = {}
  OBVIOUS
<1>3. Patched(table, to, patch).idxs =
        [i \in patch.create \cup kept |-> IF i \in patch.create THEN to.idxs[i] ELSE table.idxs[i]]
  BY DEF Patched
<1> HIDE DEF patch, recreate
<1>4. patch.create \cup kept = DOMAIN to.idxs
  <2>1. CASE table.idxs = to.idxs
    BY <1>1, <1>2, <2>1
  <2>2. CASE dbidxs = DBIndexes(table)
    <3>1. DOMAIN dbidxs = DOMAIN table.idxs
      BY <2>2 DEF DBIndexes
    <3> QED
      BY <1>1, <3>1
  <2> QED
    BY <2>1, <2>2
<1>5. ASSUME NEW i \in kept PROVE table.idxs[i] = to.idxs[i]
  <2>1. CASE table.idxs = to.idxs
    BY <2>1
  <2>2. CASE /\ dbidxs = DBIndexes(table)
             /\ \A j \in DOMAIN last.idxs :
                   j \in DOMAIN table.idxs /\ table.idxs[j] = last.idxs[j]
    <3>1. DOMAIN dbidxs = DOMAIN table.idxs
      BY <2>2 DEF DBIndexes
    <3>2. i \in DOMAIN last.idxs /\ to.idxs[i] = last.idxs[i]
      BY <1>1, <3>1
    <3> QED
      BY <2>2, <3>2
  <2> QED
    BY <2>1, <2>2
<1>6. Patched(table, to, patch).idxs = [i \in DOMAIN to.idxs |-> to.idxs[i]]
  BY <1>3, <1>4, <1>5
<1> QED
  BY <1>6 DEF patch

-----------------------------------------------------------------------------
(* What any models and any number of versions at once keep to.             *)

Kinds == {"table", "view", "materialized"}

\* A relation is a record, and only tables have columns of their own.
IsRelation(x) ==
    /\ x = [kind |-> x.kind, cols |-> x.cols, idxs |-> x.idxs, query |-> x.query,
            rows |-> x.rows, nulls |-> x.nulls]
    /\ \/ x = Absent
       \/ x.kind = "table"
       \/ x.kind \in {"view", "materialized"} /\ x.cols = <<>> /\ x.nulls = {}
    /\ x.nulls \subseteq {c \in DOMAIN x.cols : ~x.cols[c].notnull}
    /\ ByName(x.idxs)

\* What y may be when a transaction has x and makes y of it.
Keeps(x, y) ==
    x.kind = "table" =>
        /\ y.kind = "table"
        /\ y.rows = x.rows
        /\ DOMAIN x.cols \subseteq DOMAIN y.cols

\* A relation of the kind that the releases give it, if they agree.
KindFits(x, r) ==
    TablesStayTables /\ x # Absent => \A v \in Versions :
        r \in DOMAIN Models[v] => (x.kind = "table" <=> Models[v][r].kind = "table")

Shape ==
    /\ up \subseteq Onces
    /\ rel = [r \in Rels |-> rel[r]]
    /\ newRel = [r \in Rels |-> newRel[r]]
    /\ conf = [r \in Rels |-> conf[r]]
    /\ newConf = [r \in Rels |-> newConf[r]]
    /\ lock \in [Resources -> Procs \cup {NoProc}]
    /\ pc \in [Procs -> PCs]
    /\ version \in [Procs -> Versions \cup {NoProc}]
    /\ todo \in [Procs -> SUBSET Rels]
    /\ cur \in [Procs -> Rels \cup {NoProc}]
    /\ seen = [p \in Procs |-> [idxs |-> seen[p].idxs, conf |-> seen[p].conf,
                                cols |-> seen[p].cols]]
    /\ result \in [Procs -> {"none", "ok", "err"}]

Relations ==
    \A r \in Rels : /\ IsRelation(rel[r]) /\ IsRelation(newRel[r])
                    /\ KindFits(rel[r], r) /\ KindFits(newRel[r], r)

\* Who runs has a version, and while it deals with a relation this is one of
\* the version's models.
Located ==
    \A p \in Procs : pc[p] # "off" =>
        /\ version[p] \in Versions
        /\ todo[p] \subseteq DOMAIN Models[version[p]]
        /\ pc[p] # "next" => cur[p] \in DOMAIN Models[version[p]] \ todo[p]

\* Locks are held by transactions.
Holding == \A x \in Resources, p \in Procs : lock[x] = p => pc[p] # "off"

\* What a transaction makes of a table has what the table has.
Kept == \A r \in Rels : lock[<<"rel", r>>] # NoProc => Keeps(rel[r], newRel[r])

Base0 == Shape /\ Relations /\ Located /\ Holding /\ Kept

LEMMA Absence ==
  ASSUME NEW x, IsRelation(x)
  PROVE  x # Absent <=> x.kind \in Kinds
  BY DEF IsRelation, Absent, Kinds

LEMMA AbsentIsRelation ==
  IsRelation(Absent) /\ Absent.kind = "absent"
<1>1. ByName(Absent.idxs)
  BY DEF ByName, Absent
<1> QED
  BY <1>1 DEF IsRelation, Absent

LEMMA NewRelationIs ==
  ASSUME NEW v \in Versions, NEW r \in DOMAIN Models[v]
  PROVE  /\ IsRelation(NewRelation(Models[v][r]))
         /\ NewRelation(Models[v][r]).kind = Models[v][r].kind
         /\ NewRelation(Models[v][r]) # Absent
<1>1. Models[v][r].kind \in Kinds /\ ByName(Models[v][r].idxs)
  BY ModelsAssumption DEF Kinds
<1>2. CASE Models[v][r].kind = "table"
  BY <1>1, <1>2 DEF NewRelation, NewTable, IsRelation, Absent
<1>3. CASE Models[v][r].kind # "table"
  <2>1. ByName(NewRelation(Models[v][r]).idxs)
    BY <1>1, <1>3 DEF NewRelation, NewView, ByName
  <2> QED
    BY <1>1, <1>3, <2>1 DEF NewRelation, NewView, IsRelation, Absent, Kinds
<1> QED
  BY <1>2, <1>3

LEMMA PatchedIs ==
  ASSUME NEW x, NEW to, NEW patch, NEW viewed, IsRelation(x),
         ~PatchFails(x, to, patch, viewed)
  PROVE  /\ IsRelation(Patched(x, to, patch))
         /\ Keeps(x, Patched(x, to, patch))
         /\ Patched(x, to, patch).kind = x.kind
<1> DEFINE y == Patched(x, to, patch)
<1>1. /\ y = [kind |-> y.kind, cols |-> y.cols, idxs |-> y.idxs, query |-> y.query,
               rows |-> y.rows, nulls |-> y.nulls]
      /\ y.kind = x.kind
      /\ y.rows = x.rows
      /\ DOMAIN y.cols = DOMAIN x.cols \cup patch.add
      /\ \A c \in DOMAIN y.cols : y.cols[c] =
            IF c \in patch.add THEN Added(to.cols[c]) ELSE AlteredColumn(c, x, to, patch)
      /\ y.cols = [c \in DOMAIN x.cols \cup patch.add |-> y.cols[c]]
      /\ y.nulls = (x.nulls \ patch.fill) \cup
                {c \in patch.add : /\ x.rows /\ ~to.cols[c].notnull
                                   /\ Stored(to.cols[c]).default = NoDefault}
  BY DEF Patched
<1>2. /\ patch.add \cap DOMAIN x.cols = {}
      /\ \A c \in patch.nullable : to.cols[c].notnull => c \notin x.nulls \ patch.fill
      /\ x # Absent
      /\ x.kind # "table" => patch.add = {}
  BY DEF PatchFails
<1> HIDE DEF y
<1>3. ASSUME NEW c \in y.nulls
      PROVE  c \in DOMAIN y.cols /\ ~y.cols[c].notnull
  <2>1. CASE c \in patch.add /\ ~to.cols[c].notnull
    <3>1. c \in DOMAIN y.cols /\ y.cols[c] = Added(to.cols[c])
      BY <1>1, <2>1
    <3>2. Added(to.cols[c]).notnull = to.cols[c].notnull
      BY DEF Added
    <3> QED
      BY <2>1, <3>1, <3>2
  <2>2. CASE c \in x.nulls \ patch.fill
    <3>1. c \in DOMAIN x.cols /\ ~x.cols[c].notnull /\ c \notin patch.add
      BY <1>2, <2>2 DEF IsRelation
    <3>2. y.cols[c] = AlteredColumn(c, x, to, patch) /\ c \in DOMAIN y.cols
      BY <1>1, <3>1
    <3>3. c \in patch.nullable => ~to.cols[c].notnull
      BY <1>2, <2>2
    <3>4. y.cols[c].notnull = IF c \in patch.nullable THEN to.cols[c].notnull
                              ELSE x.cols[c].notnull
      BY <3>2 DEF AlteredColumn
    <3> QED
      BY <3>1, <3>2, <3>3, <3>4
  <2> QED
    BY <1>1, <2>1, <2>2
<1>4. x.kind # "table" => y.cols = <<>> /\ y.nulls = {}
  <2> SUFFICES ASSUME x.kind # "table" PROVE y.cols = <<>> /\ y.nulls = {}
    OBVIOUS
  <2>1. x.cols = <<>> /\ x.nulls = {} /\ patch.add = {}
    BY <1>2 DEF IsRelation
  <2>2. DOMAIN y.cols = {} /\ y.cols = [c \in {} |-> y.cols[c]]
    BY <1>1, <2>1
  <2> QED
    BY <1>1, <2>1, <2>2
<1>5. ByName(y.idxs)
  BY DEF y, Patched, ByName
<1>6. IsRelation(y)
  BY <1>1, <1>2, <1>3, <1>4, <1>5 DEF IsRelation
<1>7. Keeps(x, y)
  BY <1>1 DEF Keeps
<1> QED
  BY <1>1, <1>6, <1>7 DEF y

LEMMA KeepsTransitive ==
  ASSUME NEW x, NEW y, NEW z, Keeps(x, y), Keeps(y, z)
  PROVE  Keeps(x, z)
  BY DEF Keeps

\* A step of p that changes no relation and no row, and at most takes a lock
\* on what is made once.
Quiet(p) ==
    /\ UNCHANGED <<dbVars, newRel, newConf>>
    /\ \A r \in Rels : /\ lock'[<<"rel", r>>] = lock[<<"rel", r>>]
                       /\ lock'[<<"conf", r>>] = lock[<<"conf", r>>]
    /\ lock' \in [Resources -> Procs \cup {NoProc}]
    /\ \A x \in Resources : lock'[x] \in {lock[x], p}

\* Only p has moved.
Alone(p) ==
    \A q \in Procs \ {p} :
        /\ pc'[q] = pc[q] /\ version'[q] = version[q] /\ todo'[q] = todo[q]
        /\ cur'[q] = cur[q] /\ seen'[q] = seen[q]

ProcShape ==
    /\ pc \in [Procs -> PCs]
    /\ version \in [Procs -> Versions \cup {NoProc}]
    /\ todo \in [Procs -> SUBSET Rels]
    /\ cur \in [Procs -> Rels \cup {NoProc}]
    /\ seen = [p \in Procs |-> [idxs |-> seen[p].idxs, conf |-> seen[p].conf,
                                cols |-> seen[p].cols]]
    /\ result \in [Procs -> {"none", "ok", "err"}]

LEMMA QuietStep ==
  ASSUME Base0, NEW p \in Procs, Quiet(p), Alone(p), ProcShape', pc'[p] # "off",
         /\ version'[p] \in Versions
         /\ todo'[p] \subseteq DOMAIN Models[version'[p]]
         /\ pc'[p] # "next" => cur'[p] \in DOMAIN Models[version'[p]] \ todo'[p]
  PROVE  Base0'
<1>1. Shape'
  BY DEF Base0, Shape, ProcShape, Quiet, dbVars
<1>2. Relations'
  BY DEF Base0, Relations, Quiet, dbVars
<1>3. Located'
  BY DEF Base0, Located, Alone
<1>4. Holding'
  BY DEF Base0, Holding, Alone, Quiet, Shape
<1>5. Kept'
  BY DEF Base0, Kept, Quiet, dbVars
<1> QED
  BY <1>1, <1>2, <1>3, <1>4, <1>5 DEF Base0

LEMMA ResourcesAre ==
  /\ \A r \in Rels : <<"rel", r>> \in Resources /\ <<"conf", r>> \in Resources
  /\ \A o \in Onces : <<"once", o>> \in Resources
  /\ \A r, s : /\ <<"rel", r>> # <<"conf", s>>
               /\ <<"rel", r>> # <<"once", s>>
               /\ <<"conf", r>> # <<"once", s>>
  /\ \A r, s : /\ <<"rel", r>> = <<"rel", s>> <=> r = s
               /\ <<"conf", r>> = <<"conf", s>> <=> r = s
  BY DEF Resources

LEMMA SeenIs ==
  ASSUME Base0, NEW p \in Procs, NEW r \in Rels
  PROVE  /\ IsRelation(RelSeen(p, r))
         /\ KindFits(RelSeen(p, r), r)
         /\ Keeps(rel[r], RelSeen(p, r))
<1>1. p # NoProc
  BY ConstantsAssumption
<1>2. Keeps(rel[r], rel[r])
  BY DEF Keeps
<1> QED
  BY <1>1, <1>2 DEF Base0, Relations, Kept, RelSeen

\* A transaction makes x of the relation that it deals with.
LEMMA ChangeStep ==
  ASSUME Base0, NEW p \in Procs, NEW xs, NEW x, NEW l \in PCs \ {"off", "next"},
         pc[p] \notin {"off", "next"},
         xs \subseteq {<<"rel", r>> : r \in Rels}, Change(p, xs, x, l),
         IsRelation(x), KindFits(x, cur[p]), Keeps(RelSeen(p, cur[p]), x)
  PROVE  Base0'
<1>1. /\ cur[p] \in Rels
      /\ version[p] \in Versions
      /\ p # NoProc
  BY ModelsAssumption, ConstantsAssumption DEF Base0, Located
<1>2. /\ lock' = [y \in Resources |-> IF y \in xs THEN p ELSE lock[y]]
      /\ newRel' = [r \in Rels |-> IF r = cur[p] THEN x
                                   ELSE IF <<"rel", r>> \in xs THEN RelSeen(p, r)
                                   ELSE newRel[r]]
      /\ pc' = [pc EXCEPT ![p] = l]
      /\ UNCHANGED <<up, rel, conf, newConf, version, todo, cur, seen, result>>
  BY DEF Change, Goto, dbVars
<1>3. Shape'
  <2>1. lock' \in [Resources -> Procs \cup {NoProc}]
    BY <1>2 DEF Base0, Shape
  <2>2. pc' \in [Procs -> PCs]
    BY <1>2 DEF Base0, Shape
  <2>3. newRel' = [r \in Rels |-> newRel'[r]]
    BY <1>2
  <2> QED
    BY <1>2, <2>1, <2>2, <2>3 DEF Base0, Shape
<1>4. Relations'
  BY <1>1, <1>2, SeenIs DEF Base0, Relations
<1>5. Located'
  BY <1>2 DEF Base0, Located, Shape
<1>6. Holding'
  <2>1. \A q \in Procs : pc[q] # "off" => pc'[q] # "off"
    BY <1>2 DEF Base0, Shape
  <2>2. pc'[p] # "off"
    BY <1>2 DEF Base0, Shape
  <2> QED
    BY <1>2, <2>1, <2>2 DEF Base0, Holding, Shape
<1>7. Kept'
  <2> SUFFICES ASSUME NEW r \in Rels, lock'[<<"rel", r>>] # NoProc
               PROVE  Keeps(rel[r], newRel'[r])
    BY <1>2 DEF Kept
  <2>1. CASE r = cur[p]
    <3>1. Keeps(rel[r], RelSeen(p, r))
      BY SeenIs
    <3> QED
      BY <1>1, <1>2, <2>1, <3>1, KeepsTransitive
  <2>2. CASE r # cur[p] /\ <<"rel", r>> \in xs
    BY <1>1, <1>2, <2>2, SeenIs
  <2>3. CASE r # cur[p] /\ <<"rel", r>> \notin xs
    BY <1>2, <2>3, ResourcesAre DEF Base0, Kept
  <2> QED
    BY <2>1, <2>2, <2>3
<1> QED
  BY <1>3, <1>4, <1>5, <1>6, <1>7 DEF Base0

\* The locks of p are gone.
LEMMA ReleaseStep ==
  ASSUME Base0, NEW p \in Procs, Release(p), Alone(p), ProcShape', pc'[p] = "off",
         up' \subseteq Onces,
         rel' = [r \in Rels |-> rel'[r]], conf' = [r \in Rels |-> conf'[r]],
         \A r \in Rels : \/ rel'[r] = rel[r]
                         \/ rel'[r] = newRel[r] /\ lock[<<"rel", r>>] = p
  PROVE  Base0'
<1>1. p # NoProc
  BY ConstantsAssumption
<1>2. /\ lock' \in [Resources -> Procs \cup {NoProc}]
      /\ newRel' = [r \in Rels |-> newRel'[r]]
      /\ newConf' = [r \in Rels |-> newConf'[r]]
  BY DEF Release, Base0, Shape
<1>3. Shape'
  BY <1>2 DEF ProcShape, Shape
<1>4. Relations'
  <2> SUFFICES ASSUME NEW r \in Rels
               PROVE  /\ IsRelation(rel'[r]) /\ IsRelation(newRel'[r])
                      /\ KindFits(rel'[r], r) /\ KindFits(newRel'[r], r)
    BY DEF Relations
  <2>2. newRel'[r] = Absent \/ newRel'[r] = newRel[r]
    BY DEF Release
  <2>3. KindFits(Absent, r)
    BY DEF KindFits
  <2> QED
    BY <2>2, <2>3, AbsentIsRelation DEF Base0, Relations
<1>5. Located'
  BY DEF Base0, Located, Alone
<1>6. \A x \in Resources : lock'[x] = IF lock[x] = p THEN NoProc ELSE lock[x]
  BY DEF Release
<1>7. Holding'
  <2> SUFFICES ASSUME NEW x \in Resources, NEW q \in Procs, lock'[x] = q
               PROVE  pc'[q] # "off"
    BY DEF Holding
  <2>1. lock[x] = q /\ q # p
    BY <1>6, ConstantsAssumption
  <2> QED
    BY <2>1 DEF Base0, Holding, Alone
<1>8. Kept'
  <2> SUFFICES ASSUME NEW r \in Rels, lock'[<<"rel", r>>] # NoProc
               PROVE  Keeps(rel'[r], newRel'[r])
    BY DEF Kept
  <2>1. lock[<<"rel", r>>] # p /\ lock[<<"rel", r>>] # NoProc
    BY <1>6, ResourcesAre
  <2>2. rel'[r] = rel[r] /\ newRel'[r] = newRel[r]
    BY <2>1 DEF Release
  <2> QED
    BY <2>1, <2>2 DEF Base0, Kept
<1> QED
  BY <1>3, <1>4, <1>5, <1>7, <1>8 DEF Base0

LEMMA FinishIs ==
  ASSUME Base0, NEW p \in Procs, NEW r \in {"ok", "err"}, Finish(p, r)
  PROVE  Alone(p) /\ ProcShape' /\ pc'[p] = "off"
<1>1. /\ pc' = [pc EXCEPT ![p] = "off"]
      /\ result' = [result EXCEPT ![p] = r]
      /\ todo' = [todo EXCEPT ![p] = {}]
      /\ version' = [version EXCEPT ![p] = NoProc]
      /\ cur' = [cur EXCEPT ![p] = NoProc]
      /\ seen' = [seen EXCEPT ![p] = None]
  BY DEF Finish, Goto
<1>2. Alone(p)
  BY <1>1 DEF Base0, Shape, Alone
<1> QED
  BY <1>1, <1>2 DEF Base0, Shape, ProcShape, PCs, None

LEMMA AbortStep ==
  ASSUME Base0, NEW p \in Procs, Abort(p)
  PROVE  Base0'
<1>1. Release(p) /\ Finish(p, "err") /\ UNCHANGED <<up, rel, conf>>
  BY DEF Abort, dbVars
<1>2. Alone(p) /\ ProcShape' /\ pc'[p] = "off"
  BY <1>1, FinishIs
<1>3. /\ up' \subseteq Onces
      /\ rel' = [r \in Rels |-> rel'[r]]
      /\ conf' = [r \in Rels |-> conf'[r]]
      /\ \A r \in Rels : rel'[r] = rel[r]
  BY <1>1 DEF Base0, Shape
<1> QED
  BY <1>1, <1>2, <1>3, ReleaseStep

LEMMA CommitStep ==
  ASSUME Base0, NEW p \in Procs, Commit(p)
  PROVE  Base0'
<1>1. /\ up' = up \cup {o \in Onces : lock[<<"once", o>>] = p}
      /\ rel' = [r \in Rels |-> RelSeen(p, r)]
      /\ conf' = [r \in Rels |-> ConfSeen(p, r)]
      /\ Release(p)
      /\ Finish(p, "ok") \/ Finish(p, "err")
  BY DEF Commit
<1>2. Alone(p) /\ ProcShape' /\ pc'[p] = "off"
  BY <1>1, FinishIs
<1>3. /\ up' \subseteq Onces
      /\ rel' = [r \in Rels |-> rel'[r]]
      /\ conf' = [r \in Rels |-> conf'[r]]
  BY <1>1 DEF Base0, Shape
<1>4. \A r \in Rels : \/ rel'[r] = rel[r]
                      \/ rel'[r] = newRel[r] /\ lock[<<"rel", r>>] = p
  <2> SUFFICES ASSUME NEW r \in Rels
               PROVE  \/ rel'[r] = rel[r]
                      \/ rel'[r] = newRel[r] /\ lock[<<"rel", r>>] = p
    OBVIOUS
  <2>1. rel'[r] = RelSeen(p, r)
    BY <1>1
  <2> QED
    BY <2>1 DEF RelSeen
<1> QED
  BY <1>1, <1>2, <1>3, <1>4, ReleaseStep

\* A step of p that only moves it.
LEMMA GotoStep ==
  ASSUME Base0, NEW p \in Procs, NEW l \in PCs \ {"off"}, Goto(p, l), pc[p] # "off",
         pc[p] = "next" => l = "next",
         Quiet(p), UNCHANGED <<version, todo, cur, result>>, ProcShape',
         \A q \in Procs \ {p} : seen'[q] = seen[q]
  PROVE  Base0'
<1>1. pc'[p] = l /\ \A q \in Procs \ {p} : pc'[q] = pc[q]
  BY DEF Goto, Base0, Shape
<1>2. Alone(p)
  BY <1>1 DEF Alone
<1> QED
  BY <1>1, <1>2, QuietStep DEF Base0, Located

LEMMA EnsureIs ==
  ASSUME Base0, NEW p \in Procs, NEW o \in Onces, NEW wait \in PCs, NEW done \in PCs,
         Ensure(p, o, wait, done), UNCHANGED <<dbVars, newRel, newConf>>
  PROVE  Quiet(p) /\ \E l \in {wait, done} : Goto(p, l)
<1>1. CASE lock' = lock
  BY <1>1 DEF Ensure, Quiet, Base0, Shape
<1>2. CASE lock' = [lock EXCEPT ![<<"once", o>>] = p] /\ Goto(p, done)
  <2>1. Quiet(p)
    BY <1>2, ResourcesAre DEF Quiet, Base0, Shape
  <2> QED
    BY <1>2, <2>1
<1> QED
  BY <1>1, <1>2 DEF Ensure

LEMMA WaitStep ==
  ASSUME Base0, NEW p \in Procs, NEW o \in Onces, NEW done \in PCs \ {"off"},
         pc[p] \notin {"off", "next"}, EnsureAfterWait(p, o, done)
  PROVE  Base0'
<1>1. CASE Abort(p)
  BY <1>1, AbortStep
<1>2. CASE /\ lock' = [lock EXCEPT ![<<"once", o>>] = p]
           /\ Goto(p, done)
           /\ UNCHANGED <<dbVars, newRel, newConf, version, todo, cur, seen, result>>
  <2>1. Quiet(p)
    BY <1>2, ResourcesAre DEF Quiet, Base0, Shape
  <2>2. ProcShape'
    BY <1>2 DEF ProcShape, Base0, Shape, Goto
  <2> QED
    BY <1>2, <2>1, <2>2, GotoStep
<1> QED
  BY <1>1, <1>2 DEF EnsureAfterWait

\* Only a table changes, that no transaction has changed.
Outside(r) ==
    /\ rel' = [q \in Rels |-> rel'[q]]
    /\ \A q \in Rels \ {r} : rel'[q] = rel[q]
    /\ rel[r].kind = "table" /\ rel'[r].kind = "table"
    /\ IsRelation(rel'[r])
    /\ rel'[r].cols = rel[r].cols
    /\ rel[r].rows => rel'[r].rows
    /\ UNCHANGED <<up, conf, txVars, procVars>>

LEMMA OutsideStep ==
  ASSUME Base0, NEW r \in Rels, Outside(r), lock[<<"rel", r>>] = NoProc
  PROVE  Base0'
<1>1. /\ UNCHANGED <<up, conf, lock, newRel, newConf>>
      /\ UNCHANGED <<pc, version, todo, cur, seen, result>>
  BY DEF txVars, procVars, Outside
<1>2. Shape'
  BY <1>1 DEF Base0, Shape, Outside
<1>3. rel[r] # Absent
  BY DEF Absent, Outside
<1>4. Relations'
  <2> SUFFICES ASSUME NEW q \in Rels
               PROVE  IsRelation(rel'[q]) /\ KindFits(rel'[q], q)
    BY <1>1 DEF Relations, Base0
  <2>1. CASE q = r
    BY <1>3, <2>1 DEF Base0, Relations, KindFits, Outside
  <2>2. CASE q # r
    BY <2>2 DEF Base0, Relations, Outside
  <2> QED
    BY <2>1, <2>2
<1>5. Located' /\ Holding'
  BY <1>1 DEF Base0, Located, Holding
<1>6. Kept'
  BY <1>1 DEF Base0, Kept, Outside
<1> QED
  BY <1>2, <1>4, <1>5, <1>6 DEF Base0

LEMMA InsertedIs ==
  ASSUME Base0, NEW r \in Rels, InsertRows(r)
  PROVE  /\ Outside(r) /\ lock[<<"rel", r>>] = NoProc
         /\ rel'[r].idxs = rel[r].idxs
<1>1. PICK b \in BOOLEAN : b = TRUE
  OBVIOUS
<1> DEFINE some == {c \in DOMAIN rel[r].cols : ~rel[r].cols[c].notnull}
<1>2. /\ rel' = [rel EXCEPT ![r].rows = b, ![r].nulls = some]
      /\ rel[r].kind = "table" /\ rel[r] # Absent
      /\ lock[<<"rel", r>>] = NoProc
      /\ UNCHANGED <<up, conf, txVars, procVars>>
  BY <1>1 DEF InsertRows
<1> HIDE DEF some
<1>3. /\ DOMAIN rel = Rels
      /\ rel[r] = [kind |-> rel[r].kind, cols |-> rel[r].cols, idxs |-> rel[r].idxs,
                   query |-> rel[r].query, rows |-> rel[r].rows, nulls |-> rel[r].nulls]
  BY DEF Base0, Shape, Relations, IsRelation
<1>4. /\ rel'[r] = [kind |-> rel[r].kind, cols |-> rel[r].cols, idxs |-> rel[r].idxs,
                    query |-> rel[r].query, rows |-> b, nulls |-> some]
      /\ rel' = [q \in Rels |-> rel'[q]]
      /\ \A q \in Rels \ {r} : rel'[q] = rel[q]
  BY <1>2, <1>3
<1>5. /\ rel'[r].kind = "table" /\ rel'[r].rows = b /\ rel'[r].cols = rel[r].cols
      /\ rel'[r].idxs = rel[r].idxs /\ rel'[r].nulls = some
      /\ rel'[r].query = rel[r].query
  BY <1>2, <1>4
<1>6. IsRelation(rel'[r])
  <2>1. ByName(rel'[r].idxs)
    BY <1>5 DEF Base0, Relations, IsRelation
  <2> QED
    BY <1>4, <1>5, <2>1 DEF IsRelation, some
<1> QED
  BY <1>1, <1>2, <1>4, <1>5, <1>6 DEF Outside

LEMMA IndexedIs ==
  ASSUME Base0, NEW r \in Rels, NEW i, ManualIndex(r, i)
  PROVE  /\ Outside(r) /\ lock[<<"rel", r>>] = NoProc
         /\ \A j \in DOMAIN rel[r].idxs \ {i} :
                j \in DOMAIN rel'[r].idxs /\ rel'[r].idxs[j] = rel[r].idxs[j]
<1>1. PICK idxs : /\ rel' = [rel EXCEPT ![r].idxs = idxs]
                  /\ ByName(idxs)
                  /\ \A j \in DOMAIN rel[r].idxs \ {i} :
                        j \in DOMAIN idxs /\ idxs[j] = rel[r].idxs[j]
  <2> DEFINE old == rel[r].idxs
             fewer == [j \in DOMAIN old \ {i} |-> old[j]]
             more == [j \in DOMAIN old \cup {i} |->
                        IF j # i THEN old[j]
                        ELSE [on |-> DOMAIN rel[r].cols, opts |-> "", concurrently |-> FALSE]]
  <2>1. \/ rel' = [rel EXCEPT ![r].idxs = fewer]
        \/ rel' = [rel EXCEPT ![r].idxs = more]
    BY DEF ManualIndex
  <2>2. ByName(fewer) /\ ByName(more)
    BY DEF ByName
  <2>3. \A j \in DOMAIN old \ {i} : /\ j \in DOMAIN fewer /\ fewer[j] = old[j]
                                   /\ j \in DOMAIN more /\ more[j] = old[j]
    OBVIOUS
  <2> HIDE DEF fewer, more
  <2> QED
    BY <2>1, <2>2, <2>3
<1>2. /\ rel[r].kind = "table" /\ rel[r] # Absent
      /\ \A p \in Procs : pc[p] = "off"
      /\ UNCHANGED <<up, conf, txVars, procVars>>
  BY DEF ManualIndex
<1>3. /\ DOMAIN rel = Rels
      /\ rel[r] = [kind |-> rel[r].kind, cols |-> rel[r].cols, idxs |-> rel[r].idxs,
                   query |-> rel[r].query, rows |-> rel[r].rows, nulls |-> rel[r].nulls]
  BY DEF Base0, Shape, Relations, IsRelation
<1>4. /\ rel'[r] = [kind |-> rel[r].kind, cols |-> rel[r].cols, idxs |-> idxs,
                    query |-> rel[r].query, rows |-> rel[r].rows, nulls |-> rel[r].nulls]
      /\ rel' = [q \in Rels |-> rel'[q]]
      /\ \A q \in Rels \ {r} : rel'[q] = rel[q]
  BY <1>1, <1>3
<1>5. /\ rel'[r].kind = "table" /\ rel'[r].rows = rel[r].rows
      /\ rel'[r].cols = rel[r].cols /\ rel'[r].idxs = idxs
      /\ rel'[r].nulls = rel[r].nulls /\ rel'[r].query = rel[r].query
  BY <1>2, <1>4
<1>6. IsRelation(rel'[r])
  <2>1. rel'[r].nulls \subseteq {c \in DOMAIN rel'[r].cols : ~rel'[r].cols[c].notnull}
    BY <1>5 DEF Base0, Relations, IsRelation
  <2> QED
    BY <1>1, <1>4, <1>5, <2>1 DEF IsRelation
<1>7. lock[<<"rel", r>>] = NoProc
  <2>1. <<"rel", r>> \in Resources
    BY ResourcesAre
  <2>2. lock[<<"rel", r>>] \in Procs \cup {NoProc}
    BY <2>1 DEF Base0, Shape
  <2>3. lock[<<"rel", r>>] \notin Procs
    BY <1>2, <2>1 DEF Base0, Holding
  <2> QED
    BY <2>2, <2>3
<1> QED
  BY <1>1, <1>2, <1>4, <1>5, <1>6, <1>7 DEF Outside

\* What a migrator reads is noted in seen.
LEMMA Noted ==
  ASSUME Base0, NEW p \in Procs, NEW x,
         \/ seen' = [seen EXCEPT ![p].idxs = x]
         \/ seen' = [seen EXCEPT ![p].conf = x]
         \/ seen' = [seen EXCEPT ![p].cols = x]
  PROVE  /\ seen' = [q \in Procs |-> [idxs |-> seen'[q].idxs, conf |-> seen'[q].conf,
                                      cols |-> seen'[q].cols]]
         /\ \A q \in Procs \ {p} : seen'[q] = seen[q]
         /\ seen' = [seen EXCEPT ![p].idxs = x] =>
                seen'[p].idxs = x /\ seen'[p].conf = seen[p].conf /\ seen'[p].cols = seen[p].cols
         /\ seen' = [seen EXCEPT ![p].conf = x] =>
                seen'[p].idxs = seen[p].idxs /\ seen'[p].conf = x /\ seen'[p].cols = seen[p].cols
         /\ seen' = [seen EXCEPT ![p].cols = x] =>
                seen'[p].idxs = seen[p].idxs /\ seen'[p].conf = seen[p].conf /\ seen'[p].cols = x
<1>1. /\ DOMAIN seen = Procs
      /\ \A q \in Procs : seen[q] = [idxs |-> seen[q].idxs, conf |-> seen[q].conf,
                                    cols |-> seen[q].cols]
  BY DEF Base0, Shape
<1>2. /\ DOMAIN seen' = Procs
      /\ seen' = [q \in Procs |-> seen'[q]]
      /\ \A q \in Procs \ {p} : seen'[q] = seen[q]
  BY <1>1
<1>3. /\ seen' = [seen EXCEPT ![p].idxs = x] =>
            seen'[p] = [idxs |-> x, conf |-> seen[p].conf, cols |-> seen[p].cols]
      /\ seen' = [seen EXCEPT ![p].conf = x] =>
            seen'[p] = [idxs |-> seen[p].idxs, conf |-> x, cols |-> seen[p].cols]
      /\ seen' = [seen EXCEPT ![p].cols = x] =>
            seen'[p] = [idxs |-> seen[p].idxs, conf |-> seen[p].conf, cols |-> x]
  BY <1>1
<1>4. \A q \in Procs : seen'[q] = [idxs |-> seen'[q].idxs, conf |-> seen'[q].conf,
                                   cols |-> seen'[q].cols]
  BY <1>1, <1>2, <1>3
<1> QED
  BY <1>2, <1>3, <1>4

LEMMA NotedIndexes ==
  ASSUME Base0, NEW p \in Procs, NEW x, seen' = [seen EXCEPT ![p].idxs = x]
  PROVE  /\ seen'[p].idxs = x /\ seen'[p].conf = seen[p].conf /\ seen'[p].cols = seen[p].cols
         /\ \A q \in Procs \ {p} : seen'[q] = seen[q]
<1>1. /\ DOMAIN seen = Procs
      /\ seen[p] = [idxs |-> seen[p].idxs, conf |-> seen[p].conf, cols |-> seen[p].cols]
  BY DEF Base0, Shape
<1>2. seen'[p] = [idxs |-> x, conf |-> seen[p].conf, cols |-> seen[p].cols]
  BY <1>1
<1>3. \A q \in Procs \ {p} : seen'[q] = seen[q]
  BY <1>1
<1> QED
  BY <1>2, <1>3

LEMMA NotedConf ==
  ASSUME Base0, NEW p \in Procs, NEW x, seen' = [seen EXCEPT ![p].conf = x]
  PROVE  /\ seen'[p].idxs = seen[p].idxs /\ seen'[p].conf = x /\ seen'[p].cols = seen[p].cols
         /\ \A q \in Procs \ {p} : seen'[q] = seen[q]
<1>1. /\ DOMAIN seen = Procs
      /\ seen[p] = [idxs |-> seen[p].idxs, conf |-> seen[p].conf, cols |-> seen[p].cols]
  BY DEF Base0, Shape
<1>2. seen'[p] = [idxs |-> seen[p].idxs, conf |-> x, cols |-> seen[p].cols]
  BY <1>1
<1>3. \A q \in Procs \ {p} : seen'[q] = seen[q]
  BY <1>1
<1> QED
  BY <1>2, <1>3

LEMMA NotedColumns ==
  ASSUME Base0, NEW p \in Procs, NEW x, seen' = [seen EXCEPT ![p].cols = x]
  PROVE  /\ seen'[p].idxs = seen[p].idxs /\ seen'[p].conf = seen[p].conf /\ seen'[p].cols = x
         /\ \A q \in Procs \ {p} : seen'[q] = seen[q]
<1>1. /\ DOMAIN seen = Procs
      /\ seen[p] = [idxs |-> seen[p].idxs, conf |-> seen[p].conf, cols |-> seen[p].cols]
  BY DEF Base0, Shape
<1>2. seen'[p] = [idxs |-> seen[p].idxs, conf |-> seen[p].conf, cols |-> x]
  BY <1>1
<1>3. \A q \in Procs \ {p} : seen'[q] = seen[q]
  BY <1>1
<1> QED
  BY <1>2, <1>3

\* The steps that end a turn or go on with it.
LEMMA MovesKeepBase ==
  ASSUME Base0, NEW p \in Procs,
         \/ \E v \in Versions : Start(p, v)
         \/ EnsureModelSchema(p)
         \/ ReadIndexes(p) \/ LoadConfig(p) \/ ReadColumns(p)
         \/ EnsureMigrations(p) \/ AfterMigrate(p)
  PROVE  Base0'
<1>1. CASE \E v \in Versions : Start(p, v)
  <2>1. PICK v \in Versions : Start(p, v)
    BY <1>1
  <2>2. /\ version' = [version EXCEPT ![p] = v]
        /\ todo' = [todo EXCEPT ![p] = DOMAIN Models[v]]
        /\ result' = [result EXCEPT ![p] = "none"]
        /\ pc' = [pc EXCEPT ![p] = "next"]
        /\ UNCHANGED <<up, rel, conf, lock, newRel, newConf, cur, seen>>
    BY <2>1 DEF Start, Goto, dbVars, txVars
  <2>3. DOMAIN Models[v] \subseteq Rels
    BY ModelsAssumption
  <2>4. ProcShape'
    BY <2>2, <2>3 DEF ProcShape, Base0, Shape, PCs
  <2>5. Alone(p) /\ Quiet(p)
    BY <2>2 DEF Alone, Quiet, Base0, Shape, dbVars
  <2>6. pc'[p] = "next" /\ version'[p] = v /\ todo'[p] = DOMAIN Models[v]
    BY <2>2 DEF Base0, Shape
  <2> QED
    BY <2>4, <2>5, <2>6, QuietStep
<1>2. CASE EnsureModelSchema(p)
  <2>1. PICK r \in todo[p] : /\ todo' = [todo EXCEPT ![p] = @ \ {r}]
                             /\ cur' = [cur EXCEPT ![p] = r]
    BY <1>2 DEF EnsureModelSchema
  <2>2. /\ pc[p] = "next"
        /\ Ensure(p, "schema", "waitSchema", "indexes")
        /\ UNCHANGED <<dbVars, newRel, newConf, version, seen, result>>
    BY <1>2 DEF EnsureModelSchema
  <2>3. Quiet(p) /\ \E l \in {"waitSchema", "indexes"} : Goto(p, l)
    BY <2>2, EnsureIs DEF PCs, Onces
  <2>4. PICK l \in {"waitSchema", "indexes"} : pc' = [pc EXCEPT ![p] = l]
    BY <2>3 DEF Goto
  <2>5. ProcShape'
    BY <2>1, <2>2, <2>4 DEF ProcShape, Base0, Shape, PCs
  <2>6. Alone(p)
    BY <2>1, <2>2, <2>4 DEF Alone, Base0, Shape
  <2>7. /\ pc'[p] = l /\ version'[p] = version[p]
        /\ todo'[p] = todo[p] \ {r} /\ cur'[p] = r
    BY <2>1, <2>2, <2>4 DEF Base0, Shape
  <2>8. version[p] \in Versions /\ todo[p] \subseteq DOMAIN Models[version[p]]
    BY <2>2 DEF Base0, Located
  <2> QED
    BY <2>3, <2>5, <2>6, <2>7, <2>8, QuietStep
<1>3. CASE ReadIndexes(p) \/ ReadColumns(p)
  <2>1. PICK l \in {"load", "alter"} : Goto(p, l)
    BY <1>3 DEF ReadIndexes, ReadColumns
  <2>2. /\ UNCHANGED <<dbVars, txVars, version, todo, cur, result>>
        /\ pc[p] \notin {"off", "next"}
    BY <1>3 DEF ReadIndexes, ReadColumns
  <2>3. PICK x : seen' = [seen EXCEPT ![p].idxs = x] \/ seen' = [seen EXCEPT ![p].cols = x]
    BY <1>3 DEF ReadIndexes, ReadColumns
  <2>4. ProcShape' /\ \A q \in Procs \ {p} : seen'[q] = seen[q]
    BY <2>1, <2>2, <2>3, Noted DEF ProcShape, Base0, Shape, Goto, PCs
  <2>5. Quiet(p)
    BY <2>2 DEF Quiet, Base0, Shape, txVars
  <2> QED
    BY <2>1, <2>2, <2>4, <2>5, GotoStep DEF PCs
<1>4. CASE LoadConfig(p)
  <2>1. PICK l \in {"create", "migrations", "columns", "alter"} : Goto(p, l)
    BY <1>4 DEF LoadConfig
  <2>2. /\ UNCHANGED <<dbVars, txVars, version, todo, cur, result>>
        /\ pc[p] \notin {"off", "next"}
    BY <1>4 DEF LoadConfig
  <2>3. PICK x : seen' = [seen EXCEPT ![p].conf = x]
    BY <1>4 DEF LoadConfig
  <2>4. ProcShape' /\ \A q \in Procs \ {p} : seen'[q] = seen[q]
    BY <2>1, <2>2, <2>3, Noted DEF ProcShape, Base0, Shape, Goto, PCs
  <2>5. Quiet(p)
    BY <2>2 DEF Quiet, Base0, Shape, txVars
  <2> QED
    BY <2>1, <2>2, <2>4, <2>5, GotoStep DEF PCs
<1>5. CASE EnsureMigrations(p)
  <2>1. /\ pc[p] = "migrations"
        /\ Ensure(p, "migrations", "waitMigrations", "hook")
        /\ UNCHANGED <<dbVars, newRel, newConf, version, todo, cur, seen, result>>
    BY <1>5 DEF EnsureMigrations
  <2>2. Quiet(p) /\ \E l \in {"waitMigrations", "hook"} : Goto(p, l)
    BY <2>1, EnsureIs DEF PCs, Onces
  <2>3. PICK l \in {"waitMigrations", "hook"} : Goto(p, l)
    BY <2>2
  <2>4. ProcShape'
    BY <2>1, <2>3 DEF ProcShape, Base0, Shape, Goto, PCs
  <2> QED
    BY <2>1, <2>2, <2>3, <2>4, GotoStep DEF PCs
<1>6. CASE AfterMigrate(p)
  <2>1. PICK l \in {"commit", "next"} : Goto(p, l)
    BY <1>6 DEF AfterMigrate
  <2>2. /\ UNCHANGED <<dbVars, txVars, version, todo, cur, seen, result>>
        /\ pc[p] = "hook"
    BY <1>6 DEF AfterMigrate
  <2>3. ProcShape'
    BY <2>1, <2>2 DEF ProcShape, Base0, Shape, Goto, PCs
  <2>4. Quiet(p)
    BY <2>2 DEF Quiet, Base0, Shape, txVars
  <2>5. CASE l = "commit"
    BY <2>1, <2>2, <2>3, <2>4, <2>5, GotoStep DEF PCs
  <2>6. CASE l = "next"
    BY <2>1, <2>2, <2>3, <2>4, <2>6, GotoStep DEF PCs
  <2> QED
    BY <2>5, <2>6
<1> QED
  BY <1>1, <1>2, <1>3, <1>4, <1>5, <1>6

LEMMA NewRelationFits ==
  ASSUME NEW v \in Versions, NEW r \in DOMAIN Models[v]
  PROVE  KindFits(NewRelation(Models[v][r]), r)
<1>1. NewRelation(Models[v][r]).kind = Models[v][r].kind
  BY NewRelationIs
<1> QED
  BY <1>1 DEF KindFits, TablesStayTables, IsTable

\* What CreateModel and DropView make of a relation, when they do not fail.
LEMMA ViewStep ==
  ASSUME Base0, NEW p \in Procs,
         CreateModel(p) \/ DropView(p)
  PROVE  Base0'
<1>1. /\ pc[p] \in {"create", "alter"}
      /\ version[p] \in Versions /\ cur[p] \in DOMAIN Models[version[p]]
      /\ cur[p] \in Rels /\ Target(p) = Models[version[p]][cur[p]]
  BY ModelsAssumption DEF CreateModel, DropView, Base0, Located, Target
<1>2. Target(p).kind # "table" => Target(p).query.from \in Rels
  BY <1>1, ModelsAssumption
<1>3. RelationAndBase(p) \subseteq {<<"rel", r>> : r \in Rels}
  BY <1>1, <1>2 DEF RelationAndBase, Relation, Base
<1>4. IsRelation(RelSeen(p, cur[p]))
  BY <1>1, SeenIs
<1>5. CASE Abort(p)
  BY <1>5, AbortStep
<1>6. CASE /\ Creatable(RelSeen(p, cur[p]), Target(p))
           /\ Change(p, RelationAndBase(p), NewRelation(Target(p)), "save")
  <2>1. IsRelation(NewRelation(Target(p))) /\ KindFits(NewRelation(Target(p)), cur[p])
    BY <1>1, NewRelationIs, NewRelationFits
  <2>2. Keeps(RelSeen(p, cur[p]), NewRelation(Target(p)))
    BY <1>6, AbsentIsRelation DEF Keeps, Creatable
  <2> QED
    BY <1>1, <1>3, <1>6, <2>1, <2>2, ChangeStep DEF PCs
<1>7. CASE /\ ~DropViewFails(RelSeen(p, cur[p]))
           /\ Change(p, Relation(p), Absent, "create")
           /\ pc[p] = "alter"
  <2>1. RelSeen(p, cur[p]).kind # "table"
    BY <1>7 DEF DropViewFails, Absent
  <2>2. Keeps(RelSeen(p, cur[p]), Absent)
    BY <2>1 DEF Keeps
  <2>3. KindFits(Absent, cur[p])
    BY DEF KindFits
  <2>4. Relation(p) \subseteq {<<"rel", r>> : r \in Rels}
    BY <1>1 DEF Relation
  <2> QED
    BY <1>1, <1>7, <2>2, <2>3, <2>4, AbsentIsRelation, ChangeStep DEF PCs
<1>8. CASE CreateModel(p)
  BY <1>5, <1>6, <1>8 DEF CreateModel
<1>9. CASE DropView(p)
  BY <1>5, <1>7, <1>9 DEF DropView
<1> QED
  BY <1>8, <1>9

LEMMA AlterStep ==
  ASSUME Base0, NEW p \in Procs, AlterTable(p)
  PROVE  Base0'
<1> DEFINE patch == Patch(seen[p].conf, Target(p), seen[p].cols, seen[p].idxs)
           table == RelSeen(p, cur[p])
<1>1. /\ pc[p] = "alter"
      /\ version[p] \in Versions /\ cur[p] \in DOMAIN Models[version[p]]
      /\ cur[p] \in Rels /\ Target(p) = Models[version[p]][cur[p]]
      /\ Target(p).kind = "table"
  BY ModelsAssumption DEF AlterTable, Base0, Located, Target
<1>2. \/ Abort(p)
      \/ Goto(p, "save") /\ UNCHANGED <<dbVars, txVars, version, todo, cur, seen, result>>
      \/ /\ ~PatchFails(table, Target(p), patch, Viewed(p, cur[p]))
         /\ Change(p, Relation(p), Patched(table, Target(p), patch), "save")
  BY DEF AlterTable
<1>3. CASE Abort(p)
  BY <1>3, AbortStep
<1>4. CASE Goto(p, "save") /\ UNCHANGED <<dbVars, txVars, version, todo, cur, seen, result>>
  <2>1. Quiet(p)
    BY <1>4 DEF Quiet, Base0, Shape, txVars
  <2>2. ProcShape'
    BY <1>4 DEF ProcShape, Base0, Shape, Goto, PCs
  <2> QED
    BY <1>1, <1>4, <2>1, <2>2, GotoStep DEF PCs
<1>5. CASE /\ ~PatchFails(table, Target(p), patch, Viewed(p, cur[p]))
           /\ Change(p, Relation(p), Patched(table, Target(p), patch), "save")
  <2>1. IsRelation(table) /\ KindFits(table, cur[p])
    BY <1>1, SeenIs
  <2>2. table # Absent
    BY <1>5 DEF PatchFails
  <2> HIDE DEF patch, table
  <2>4. /\ IsRelation(Patched(table, Target(p), patch))
        /\ Keeps(table, Patched(table, Target(p), patch))
        /\ Patched(table, Target(p), patch).kind = table.kind
    BY <1>5, <2>1, PatchedIs
  <2>6. KindFits(Patched(table, Target(p), patch), cur[p])
    BY <2>1, <2>2, <2>4 DEF KindFits
  <2>7. Relation(p) \subseteq {<<"rel", r>> : r \in Rels}
    BY <1>1 DEF Relation
  <2> QED
    BY <1>1, <1>5, <2>4, <2>6, <2>7, ChangeStep DEF PCs, table
<1> QED
  BY <1>2, <1>3, <1>4, <1>5

LEMMA SaveStep ==
  ASSUME Base0, NEW p \in Procs, SaveConfig(p)
  PROVE  Base0'
<1>1. /\ pc[p] = "save"
      /\ version[p] \in Versions /\ cur[p] \in DOMAIN Models[version[p]]
      /\ cur[p] \in Rels /\ todo[p] \subseteq DOMAIN Models[version[p]]
      /\ cur[p] \notin todo[p]
      /\ p # NoProc
  BY ModelsAssumption, ConstantsAssumption DEF SaveConfig, Base0, Located
<1>2. /\ lock' = [lock EXCEPT ![<<"conf", cur[p]>>] = p]
      /\ newConf' = [newConf EXCEPT ![cur[p]] = Target(p)]
      /\ UNCHANGED <<up, rel, conf, newRel, version, todo, cur, seen, result>>
  BY DEF SaveConfig, dbVars
<1>3. PICK l \in {"migrations", "commit", "next"} : pc' = [pc EXCEPT ![p] = l]
  BY DEF SaveConfig, Goto
<1>4. Shape'
  BY <1>2, <1>3 DEF Base0, Shape, PCs
<1>5. Relations'
  BY <1>2 DEF Base0, Relations
<1>6. \A q \in Procs : pc'[q] # "off" <=> pc[q] # "off"
  BY <1>1, <1>3 DEF Base0, Shape
<1>7. Located'
  BY <1>1, <1>2, <1>3, <1>6 DEF Base0, Located, Shape
<1>8. Holding'
  BY <1>1, <1>2, <1>6 DEF Base0, Holding, Shape
<1>9. Kept'
  <2>1. \A r \in Rels : lock'[<<"rel", r>>] = lock[<<"rel", r>>]
    BY <1>2, ResourcesAre DEF Base0, Shape
  <2> QED
    BY <1>2, <2>1 DEF Base0, Kept
<1> QED
  BY <1>4, <1>5, <1>7, <1>8, <1>9 DEF Base0

LEMMA InitBase ==
  Init => Base0
<1> SUFFICES ASSUME Init PROVE Base0
  OBVIOUS
<1>1. /\ up = {}
      /\ rel = [r \in Rels |-> Absent]
      /\ conf = [r \in Rels |-> NoConf]
      /\ lock = [x \in Resources |-> NoProc]
      /\ newRel = [r \in Rels |-> Absent]
      /\ newConf = [r \in Rels |-> NoConf]
      /\ pc = [p \in Procs |-> "off"]
      /\ version = [p \in Procs |-> NoProc]
      /\ todo = [p \in Procs |-> {}]
      /\ cur = [p \in Procs |-> NoProc]
      /\ seen = [p \in Procs |-> [idxs |-> <<>>, conf |-> NoConf, cols |-> <<>>]]
      /\ result = [p \in Procs |-> "none"]
  BY DEF Init, None
<1>2. Shape
  BY <1>1 DEF Shape, PCs
<1>3. Relations
  BY <1>1, AbsentIsRelation DEF Relations, KindFits
<1>4. Located
  BY <1>1 DEF Located
<1>5. Holding
  BY <1>1, ConstantsAssumption DEF Holding
<1>6. Kept
  BY <1>1, ResourcesAre DEF Kept
<1> QED
  BY <1>2, <1>3, <1>4, <1>5, <1>6 DEF Base0

LEMMA NextKeepsBase ==
  ASSUME Base0, [Next]_vars
  PROVE  Base0'
<1>1. CASE UNCHANGED vars
  <2>1. /\ UNCHANGED <<up, rel, conf, lock, newRel, newConf>>
        /\ UNCHANGED <<pc, version, todo, cur, seen, result>>
    BY <1>1 DEF vars, dbVars, txVars, procVars
  <2>2. Shape' /\ Relations' /\ Located' /\ Holding' /\ Kept'
    BY <2>1 DEF Base0, Shape, Relations, Located, Holding, Kept
  <2> QED
    BY <2>2 DEF Base0
<1>2. ASSUME NEW p \in Procs, \E v \in Versions : Start(p, v)
      PROVE  Base0'
  BY <1>2, MovesKeepBase
<1>3. ASSUME NEW p \in Procs, Step(p)
      PROVE  Base0'
  <2>1. CASE \/ EnsureModelSchema(p)
             \/ ReadIndexes(p) \/ LoadConfig(p) \/ ReadColumns(p)
             \/ EnsureMigrations(p) \/ AfterMigrate(p)
    BY <2>1, MovesKeepBase
  <2>2. CASE WaitForSchema(p)
    BY <2>2, WaitStep DEF WaitForSchema, PCs, Onces
  <2>3. CASE WaitForMigrations(p)
    BY <2>3, WaitStep DEF WaitForMigrations, PCs, Onces
  <2>4. CASE CreateModel(p) \/ DropView(p)
    BY <2>4, ViewStep
  <2>5. CASE AlterTable(p)
    BY <2>5, AlterStep
  <2>6. CASE SaveConfig(p)
    BY <2>6, SaveStep
  <2>7. CASE Commit(p)
    BY <2>7, CommitStep
  <2>8. CASE DeadlockVictim(p)
    BY <2>8, AbortStep DEF DeadlockVictim
  <2> QED
    BY <1>3, <2>1, <2>2, <2>3, <2>4, <2>5, <2>6, <2>7, <2>8 DEF Step
<1>4. ASSUME NEW p \in Procs, Fail(p)
      PROVE  Base0'
  BY <1>4, AbortStep DEF Fail
<1>5. ASSUME NEW r \in Rels, InsertRows(r)
      PROVE  Base0'
  BY <1>5, InsertedIs, OutsideStep
<1>6. ASSUME NEW r \in Rels, NEW i \in ManualIndexes, ManualIndex(r, i)
      PROVE  Base0'
  BY <1>6, IndexedIs, OutsideStep
<1> QED
  BY <1>1, <1>2, <1>3, <1>4, <1>5, <1>6 DEF Next

LEMMA BaseHolds ==
  Spec => []Base0
<1>1. Init => Base0
  BY InitBase
<1>2. Base0 /\ [Next]_vars => Base0'
  BY NextKeepsBase
<1> QED
  BY <1>1, <1>2, PTL DEF Spec

\* The steps that change a committed relation.
LEMMA RelationSteps ==
  ASSUME [Next]_vars
  PROVE  \/ rel' = rel
         \/ \E p \in Procs : Commit(p)
         \/ \E r \in Rels : InsertRows(r) \/ \E i \in ManualIndexes : ManualIndex(r, i)
<1>1. CASE UNCHANGED vars
  BY <1>1 DEF vars, dbVars
<1>2. ASSUME NEW p \in Procs, (\E v \in Versions : Start(p, v)) \/ Fail(p)
      PROVE  rel' = rel
  BY <1>2 DEF Start, Fail, Abort, dbVars
<1>3. ASSUME NEW p \in Procs, Step(p), ~Commit(p)
      PROVE  rel' = rel
  <2>1. CASE EnsureModelSchema(p) \/ ReadIndexes(p) \/ LoadConfig(p) \/ ReadColumns(p)
    BY <2>1 DEF EnsureModelSchema, ReadIndexes, LoadConfig, ReadColumns, dbVars
  <2>2. CASE EnsureMigrations(p) \/ AfterMigrate(p) \/ SaveConfig(p)
    BY <2>2 DEF EnsureMigrations, AfterMigrate, SaveConfig, dbVars
  <2>3. CASE WaitForSchema(p) \/ WaitForMigrations(p)
    BY <2>3 DEF WaitForSchema, WaitForMigrations, EnsureAfterWait, Abort, dbVars
  <2>4. CASE CreateModel(p) \/ DropView(p)
    BY <2>4 DEF CreateModel, DropView, Change, Abort, dbVars
  <2>5. CASE AlterTable(p)
    BY <2>5 DEF AlterTable, Change, Abort, dbVars
  <2>6. CASE DeadlockVictim(p)
    BY <2>6 DEF DeadlockVictim, Abort, dbVars
  <2> QED
    BY <1>3, <2>1, <2>2, <2>3, <2>4, <2>5, <2>6 DEF Step
<1> QED
  BY <1>1, <1>2, <1>3 DEF Next

\* Whatever the models are, whatever migrates at once and whatever fails, no
\* table, no column and no table's rows are lost.
THEOREM NothingIsLostHolds ==
  Spec => NothingIsLost
<1> DEFINE Lossless ==
      \A r \in Rels :
        rel[r] # Absent /\ rel[r].kind = "table" =>
            /\ rel'[r] # Absent /\ rel'[r].kind = "table"
            /\ DOMAIN rel[r].cols \subseteq DOMAIN rel'[r].cols
            /\ rel[r].rows => rel'[r].rows
<1>1. ASSUME Base0, [Next]_vars
      PROVE  Lossless
  <2> SUFFICES ASSUME NEW r \in Rels, rel[r].kind = "table"
               PROVE  /\ rel'[r] # Absent /\ rel'[r].kind = "table"
                      /\ DOMAIN rel[r].cols \subseteq DOMAIN rel'[r].cols
                      /\ rel[r].rows => rel'[r].rows
    OBVIOUS
  <2>1. ASSUME NEW x, x.kind = "table" PROVE x # Absent
    BY <2>1 DEF Absent
  <2>2. CASE rel' = rel
    BY <2>1, <2>2
  <2>3. ASSUME NEW p \in Procs, Commit(p)
        PROVE  Keeps(rel[r], rel'[r])
    BY <1>1, <2>3, SeenIs DEF Commit
  <2>4. ASSUME NEW q \in Rels, InsertRows(q) \/ \E i \in ManualIndexes : ManualIndex(q, i)
        PROVE  rel'[r] = rel[r] \/ Outside(r)
    <3>1. Outside(q)
      BY <1>1, <2>4, InsertedIs, IndexedIs
    <3> QED
      BY <3>1 DEF Outside
  <2> QED
    BY <1>1, <2>1, <2>2, <2>3, <2>4, RelationSteps DEF Keeps, Outside
<1>2. Spec => []Base0
  BY BaseHolds
<1>3. Base0 /\ [Next]_vars => [Lossless]_vars
  BY <1>1
<1> QED
  BY <1>2, <1>3, PTL DEF Spec, NothingIsLost

-----------------------------------------------------------------------------
(* One version at a time: what makes ConfigTrue inductive.                 *)

SameVersion ==
    \A p, q \in Procs : pc[p] # "off" /\ pc[q] # "off" => version[p] = version[q]

\* Every column of a table is that of some release, but for its type and
\* nullability, and the table has all the columns of the primary key.
ColumnsKnown(x, r) ==
    x.kind = "table" =>
        /\ \A c \in DOMAIN x.cols :
              /\ IsColumn(x.cols[c])
              /\ \E v \in Versions :
                    /\ IsTable(v, r)
                    /\ c \in DOMAIN Models[v][r].cols
                    /\ x.cols[c].default = Stored(Models[v][r].cols[c]).default
                    /\ x.cols[c].pk = Models[v][r].cols[c].pk
        /\ \A v \in Versions : IsTable(v, r) =>
              \A c \in DOMAIN Models[v][r].cols :
                  Models[v][r].cols[c].pk => c \in DOMAIN x.cols

AllColumnsKnown == \A r \in Rels : ColumnsKnown(rel[r], r) /\ ColumnsKnown(newRel[r], r)

\* Table x has the columns of model m.
Has(x, m) == x # Absent /\ (x.kind = "table" => HasColumns(x, m))

ConfKnown ==
    \A r \in Rels : conf[r] # NoConf =>
        /\ \E v \in Versions : r \in DOMAIN Models[v] /\ conf[r] = Models[v][r]
        /\ Has(rel[r], conf[r])

\* A column of x is in y as it was, or as version v has it.
Moved(x, y, v, r) ==
    \A c \in DOMAIN x.cols :
        /\ c \in DOMAIN y.cols
        /\ \/ y.cols[c] = x.cols[c]
           \/ /\ IsTable(v, r)
              /\ c \in DOMAIN Models[v][r].cols
              /\ y.cols[c] = Stored(Models[v][r].cols[c])

\* What a transaction has not saved in _config it has not changed, except the
\* relation that it deals with.
Untouched(p) ==
    \A r \in Rels : lock[<<"rel", r>>] = p =>
        /\ \/ newRel[r] = rel[r]
           \/ lock[<<"conf", r>>] = p
           \/ cur[p] = r /\ pc[p] \in {"create", "save"}
        /\ newRel[r] = Absent => cur[p] = r /\ pc[p] = "create"
        /\ rel[r].kind = "table" => Moved(rel[r], newRel[r], version[p], r)

\* The models of its version that a migrator has dealt with.
Done(p) == DOMAIN Models[version[p]] \ (todo[p] \cup
              IF pc[p] \in {"waitSchema", "indexes", "load", "columns", "create", "alter"}
              THEN {cur[p]} ELSE {})

Reached(p) ==
    pc[p] # "off" => \A r \in Done(p) : Has(RelSeen(p, r), Models[version[p]][r])

Saved(p) ==
    \A r \in Rels : lock[<<"conf", r>>] = p =>
        r \in Done(p) /\ newConf[r] = Models[version[p]][r]

\* What was read of a relation was true once, and what changed since then has
\* become what the migrator wants.
ConfReadOnce(p) ==
    pc[p] \in {"columns", "alter"} =>
        LET r == cur[p]
            last == seen[p].conf
            v == version[p]
        IN  /\ \E w \in Versions : r \in DOMAIN Models[w] /\ last = Models[w][r]
            /\ rel[r] # Absent
            /\ IsTable(v, r) => \A c \in DOMAIN last.cols :
                  /\ c \in DOMAIN rel[r].cols
                  /\ \/ rel[r].cols[c] = Stored(last.cols[c])
                     \/ /\ c \in DOMAIN Models[v][r].cols
                        /\ rel[r].cols[c] = Stored(Models[v][r].cols[c])

ColumnsReadOnce(p) ==
    pc[p] = "alter" /\ IsTable(version[p], cur[p]) =>
        LET r == cur[p]
        IN  \A c \in DOMAIN seen[p].cols :
                /\ c \in DOMAIN rel[r].cols
                /\ \/ /\ seen[p].cols[c].type = rel[r].cols[c].type
                      /\ seen[p].cols[c].notnull = rel[r].cols[c].notnull
                   \/ /\ c \in DOMAIN Models[version[p]][r].cols
                      /\ rel[r].cols[c] = Stored(Models[version[p]][r].cols[c])

Informed(p) ==
    Untouched(p) /\ Reached(p) /\ Saved(p) /\ ConfReadOnce(p) /\ ColumnsReadOnce(p)

Truth ==
    /\ SameVersion /\ AllColumnsKnown /\ ConfKnown
    /\ \A p \in Procs : Informed(p)

\* The releases agree, and no two versions migrate at once.
Orderly == ~Rolling /\ ReleasesAgree

\* A step of others leaves q where it is and what its transaction changed.
Steady(q) ==
    /\ pc'[q] = pc[q] /\ version'[q] = version[q] /\ todo'[q] = todo[q]
    /\ cur'[q] = cur[q] /\ seen'[q] = seen[q]
    /\ \A r \in Rels :
        /\ lock'[<<"rel", r>>] = q <=> lock[<<"rel", r>>] = q
        /\ lock'[<<"conf", r>>] = q <=> lock[<<"conf", r>>] = q
        /\ lock[<<"rel", r>>] = q => newRel'[r] = newRel[r] /\ rel'[r] = rel[r]
        /\ lock[<<"conf", r>>] = q => newConf'[r] = newConf[r]

\* Relations go where version v wants them.
Evolves(x, y, v, r) ==
    /\ x # Absent => y # Absent
    /\ x.kind = "table" => Moved(x, y, v, r)

LEMMA MovedTwice ==
  ASSUME NEW x, NEW y, NEW v, NEW r, NEW m, Moved(x, y, v, r), IsTable(v, r),
         m = Models[v][r]
  PROVE  HasColumns(x, m) => HasColumns(y, m)
  BY DEF Moved, HasColumns

LEMMA KindsAgree ==
  ASSUME Base0, ReleasesAgree, NEW x, NEW r \in Rels, NEW v \in Versions,
         r \in DOMAIN Models[v], KindFits(x, r), x # Absent
  PROVE  x.kind = "table" <=> IsTable(v, r)
  BY DEF KindFits, ReleasesAgree, IsTable

LEMMA Bystander ==
  ASSUME Base0, Base0', Orderly, NEW q \in Procs, Informed(q), Steady(q),
         \A r \in Rels : rel'[r] # rel[r] =>
            \/ pc[q] = "off"
            \/ Evolves(rel[r], rel'[r], version[q], r)
  PROVE  Informed(q)'
<1>1. CASE pc[q] = "off"
  <2>1. \A x \in Resources : lock'[x] # q
    BY <1>1 DEF Base0, Holding, Steady
  <2>2. Untouched(q)' /\ Saved(q)'
    BY <2>1, ResourcesAre DEF Untouched, Saved
  <2>3. Reached(q)' /\ ConfReadOnce(q)' /\ ColumnsReadOnce(q)'
    BY <1>1 DEF Steady, Reached, ConfReadOnce, ColumnsReadOnce
  <2> QED
    BY <2>2, <2>3 DEF Informed
<1>2. CASE pc[q] # "off"
  <2>1. \A r \in Rels : Evolves(rel[r], rel'[r], version[q], r)
    BY <1>2 DEF Evolves, Moved
  <2>2. Done(q)' = Done(q)
    BY DEF Done, Steady
  <2>3. Untouched(q)' /\ Saved(q)'
    <3>1. Untouched(q)'
      BY DEF Untouched, Steady, Informed
    <3>2. Saved(q)'
      BY <2>2 DEF Saved, Steady, Informed
    <3> QED
      BY <3>1, <3>2
  <2>4. Reached(q)'
    <3> SUFFICES ASSUME NEW r \in Done(q)
                 PROVE  Has(RelSeen(q, r)', Models[version[q]][r])
      BY <1>2, <2>2 DEF Reached, Steady
    <3> DEFINE m == Models[version[q]][r]
    <3>1. version[q] \in Versions /\ r \in DOMAIN Models[version[q]] /\ r \in Rels
      BY <1>2, ModelsAssumption DEF Done, Base0, Located
    <3>2. Has(RelSeen(q, r), m)
      BY <1>2 DEF Reached, Informed
    <3>3. CASE lock[<<"rel", r>>] = q
      <4>1. RelSeen(q, r)' = RelSeen(q, r)
        BY <3>1, <3>3 DEF RelSeen, Steady
      <4> QED
        BY <3>2, <4>1
    <3>4. CASE lock[<<"rel", r>>] # q
      <4>1. RelSeen(q, r)' = rel'[r] /\ RelSeen(q, r) = rel[r]
        BY <3>1, <3>4 DEF RelSeen, Steady
      <4>2. rel'[r] # Absent
        BY <2>1, <3>1, <3>2, <4>1 DEF Evolves, Has
      <4>3. ASSUME rel'[r].kind = "table"
            PROVE  HasColumns(rel'[r], m)
        <5>1. KindFits(rel[r], r) /\ KindFits(rel'[r], r)
          BY <3>1 DEF Base0, Relations
        <5>2. IsTable(version[q], r)
          BY <3>1, <4>2, <4>3, <5>1, KindsAgree DEF Orderly
        <5>3. rel[r].kind = "table"
          BY <3>1, <3>2, <4>1, <5>1, <5>2, KindsAgree DEF Orderly, Has
        <5> QED
          BY <2>1, <3>1, <3>2, <4>1, <5>2, <5>3, MovedTwice DEF Evolves, Has
      <4> QED
        BY <4>1, <4>2, <4>3 DEF Has
    <3> QED
      BY <3>3, <3>4
  <2>5. ASSUME pc[q] \in {"columns", "alter"}
        PROVE  /\ cur[q] \in Rels /\ version[q] \in Versions
               /\ cur[q] \in DOMAIN Models[version[q]]
               /\ rel[cur[q]] # Absent
               /\ IsTable(version[q], cur[q]) =>
                    Moved(rel[cur[q]], rel'[cur[q]], version[q], cur[q])
    <3>1. cur[q] \in Rels /\ version[q] \in Versions /\ cur[q] \in DOMAIN Models[version[q]]
      BY <1>2, <2>5, ModelsAssumption DEF Base0, Located
    <3>2. rel[cur[q]] # Absent
      BY <2>5 DEF Informed, ConfReadOnce
    <3>3. KindFits(rel[cur[q]], cur[q])
      BY <3>1 DEF Base0, Relations
    <3>4. IsTable(version[q], cur[q]) => rel[cur[q]].kind = "table"
      BY <3>1, <3>2, <3>3, KindsAgree DEF Orderly
    <3> QED
      BY <2>1, <3>1, <3>2, <3>4 DEF Evolves
  <2>6. ConfReadOnce(q)'
    <3> SUFFICES ASSUME pc[q] \in {"columns", "alter"}
                 PROVE  ConfReadOnce(q)'
      BY DEF ConfReadOnce, Steady
    <3> DEFINE r == cur[q]
               last == seen[q].conf
               v == version[q]
    <3>1. /\ \E w \in Versions : r \in DOMAIN Models[w] /\ last = Models[w][r]
          /\ IsTable(v, r) => \A c \in DOMAIN last.cols :
                  /\ c \in DOMAIN rel[r].cols
                  /\ \/ rel[r].cols[c] = Stored(last.cols[c])
                     \/ /\ c \in DOMAIN Models[v][r].cols
                        /\ rel[r].cols[c] = Stored(Models[v][r].cols[c])
      BY DEF Informed, ConfReadOnce
    <3>2. IsTable(v, r) => \A c \in DOMAIN last.cols :
                  /\ c \in DOMAIN rel'[r].cols
                  /\ \/ rel'[r].cols[c] = Stored(last.cols[c])
                     \/ /\ c \in DOMAIN Models[v][r].cols
                        /\ rel'[r].cols[c] = Stored(Models[v][r].cols[c])
      BY <2>5, <3>1 DEF Moved
    <3>3. rel'[r] # Absent
      BY <2>1, <2>5 DEF Evolves
    <3> QED
      BY <3>1, <3>2, <3>3 DEF ConfReadOnce, Steady
  <2>7. ColumnsReadOnce(q)'
    <3> SUFFICES ASSUME pc[q] = "alter", IsTable(version[q], cur[q])
                 PROVE  ColumnsReadOnce(q)'
      BY DEF ColumnsReadOnce, Steady
    <3> DEFINE r == cur[q]
               info == seen[q].cols
               v == version[q]
    <3>1. \A c \in DOMAIN info :
                /\ c \in DOMAIN rel[r].cols
                /\ \/ /\ info[c].type = rel[r].cols[c].type
                      /\ info[c].notnull = rel[r].cols[c].notnull
                   \/ /\ c \in DOMAIN Models[v][r].cols
                      /\ rel[r].cols[c] = Stored(Models[v][r].cols[c])
      BY DEF Informed, ColumnsReadOnce
    <3>2. \A c \in DOMAIN info :
                /\ c \in DOMAIN rel'[r].cols
                /\ \/ /\ info[c].type = rel'[r].cols[c].type
                      /\ info[c].notnull = rel'[r].cols[c].notnull
                   \/ /\ c \in DOMAIN Models[v][r].cols
                      /\ rel'[r].cols[c] = Stored(Models[v][r].cols[c])
      BY <2>5, <3>1 DEF Moved
    <3> QED
      BY <3>2 DEF ColumnsReadOnce, Steady
  <2> QED
    BY <2>3, <2>4, <2>6, <2>7 DEF Informed
<1> QED
  BY <1>1, <1>2

LEMMA StoredIsColumn ==
  ASSUME NEW col
  PROVE  IsColumn(Stored(col))
<1>1. /\ Stored(col).type = UdtName(col.type)
      /\ Stored(col) = [type |-> Stored(col).type, default |-> Stored(col).default,
                        notnull |-> Stored(col).notnull, pk |-> Stored(col).pk]
  BY DEF Stored
<1> QED
  BY <1>1, TargetNameOfUdtName DEF IsColumn

LEMMA CreatedIsKnown ==
  ASSUME Orderly, NEW v \in Versions, NEW r \in DOMAIN Models[v]
  PROVE  /\ ColumnsKnown(NewRelation(Models[v][r]), r)
         /\ Has(NewRelation(Models[v][r]), Models[v][r])
<1> DEFINE m == Models[v][r]
           x == NewRelation(m)
<1>1. x # Absent /\ x.kind = m.kind
  BY NewRelationIs
<1>2. CASE x.kind = "table"
  <2>1. IsTable(v, r) /\ r \in Rels
    BY <1>1, <1>2, ModelsAssumption DEF IsTable
  <2>2. /\ DOMAIN x.cols = DOMAIN m.cols
        /\ \A c \in DOMAIN m.cols : x.cols[c] = Stored(m.cols[c])
    BY <1>1, <1>2 DEF NewRelation, NewTable
  <2> HIDE DEF x
  <2>3. ASSUME NEW c \in DOMAIN x.cols
        PROVE  /\ IsColumn(x.cols[c])
               /\ x.cols[c].default = Stored(m.cols[c]).default
               /\ x.cols[c].pk = m.cols[c].pk
    <3>1. x.cols[c] = Stored(m.cols[c])
      BY <2>2
    <3>2. Stored(m.cols[c]).pk = m.cols[c].pk
      BY DEF Stored
    <3> QED
      BY <3>1, <3>2, StoredIsColumn
  <2>4. \A w \in Versions : IsTable(w, r) =>
              \A c \in DOMAIN Models[w][r].cols :
                  Models[w][r].cols[c].pk => c \in DOMAIN x.cols
    BY <2>1, <2>2 DEF Orderly, ReleasesAgree, KeysStay
  <2>5. ColumnsKnown(x, r)
    BY <2>1, <2>2, <2>3, <2>4 DEF ColumnsKnown
  <2>6. Has(x, m)
    BY <1>1, <2>2 DEF Has, HasColumns
  <2> QED
    BY <2>5, <2>6 DEF x
<1>3. CASE x.kind # "table"
  BY <1>1, <1>3 DEF ColumnsKnown, Has
<1> QED
  BY <1>2, <1>3

\* Before a migrator changes a relation it sees what is committed.
LEMMA SeesCommitted ==
  ASSUME Base0, NEW p \in Procs, Informed(p),
         pc[p] \in {"waitSchema", "indexes", "load", "columns", "alter"}
  PROVE  /\ version[p] \in Versions /\ cur[p] \in Rels
         /\ cur[p] \in DOMAIN Models[version[p]]
         /\ Target(p) = Models[version[p]][cur[p]]
         /\ lock[<<"conf", cur[p]>>] # p
         /\ RelSeen(p, cur[p]) = rel[cur[p]]
         /\ ConfSeen(p, cur[p]) = conf[cur[p]]
<1>1. /\ version[p] \in Versions /\ cur[p] \in Rels
      /\ cur[p] \in DOMAIN Models[version[p]]
      /\ Target(p) = Models[version[p]][cur[p]]
  BY ModelsAssumption DEF Base0, Located, Target
<1>2. cur[p] \notin Done(p)
  BY DEF Done
<1>3. lock[<<"conf", cur[p]>>] # p
  BY <1>1, <1>2 DEF Informed, Saved
<1>4. RelSeen(p, cur[p]) = rel[cur[p]]
  BY <1>1, <1>3 DEF RelSeen, Informed, Untouched
<1> QED
  BY <1>1, <1>3, <1>4 DEF ConfSeen

\* A column that some release does not have is no key, and has one default.
LEMMA ForgottenKey ==
  ASSUME ReleasesAgree
  PROVE  \A u, w \in Versions : \A r \in Rels :
            IsTable(u, r) /\ IsTable(w, r) =>
            \A c \in DOMAIN Models[w][r].cols :
                c \notin DOMAIN Models[u][r].cols => ~Models[w][r].cols[c].pk
BY DEF ReleasesAgree, KeysStay

LEMMA ForgottenDefault ==
  ASSUME ReleasesAgree
  PROVE  \A u, v, w \in Versions : \A r \in Rels :
            IsTable(u, r) /\ IsTable(v, r) /\ IsTable(w, r) =>
            \A c \in DOMAIN Models[v][r].cols \cap DOMAIN Models[w][r].cols :
                c \notin DOMAIN Models[u][r].cols =>
                    Models[v][r].cols[c].default = Models[w][r].cols[c].default
BY DEF ReleasesAgree, DefaultsComeBack

\* What a migrator makes of a table, from what it has read.
LEMMA AlteredIsKnown ==
  ASSUME Base0, Orderly, Truth, NEW p \in Procs, pc[p] = "alter",
         Target(p).kind = "table",
         NEW r, r = cur[p], NEW to, to = Target(p), NEW last, last = seen[p].conf,
         NEW info, info = seen[p].cols,
         ~KeyChanges(last, to, info),
         Patch(last, to, info, seen[p].idxs).add \cap DOMAIN rel[r].cols = {}
  PROVE  LET y == Patched(rel[r], to, Patch(last, to, info, seen[p].idxs)) IN
         /\ rel[r].kind = "table"
         /\ HasColumns(y, to)
         /\ ColumnsKnown(y, r)
         /\ Moved(rel[r], y, version[p], r)
<1> DEFINE v == version[p]
           table == rel[r]
           patch == Patch(last, to, info, seen[p].idxs)
           y == Patched(table, to, patch)
<1>1. /\ v \in Versions /\ r \in Rels /\ r \in DOMAIN Models[v]
      /\ to = Models[v][r] /\ IsTable(v, r)
  BY SeesCommitted DEF Truth, IsTable
<1>2. PICK u \in Versions : r \in DOMAIN Models[u] /\ last = Models[u][r]
  BY DEF Truth, Informed, ConfReadOnce
<1>3. /\ rel[r] # Absent
      /\ \A c \in DOMAIN last.cols :
              /\ c \in DOMAIN table.cols
              /\ \/ table.cols[c] = Stored(last.cols[c])
                 \/ c \in DOMAIN to.cols /\ table.cols[c] = Stored(to.cols[c])
  BY <1>1 DEF Truth, Informed, ConfReadOnce
<1>4. \A c \in DOMAIN info :
             /\ c \in DOMAIN table.cols
             /\ \/ /\ info[c].type = table.cols[c].type
                   /\ info[c].notnull = table.cols[c].notnull
                \/ c \in DOMAIN to.cols /\ table.cols[c] = Stored(to.cols[c])
  BY <1>1 DEF Truth, Informed, ColumnsReadOnce
<1>5. table.kind = "table" /\ IsTable(u, r)
  <2>1. KindFits(rel[r], r)
    BY <1>1 DEF Base0, Relations
  <2> QED
    BY <1>1, <1>2, <1>3, <2>1, KindsAgree DEF Orderly
<1>6. ColumnsKnown(table, r)
  BY <1>1 DEF Truth, AllColumnsKnown
<1>7. \A w \in Versions : IsTable(w, r) =>
          \A c \in DOMAIN Models[w][r].cols : Models[w][r].cols[c].pk \in BOOLEAN
  BY ModelsAssumption DEF IsTable
<1>8. \A c \in DOMAIN to.cols : to.cols[c].pk => c \in DOMAIN table.cols
  BY <1>1, <1>5, <1>6 DEF ColumnsKnown
<1>9. ASSUME NEW c \in DOMAIN to.cols \cap DOMAIN table.cols, c \notin DOMAIN last.cols
      PROVE  /\ table.cols[c].default = Stored(to.cols[c]).default
             /\ table.cols[c].pk = to.cols[c].pk
             /\ IsColumn(table.cols[c])
  <2>1. PICK w \in Versions : /\ IsTable(w, r)
                              /\ c \in DOMAIN Models[w][r].cols
                              /\ table.cols[c].default = Stored(Models[w][r].cols[c]).default
                              /\ table.cols[c].pk = Models[w][r].cols[c].pk
    BY <1>5, <1>6 DEF ColumnsKnown
  <2>2. c \in DOMAIN Models[v][r].cols /\ c \notin DOMAIN Models[u][r].cols
    BY <1>1, <1>2, <1>9
  <2>3. /\ Models[w][r].cols[c].pk = FALSE /\ Models[v][r].cols[c].pk = FALSE
        /\ Models[w][r].cols[c].default = Models[v][r].cols[c].default
    <3>1. v \in Versions /\ r \in Rels /\ IsTable(u, r) /\ IsTable(v, r) /\ IsTable(w, r)
      BY <1>1, <1>5, <2>1
    <3>2. c \in DOMAIN Models[v][r].cols \cap DOMAIN Models[w][r].cols
      BY <2>1, <2>2
    <3> HIDE DEF v
    <3>3. ~Models[w][r].cols[c].pk /\ ~Models[v][r].cols[c].pk
      BY <2>2, <3>1, <3>2, ForgottenKey DEF Orderly
    <3>4. Models[w][r].cols[c].pk \in BOOLEAN /\ Models[v][r].cols[c].pk \in BOOLEAN
      BY <1>7, <2>2, <3>1, <3>2
    <3>5. Models[w][r].cols[c].default = Models[v][r].cols[c].default
      BY <2>2, <3>1, <3>2, ForgottenDefault DEF Orderly
    <3> QED
      BY <3>3, <3>4, <3>5
  <2>4. IsColumn(table.cols[c])
    BY <1>5, <1>6 DEF ColumnsKnown
  <2> QED
    BY <1>1, <2>1, <2>3, <2>4 DEF Stored
<1>10. \A c \in DOMAIN to.cols : to.cols[c].pk \in BOOLEAN
  BY <1>1, <1>7
<1>11. patch.add \cap DOMAIN table.cols = {}
  OBVIOUS
<1> HIDE DEF table
<1>12. HasColumns(y, to)
  BY <1>3, <1>4, <1>8, <1>9, <1>10, <1>11, StalePatchIsEnough
<1>13. LET cols == y.cols IN
      /\ y.kind = table.kind
      /\ DOMAIN cols = DOMAIN table.cols \cup patch.add
      /\ \A c \in DOMAIN table.cols \cup patch.add :
            cols[c] = IF c \in patch.add THEN Added(to.cols[c])
                      ELSE AlteredColumn(c, table, to, patch)
  BY DEF Patched
<1>14. /\ patch.add \subseteq DOMAIN to.cols
       /\ patch.types \subseteq DOMAIN to.cols
       /\ patch.nullable \subseteq DOMAIN to.cols
       /\ patch.defaults \subseteq DOMAIN to.cols
  BY DEF Patch, Common
<1> HIDE DEF patch, y
<1>15. ASSUME NEW c \in DOMAIN table.cols
       PROVE  /\ c \in DOMAIN y.cols
              /\ \/ y.cols[c] = table.cols[c]
                 \/ c \in DOMAIN to.cols /\ y.cols[c] = Stored(to.cols[c])
  <2>1. c \in DOMAIN y.cols
    BY <1>13
  <2>2. CASE c \in DOMAIN to.cols
    BY <1>12, <2>1, <2>2 DEF HasColumns
  <2>3. CASE c \notin DOMAIN to.cols
    <3>1. y.cols[c] = AlteredColumn(c, table, to, patch)
      BY <1>13, <1>14, <2>3
    <3>2. AlteredColumn(c, table, to, patch) =
            [type |-> table.cols[c].type, default |-> table.cols[c].default,
             notnull |-> table.cols[c].notnull, pk |-> table.cols[c].pk]
      BY <1>14, <2>3 DEF AlteredColumn
    <3>3. IsColumn(table.cols[c])
      BY <1>5, <1>6 DEF ColumnsKnown, table
    <3> QED
      BY <2>1, <3>1, <3>2, <3>3 DEF IsColumn
  <2> QED
    BY <2>2, <2>3
<1>16. Moved(table, y, v, r)
  BY <1>1, <1>15 DEF Moved
<1>17. ASSUME NEW c \in DOMAIN y.cols
       PROVE  /\ IsColumn(y.cols[c])
              /\ \E w \in Versions :
                    /\ IsTable(w, r)
                    /\ c \in DOMAIN Models[w][r].cols
                    /\ y.cols[c].default = Stored(Models[w][r].cols[c]).default
                    /\ y.cols[c].pk = Models[w][r].cols[c].pk
  <2>1. CASE c \in DOMAIN to.cols
    <3>1. y.cols[c] = Stored(to.cols[c])
      BY <1>12, <2>1 DEF HasColumns
    <3>2. y.cols[c].pk = to.cols[c].pk
      BY <3>1 DEF Stored
    <3> QED
      BY <1>1, <2>1, <3>1, <3>2, StoredIsColumn
  <2>2. CASE c \notin DOMAIN to.cols
    <3>1. c \in DOMAIN table.cols
      BY <1>13, <1>14, <2>2
    <3>2. y.cols[c] = table.cols[c]
      BY <1>15, <2>2, <3>1
    <3> QED
      BY <1>5, <1>6, <3>1, <3>2 DEF ColumnsKnown, table
  <2> QED
    BY <2>1, <2>2
<1>18. ColumnsKnown(y, r)
  <2>1. \A w \in Versions : IsTable(w, r) =>
              \A c \in DOMAIN Models[w][r].cols :
                  Models[w][r].cols[c].pk => c \in DOMAIN table.cols
    BY <1>5, <1>6 DEF ColumnsKnown, table
  <2> QED
    BY <1>15, <1>17, <2>1 DEF ColumnsKnown
<1> QED
  BY <1>5, <1>12, <1>16, <1>18 DEF y, patch, table

\* A step of p that changes no relation and no row.
LEMMA QuietKeepsTruth ==
  ASSUME Base0, Base0', Orderly, Truth, NEW p \in Procs, Quiet(p), Alone(p),
         pc[p] \notin {"create", "save"}, pc'[p] # "off", SameVersion',
         pc[p] # "off" => version'[p] = version[p] /\ Done(p) \subseteq Done(p)',
         \A r \in Done(p)' : \/ pc[p] # "off" /\ r \in Done(p)
                             \/ Has(RelSeen(p, r), Models[version'[p]][r]),
         ConfReadOnce(p)', ColumnsReadOnce(p)'
  PROVE  Truth'
<1>1. /\ UNCHANGED <<up, rel, conf, newRel, newConf>>
      /\ \A r \in Rels : /\ lock'[<<"rel", r>>] = lock[<<"rel", r>>]
                         /\ lock'[<<"conf", r>>] = lock[<<"conf", r>>]
  BY DEF Quiet, dbVars
<1>2. AllColumnsKnown' /\ ConfKnown'
  BY <1>1 DEF Truth, AllColumnsKnown, ConfKnown
<1>3. ASSUME NEW q \in Procs \ {p}
      PROVE  Informed(q)'
  <2>1. Steady(q)
    BY <1>1 DEF Alone, Steady
  <2> QED
    BY <1>1, <2>1, Bystander DEF Truth
<1>4. \A r \in Rels : /\ lock[<<"rel", r>>] = p => pc[p] # "off"
                      /\ lock[<<"conf", r>>] = p => pc[p] # "off"
  BY ResourcesAre DEF Base0, Holding
<1>5. Untouched(p)'
  BY <1>1, <1>4 DEF Truth, Informed, Untouched
<1>6. Saved(p)'
  BY <1>1, <1>4 DEF Truth, Informed, Saved
<1>7. Reached(p)'
  <2> SUFFICES ASSUME NEW r \in Done(p)'
               PROVE  Has(RelSeen(p, r)', Models[version'[p]][r])
    BY DEF Reached
  <2>0. r \in Rels
    <3>1. version'[p] \in Versions
      BY DEF Base0, Located
    <3> QED
      BY <3>1, ModelsAssumption DEF Done
  <2>1. RelSeen(p, r)' = RelSeen(p, r)
    BY <1>1, <2>0 DEF RelSeen
  <2> QED
    BY <2>1 DEF Truth, Informed, Reached
<1>8. Informed(p)'
  BY <1>5, <1>6, <1>7 DEF Informed
<1> QED
  BY <1>2, <1>3, <1>8 DEF Truth

\* A step of p that makes x of the relation it deals with.
LEMMA ChangeKeepsTruth ==
  ASSUME Base0, Base0', Orderly, Truth, NEW p \in Procs, NEW xs, NEW x,
         NEW l \in {"create", "save"}, Change(p, xs, x, l), pc[p] \in {"create", "alter"},
         xs \subseteq {<<"rel", r>> : r \in Rels},
         <<"rel", cur[p]>> \in xs, ColumnsKnown(x, cur[p]),
         x = Absent => l = "create",
         rel[cur[p]].kind = "table" => Moved(rel[cur[p]], x, version[p], cur[p]),
         l = "save" => Has(x, Target(p)),
         \A r \in Rels : <<"rel", r>> \in xs /\ r # cur[p] => RelSeen(p, r) # Absent
  PROVE  Truth'
<1>1. /\ lock' = [y \in Resources |-> IF y \in xs THEN p ELSE lock[y]]
      /\ newRel' = [r \in Rels |-> IF r = cur[p] THEN x
                                   ELSE IF <<"rel", r>> \in xs THEN RelSeen(p, r)
                                   ELSE newRel[r]]
      /\ pc' = [pc EXCEPT ![p] = l]
      /\ UNCHANGED <<up, rel, conf, newConf, version, todo, cur, seen, result>>
      /\ \A y \in xs : lock[y] \in {p, NoProc}
  BY DEF Change, Goto, dbVars, Free
<1>2. /\ p # NoProc
      /\ cur[p] \in Rels /\ version[p] \in Versions
      /\ cur[p] \in DOMAIN Models[version[p]] /\ cur[p] \notin todo[p]
      /\ Target(p) = Models[version[p]][cur[p]]
  BY ConstantsAssumption, ModelsAssumption DEF Base0, Located, Target
<1>3. /\ pc'[p] = l
      /\ \A q \in Procs \ {p} : pc'[q] = pc[q]
  BY <1>1 DEF Base0, Shape
<1>4. /\ \A r \in Rels : lock'[<<"rel", r>>] =
            IF <<"rel", r>> \in xs THEN p ELSE lock[<<"rel", r>>]
      /\ \A r \in Rels : lock'[<<"conf", r>>] = lock[<<"conf", r>>]
  BY <1>1, ResourcesAre
<1>5. SameVersion'
  BY <1>1, <1>3 DEF Truth, SameVersion
<1>6. AllColumnsKnown'
  BY <1>1, <1>2 DEF Truth, AllColumnsKnown, RelSeen
<1>7. ConfKnown'
  BY <1>1 DEF Truth, ConfKnown
<1>8. ASSUME NEW q \in Procs \ {p}
      PROVE  Informed(q)'
  <2>1. \A r \in Rels : lock[<<"rel", r>>] = q => <<"rel", r>> \notin xs
    BY <1>1, ConstantsAssumption
  <2>2. \A r \in Rels : lock[<<"rel", r>>] = q => newRel'[r] = newRel[r]
    BY <1>1, <1>2, <2>1
  <2>3. Steady(q)
    BY <1>1, <1>3, <1>4, <2>1, <2>2 DEF Steady
  <2> QED
    BY <1>1, <2>3, Bystander DEF Truth
<1>9. Untouched(p)'
  <2> SUFFICES ASSUME NEW r \in Rels, lock'[<<"rel", r>>] = p
               PROVE  /\ \/ newRel'[r] = rel[r]
                         \/ lock'[<<"conf", r>>] = p
                         \/ cur[p] = r
                      /\ newRel'[r] = Absent => cur[p] = r /\ l = "create"
                      /\ rel[r].kind = "table" => Moved(rel[r], newRel'[r], version[p], r)
    BY <1>1, <1>3 DEF Untouched
  <2>1. CASE r = cur[p]
    BY <1>1, <2>1
  <2>2. CASE r # cur[p] /\ lock[<<"rel", r>>] = p
    <3>1. newRel'[r] = newRel[r]
      BY <1>1, <2>2 DEF RelSeen
    <3> QED
      BY <1>4, <2>2, <3>1 DEF Truth, Informed, Untouched
  <2>3. CASE r # cur[p] /\ lock[<<"rel", r>>] # p
    <3>1. newRel'[r] = rel[r] /\ rel[r] # Absent
      BY <1>1, <1>4, <2>3 DEF RelSeen
    <3> QED
      BY <2>3, <3>1 DEF Moved
  <2> QED
    BY <2>1, <2>2, <2>3
<1>10. /\ Done(p) \subseteq Done(p)'
       /\ \A r \in Done(p)' : r \in Done(p) \/ (r = cur[p] /\ l = "save")
  <2>1. CASE l = "create"
    <3>1. Done(p)' = Done(p)
      BY <1>1, <1>3, <2>1 DEF Done
    <3> QED
      BY <3>1
  <2>2. CASE l = "save"
    <3>1. /\ Done(p) = DOMAIN Models[version[p]] \ (todo[p] \cup {cur[p]})
          /\ Done(p)' = DOMAIN Models[version[p]] \ todo[p]
      BY <1>1, <1>3, <2>2 DEF Done
    <3> QED
      BY <2>2, <3>1
  <2> QED
    BY <2>1, <2>2
<1>11. Saved(p)'
  BY <1>1, <1>4, <1>10 DEF Truth, Informed, Saved
<1>12. Reached(p)'
  <2> SUFFICES ASSUME NEW r \in Done(p)'
               PROVE  Has(RelSeen(p, r)', Models[version[p]][r])
    BY <1>1 DEF Reached
  <2>1. r \in Rels
    BY <1>1, <1>2, ModelsAssumption DEF Done
  <2>2. CASE r = cur[p]
    <3>1. RelSeen(p, r)' = x
      BY <1>1, <1>4, <2>1, <2>2 DEF RelSeen
    <3>2. l = "save"
      BY <1>1, <1>3, <2>2 DEF Done
    <3> QED
      BY <1>2, <2>2, <3>1, <3>2
  <2>3. CASE r # cur[p]
    <3>1. RelSeen(p, r)' = RelSeen(p, r)
      BY <1>1, <1>4, <2>1, <2>3 DEF RelSeen
    <3>2. r \in Done(p)
      BY <1>10, <2>3
    <3>3. pc[p] # "off"
      OBVIOUS
    <3> QED
      BY <3>1, <3>2, <3>3 DEF Truth, Informed, Reached
  <2> QED
    BY <2>2, <2>3
<1>13. ConfReadOnce(p)' /\ ColumnsReadOnce(p)'
  BY <1>3 DEF ConfReadOnce, ColumnsReadOnce
<1>14. Informed(p)'
  BY <1>9, <1>11, <1>12, <1>13 DEF Informed
<1> QED
  BY <1>5, <1>6, <1>7, <1>8, <1>14 DEF Truth

LEMMA SaveKeepsTruth ==
  ASSUME Base0, Base0', Orderly, Truth, NEW p \in Procs, SaveConfig(p)
  PROVE  Truth'
<1>1. /\ pc[p] = "save"
      /\ lock' = [lock EXCEPT ![<<"conf", cur[p]>>] = p]
      /\ newConf' = [newConf EXCEPT ![cur[p]] = Target(p)]
      /\ lock[<<"conf", cur[p]>>] \in {p, NoProc}
      /\ UNCHANGED <<up, rel, conf, newRel, version, todo, cur, seen, result>>
  BY DEF SaveConfig, dbVars, Free
<1>2. PICK l \in {"migrations", "commit", "next"} : pc' = [pc EXCEPT ![p] = l]
  BY DEF SaveConfig, Goto
<1>3. /\ p # NoProc
      /\ cur[p] \in Rels /\ version[p] \in Versions
      /\ cur[p] \in DOMAIN Models[version[p]] /\ cur[p] \notin todo[p]
      /\ Target(p) = Models[version[p]][cur[p]]
  BY <1>1, ConstantsAssumption, ModelsAssumption DEF Base0, Located, Target
<1>4. /\ pc'[p] = l
      /\ \A q \in Procs \ {p} : pc'[q] = pc[q]
  BY <1>2 DEF Base0, Shape
<1>5. /\ \A r \in Rels : lock'[<<"rel", r>>] = lock[<<"rel", r>>]
      /\ \A r \in Rels : lock'[<<"conf", r>>] = IF r = cur[p] THEN p ELSE lock[<<"conf", r>>]
      /\ \A r \in Rels : newConf'[r] = IF r = cur[p] THEN Target(p) ELSE newConf[r]
  <2>1. DOMAIN lock = Resources /\ DOMAIN newConf = Rels
    BY DEF Base0, Shape
  <2> QED
    BY <1>1, <1>3, <2>1, ResourcesAre
<1>6. SameVersion'
  BY <1>1, <1>4 DEF Truth, SameVersion
<1>7. AllColumnsKnown' /\ ConfKnown'
  BY <1>1 DEF Truth, AllColumnsKnown, ConfKnown
<1>8. ASSUME NEW q \in Procs \ {p}
      PROVE  Informed(q)'
  <2>1. \A r \in Rels : lock[<<"conf", r>>] = q => r # cur[p]
    BY <1>1, ConstantsAssumption
  <2>2. Steady(q)
    BY <1>1, <1>4, <1>5, <2>1 DEF Steady
  <2> QED
    BY <1>1, <2>2, Bystander DEF Truth
<1>9. Done(p)' = Done(p)
  BY <1>1, <1>4 DEF Done
<1>10. cur[p] \in Done(p)
  BY <1>1, <1>3 DEF Done
<1>11. Untouched(p)'
  BY <1>1, <1>4, <1>5 DEF Truth, Informed, Untouched
<1>12. Saved(p)'
  BY <1>1, <1>3, <1>5, <1>9, <1>10 DEF Truth, Informed, Saved
<1>13. Reached(p)'
  <2> SUFFICES ASSUME NEW r \in Done(p)
               PROVE  Has(RelSeen(p, r)', Models[version[p]][r])
    BY <1>1, <1>9 DEF Reached
  <2>1. r \in Rels
    BY <1>3, ModelsAssumption DEF Done
  <2>2. RelSeen(p, r)' = RelSeen(p, r)
    BY <1>1, <1>5, <2>1 DEF RelSeen
  <2> QED
    BY <1>1, <2>2 DEF Truth, Informed, Reached
<1>14. ConfReadOnce(p)' /\ ColumnsReadOnce(p)'
  BY <1>4 DEF ConfReadOnce, ColumnsReadOnce
<1>15. Informed(p)'
  BY <1>11, <1>12, <1>13, <1>14 DEF Informed
<1> QED
  BY <1>6, <1>7, <1>8, <1>15 DEF Truth

\* The end of a transaction, for the others.
LEMMA ReleaseIsSteady ==
  ASSUME Base0, NEW p \in Procs, Release(p), Alone(p),
         \A r \in Rels : rel'[r] # rel[r] => lock[<<"rel", r>>] = p,
         NEW q \in Procs \ {p}
  PROVE  Steady(q)
<1>1. /\ \A x \in Resources : lock'[x] = IF lock[x] = p THEN NoProc ELSE lock[x]
      /\ \A r \in Rels : newRel'[r] = IF lock[<<"rel", r>>] = p THEN Absent ELSE newRel[r]
      /\ \A r \in Rels : newConf'[r] = IF lock[<<"conf", r>>] = p THEN NoConf ELSE newConf[r]
  BY DEF Release
<1>2. q # NoProc
  BY ConstantsAssumption
<1> QED
  BY <1>1, <1>2, ResourcesAre DEF Steady, Alone

LEMMA AbortKeepsTruth ==
  ASSUME Base0, Base0', Orderly, Truth, NEW p \in Procs, Abort(p)
  PROVE  Truth'
<1>1. Release(p) /\ Finish(p, "err") /\ UNCHANGED <<up, rel, conf>>
  BY DEF Abort, dbVars
<1>2. Alone(p) /\ pc'[p] = "off"
  BY <1>1, FinishIs
<1>3. SameVersion'
  BY <1>2 DEF Truth, SameVersion, Alone
<1>4. ConfKnown'
  BY <1>1 DEF Truth, ConfKnown
<1>5. AllColumnsKnown'
  <2>1. \A r \in Rels : newRel'[r] = newRel[r] \/ newRel'[r] = Absent
    BY <1>1 DEF Release
  <2>2. \A r \in Rels : ColumnsKnown(Absent, r)
    BY DEF ColumnsKnown, Absent
  <2> QED
    BY <1>1, <2>1, <2>2 DEF Truth, AllColumnsKnown
<1>6. ASSUME NEW q \in Procs \ {p}
      PROVE  Informed(q)'
  BY <1>1, <1>2, ReleaseIsSteady, Bystander DEF Truth
<1>7. Informed(p)'
  <2>1. \A x \in Resources : lock'[x] # p
    BY <1>2 DEF Base0, Holding
  <2>2. Untouched(p)' /\ Saved(p)'
    BY <2>1, ResourcesAre DEF Untouched, Saved
  <2> QED
    BY <1>2, <2>2 DEF Informed, Reached, ConfReadOnce, ColumnsReadOnce
<1> QED
  BY <1>3, <1>4, <1>5, <1>6, <1>7 DEF Truth

LEMMA CommitKeepsTruth ==
  ASSUME Base0, Base0', Orderly, Truth, NEW p \in Procs, Commit(p)
  PROVE  Truth'
<1>1. /\ pc[p] = "commit"
      /\ rel' = [r \in Rels |-> RelSeen(p, r)]
      /\ conf' = [r \in Rels |-> ConfSeen(p, r)]
      /\ Release(p)
      /\ Finish(p, "ok") \/ Finish(p, "err")
  BY DEF Commit
<1>2. Alone(p) /\ pc'[p] = "off"
  BY <1>1, FinishIs
<1>3. SameVersion'
  BY <1>2 DEF Truth, SameVersion, Alone
<1>4. AllColumnsKnown'
  <2>1. \A r \in Rels : newRel'[r] = newRel[r] \/ newRel'[r] = Absent
    BY <1>1 DEF Release
  <2>2. \A r \in Rels : ColumnsKnown(Absent, r)
    BY DEF ColumnsKnown, Absent
  <2>3. \A r \in Rels : rel'[r] = newRel[r] \/ rel'[r] = rel[r]
    BY <1>1 DEF RelSeen
  <2> QED
    BY <2>1, <2>2, <2>3 DEF Truth, AllColumnsKnown
<1>5. version[p] \in Versions
  BY <1>1 DEF Base0, Located
<1>6. ASSUME NEW r \in Rels
      PROVE  \/ lock[<<"conf", r>>] = p
             \/ rel'[r] = rel[r]
  <2>1. rel'[r] = IF lock[<<"rel", r>>] = p THEN newRel[r] ELSE rel[r]
    BY <1>1 DEF RelSeen
  <2> QED
    BY <1>1, <2>1 DEF Truth, Informed, Untouched
<1>7. ConfKnown'
  <2> SUFFICES ASSUME NEW r \in Rels, conf'[r] # NoConf
               PROVE  /\ \E v \in Versions : r \in DOMAIN Models[v] /\ conf'[r] = Models[v][r]
                      /\ Has(rel'[r], conf'[r])
    BY DEF ConfKnown
  <2>1. conf'[r] = IF lock[<<"conf", r>>] = p THEN newConf[r] ELSE conf[r]
    BY <1>1 DEF ConfSeen
  <2>2. CASE lock[<<"conf", r>>] = p
    <3>1. r \in Done(p) /\ conf'[r] = Models[version[p]][r]
      BY <2>1, <2>2 DEF Truth, Informed, Saved
    <3>2. r \in DOMAIN Models[version[p]]
      BY <3>1 DEF Done
    <3>3. Has(RelSeen(p, r), Models[version[p]][r])
      BY <1>1, <3>1 DEF Truth, Informed, Reached
    <3> QED
      BY <1>1, <1>5, <3>1, <3>2, <3>3
  <2>3. CASE lock[<<"conf", r>>] # p
    BY <1>6, <2>1, <2>3 DEF Truth, ConfKnown
  <2> QED
    BY <2>2, <2>3
<1>8. ASSUME NEW q \in Procs \ {p}
      PROVE  Informed(q)'
  <2>1. \A r \in Rels : rel'[r] # rel[r] => lock[<<"rel", r>>] = p /\ rel'[r] = newRel[r]
    BY <1>1 DEF RelSeen
  <2>2. ASSUME NEW r \in Rels, rel'[r] # rel[r], pc[q] # "off"
        PROVE  Evolves(rel[r], rel'[r], version[q], r)
    <3>1. lock[<<"rel", r>>] = p /\ rel'[r] = newRel[r]
      BY <2>1, <2>2
    <3>2. newRel[r] # Absent /\ (rel[r].kind = "table" => Moved(rel[r], newRel[r], version[p], r))
      BY <1>1, <3>1 DEF Truth, Informed, Untouched
    <3>3. version[q] = version[p]
      BY <1>1, <2>2 DEF Truth, SameVersion
    <3> QED
      BY <3>1, <3>2, <3>3 DEF Evolves
  <2>3. Steady(q)
    BY <1>1, <1>2, <2>1, ReleaseIsSteady
  <2> QED
    BY <2>2, <2>3, Bystander DEF Truth
<1>9. Informed(p)'
  <2>1. \A x \in Resources : lock'[x] # p
    BY <1>2 DEF Base0, Holding
  <2>2. Untouched(p)' /\ Saved(p)'
    BY <2>1, ResourcesAre DEF Untouched, Saved
  <2> QED
    BY <1>2, <2>2 DEF Informed, Reached, ConfReadOnce, ColumnsReadOnce
<1> QED
  BY <1>3, <1>4, <1>7, <1>8, <1>9 DEF Truth

LEMMA OutsideKeepsTruth ==
  ASSUME Base0, Base0', Orderly, Truth, NEW r \in Rels, Outside(r),
         lock[<<"rel", r>>] = NoProc
  PROVE  Truth'
<1>1. /\ UNCHANGED <<up, conf, lock, newRel, newConf>>
      /\ UNCHANGED <<pc, version, todo, cur, seen, result>>
      /\ \A q \in Rels \ {r} : rel'[q] = rel[q]
      /\ rel[r].kind = "table" /\ rel'[r].kind = "table"
      /\ rel'[r].cols = rel[r].cols
  BY DEF txVars, procVars, Outside
<1>2. rel[r] # Absent /\ rel'[r] # Absent
  BY <1>1 DEF Absent
<1>3. SameVersion'
  BY <1>1 DEF Truth, SameVersion
<1>4. AllColumnsKnown'
  <2>1. ColumnsKnown(rel[r], r) => ColumnsKnown(rel'[r], r)
    BY <1>1 DEF ColumnsKnown
  <2> QED
    BY <1>1, <2>1 DEF Truth, AllColumnsKnown
<1>5. ConfKnown'
  <2>1. \A m : Has(rel[r], m) => Has(rel'[r], m)
    BY <1>1, <1>2 DEF Has, HasColumns
  <2> QED
    BY <1>1, <2>1 DEF Truth, ConfKnown
<1>6. ASSUME NEW p \in Procs
      PROVE  Informed(p)'
  <2>1. p # NoProc
    BY ConstantsAssumption
  <2>2. Steady(p)
    BY <1>1, <2>1 DEF Steady
  <2>3. \A q \in Rels : Evolves(rel[q], rel'[q], version[p], q)
    BY <1>1, <1>2 DEF Evolves, Moved
  <2> QED
    BY <2>2, <2>3, Bystander DEF Truth
<1> QED
  BY <1>3, <1>4, <1>5, <1>6 DEF Truth

\* The steps of a turn that only read, or ensure what is made once.
LEMMA MovesKeepTruth ==
  ASSUME Base0, Base0', Orderly, Truth, NEW p \in Procs, NEW l \in PCs \ {"off"},
         pc[p] \notin {"off", "create", "save"}, Goto(p, l), Quiet(p), version' = version,
         \A q \in Procs \ {p} : /\ todo'[q] = todo[q] /\ cur'[q] = cur[q]
                                /\ seen'[q] = seen[q],
         Done(p) \subseteq Done(p)',
         \A r \in Done(p)' : r \in Done(p) \/ Has(RelSeen(p, r), Models[version[p]][r]),
         ConfReadOnce(p)', ColumnsReadOnce(p)'
  PROVE  Truth'
<1>1. pc'[p] = l /\ \A q \in Procs \ {p} : pc'[q] = pc[q]
  BY DEF Goto, Base0, Shape
<1>2. Alone(p)
  BY <1>1 DEF Alone
<1>3. SameVersion'
  BY <1>1 DEF Truth, SameVersion
<1> QED
  BY <1>1, <1>2, <1>3, QuietKeepsTruth

LEMMA StartKeepsTruth ==
  ASSUME Base0, Base0', Orderly, Truth, NEW p \in Procs, NEW v \in Versions, Start(p, v)
  PROVE  Truth'
<1>1. /\ pc[p] = "off"
      /\ Rolling \/ \A q \in Procs : pc[q] # "off" => version[q] = v
      /\ version' = [version EXCEPT ![p] = v]
      /\ todo' = [todo EXCEPT ![p] = DOMAIN Models[v]]
      /\ pc' = [pc EXCEPT ![p] = "next"]
      /\ UNCHANGED <<up, rel, conf, lock, newRel, newConf, cur, seen>>
  BY DEF Start, Goto, dbVars, txVars
<1>2. Alone(p) /\ Quiet(p)
  BY <1>1 DEF Alone, Quiet, Base0, Shape, dbVars
<1>3. pc'[p] = "next" /\ version'[p] = v /\ todo'[p] = DOMAIN Models[v]
  BY <1>1 DEF Base0, Shape
<1>4. \A q \in Procs : pc'[q] # "off" => version'[q] = v
  BY <1>1, <1>2, <1>3 DEF Orderly, Alone
<1>5. SameVersion'
  BY <1>4 DEF SameVersion
<1>6. Done(p)' = {}
  BY <1>3 DEF Done
<1>7. ConfReadOnce(p)' /\ ColumnsReadOnce(p)'
  BY <1>3 DEF ConfReadOnce, ColumnsReadOnce
<1> QED
  BY <1>1, <1>2, <1>3, <1>5, <1>6, <1>7, QuietKeepsTruth

LEMMA EnsuringKeepsTruth ==
  ASSUME Base0, Base0', Orderly, Truth, NEW p \in Procs,
         \/ EnsureModelSchema(p) \/ WaitForSchema(p)
         \/ EnsureMigrations(p) \/ WaitForMigrations(p) \/ AfterMigrate(p)
  PROVE  Truth'
<1>1. CASE EnsureModelSchema(p)
  <2>1. PICK r \in todo[p] : /\ todo' = [todo EXCEPT ![p] = @ \ {r}]
                             /\ cur' = [cur EXCEPT ![p] = r]
    BY <1>1 DEF EnsureModelSchema
  <2>2. /\ pc[p] = "next"
        /\ Ensure(p, "schema", "waitSchema", "indexes")
        /\ UNCHANGED <<dbVars, newRel, newConf, version, seen, result>>
    BY <1>1 DEF EnsureModelSchema
  <2>3. Quiet(p) /\ \E l \in {"waitSchema", "indexes"} : Goto(p, l)
    BY <2>2, EnsureIs DEF PCs, Onces
  <2>4. PICK l \in {"waitSchema", "indexes"} : Goto(p, l)
    BY <2>3
  <2>5. pc'[p] = l /\ todo'[p] = todo[p] \ {r} /\ cur'[p] = r
    BY <2>1, <2>4 DEF Goto, Base0, Shape
  <2>6. \A q \in Procs \ {p} : todo'[q] = todo[q] /\ cur'[q] = cur[q] /\ seen'[q] = seen[q]
    BY <2>1, <2>2 DEF Base0, Shape
  <2>7. Done(p)' = Done(p)
    <3>1. Done(p) = DOMAIN Models[version[p]] \ todo[p]
      BY <2>2 DEF Done
    <3>2. Done(p)' = DOMAIN Models[version[p]] \ ((todo[p] \ {r}) \cup {r})
      BY <2>2, <2>5 DEF Done
    <3> QED
      BY <3>1, <3>2
  <2>8. ConfReadOnce(p)' /\ ColumnsReadOnce(p)'
    BY <2>5 DEF ConfReadOnce, ColumnsReadOnce
  <2> QED
    BY <2>2, <2>3, <2>4, <2>6, <2>7, <2>8, MovesKeepTruth DEF PCs
<1>2. ASSUME NEW o \in Onces, NEW l \in {"indexes", "hook"}, EnsureAfterWait(p, o, l),
             \/ pc[p] = "waitSchema" /\ l = "indexes"
             \/ pc[p] = "waitMigrations" /\ l = "hook"
      PROVE  Truth'
  <2>1. CASE Abort(p)
    BY <2>1, AbortKeepsTruth
  <2>2. CASE /\ lock' = [lock EXCEPT ![<<"once", o>>] = p]
             /\ Goto(p, l)
             /\ UNCHANGED <<dbVars, newRel, newConf, version, todo, cur, seen, result>>
    <3>1. Quiet(p)
      BY <2>2, ResourcesAre DEF Quiet, Base0, Shape
    <3>2. pc'[p] = l
      BY <2>2 DEF Goto, Base0, Shape
    <3>3. Done(p)' = Done(p)
      BY <1>2, <2>2, <3>2 DEF Done
    <3>4. ConfReadOnce(p)' /\ ColumnsReadOnce(p)'
      BY <3>2 DEF ConfReadOnce, ColumnsReadOnce
    <3>5. pc[p] \notin {"off", "create", "save"} /\ l \in PCs \ {"off"}
      BY <1>2 DEF PCs
    <3> QED
      BY <2>2, <3>1, <3>3, <3>4, <3>5, MovesKeepTruth
  <2> QED
    BY <1>2, <2>1, <2>2 DEF EnsureAfterWait
<1>3. CASE WaitForSchema(p) \/ WaitForMigrations(p)
  BY <1>2, <1>3 DEF WaitForSchema, WaitForMigrations, Onces
<1>4. CASE EnsureMigrations(p) \/ AfterMigrate(p)
  <2>1. PICK l \in {"waitMigrations", "hook", "commit", "next"} : Goto(p, l)
    BY <1>4 DEF EnsureMigrations, Ensure, AfterMigrate
  <2>2. /\ UNCHANGED <<dbVars, newRel, newConf, version, todo, cur, seen, result>>
        /\ pc[p] \in {"migrations", "hook"}
    BY <1>4 DEF EnsureMigrations, AfterMigrate, txVars
  <2>3. Quiet(p)
    <3>1. CASE EnsureMigrations(p)
      BY <2>2, <3>1, EnsureIs DEF EnsureMigrations, PCs, Onces
    <3>2. CASE AfterMigrate(p)
      BY <3>2 DEF AfterMigrate, Quiet, Base0, Shape, txVars
    <3> QED
      BY <1>4, <3>1, <3>2
  <2>4. pc'[p] = l
    BY <2>1 DEF Goto, Base0, Shape
  <2>5. Done(p)' = Done(p)
    BY <2>2, <2>4 DEF Done
  <2>6. ConfReadOnce(p)' /\ ColumnsReadOnce(p)'
    BY <2>4 DEF ConfReadOnce, ColumnsReadOnce
  <2>7. pc[p] \notin {"off", "create", "save"} /\ l \in PCs \ {"off"}
    BY <2>2 DEF PCs
  <2> QED
    BY <2>1, <2>2, <2>3, <2>5, <2>6, <2>7, MovesKeepTruth
<1> QED
  BY <1>1, <1>3, <1>4

\* What DBColumnsInfo knows of a table.
LEMMA ColumnsRead ==
  ASSUME NEW x, NEW c \in DOMAIN DBColumns(x)
  PROVE  /\ c \in DOMAIN x.cols
         /\ DBColumns(x)[c].type = x.cols[c].type
         /\ DBColumns(x)[c].notnull = x.cols[c].notnull
BY DEF DBColumns

LEMMA ReadingKeepsTruth ==
  ASSUME Base0, Base0', Orderly, Truth, NEW p \in Procs,
         ReadIndexes(p) \/ ReadColumns(p)
  PROVE  Truth'
<1>1. /\ UNCHANGED <<up, rel, conf, lock, newRel, newConf, version, todo, cur, result>>
      /\ pc[p] \in {"indexes", "columns"}
  BY DEF ReadIndexes, ReadColumns, dbVars, txVars
<1>2. /\ Quiet(p)
      /\ \A q \in Procs \ {p} : seen'[q] = seen[q]
  BY <1>1 DEF ReadIndexes, ReadColumns, Quiet, dbVars, Base0, Shape
<1>3. PICK l \in {"load", "alter"} : /\ Goto(p, l)
                                     /\ l = "load" <=> ReadIndexes(p)
  BY DEF ReadIndexes, ReadColumns
<1>4. pc'[p] = l
  BY <1>3 DEF Goto, Base0, Shape
<1>5. Done(p)' = Done(p)
  BY <1>1, <1>4 DEF Done
<1>6. ConfReadOnce(p)' /\ ColumnsReadOnce(p)'
  <2>1. CASE ReadIndexes(p)
    BY <1>3, <1>4, <2>1 DEF ConfReadOnce, ColumnsReadOnce
  <2>2. CASE ReadColumns(p)
    <3>1. seen' = [seen EXCEPT ![p].cols = DBColumns(RelSeen(p, cur[p]))] /\ pc[p] = "columns"
      BY <2>2 DEF ReadColumns
    <3>2. /\ seen'[p].conf = seen[p].conf
          /\ seen'[p].cols = DBColumns(RelSeen(p, cur[p]))
      BY <3>1, NotedColumns
    <3>3. RelSeen(p, cur[p]) = rel[cur[p]]
      BY <3>1, SeesCommitted DEF Truth
    <3>4. ConfReadOnce(p)'
      BY <1>1, <3>1, <3>2 DEF Truth, Informed, ConfReadOnce
    <3>5. ColumnsReadOnce(p)'
      <4>1. \A c \in DOMAIN seen'[p].cols :
                /\ c \in DOMAIN rel[cur[p]].cols
                /\ seen'[p].cols[c].type = rel[cur[p]].cols[c].type
                /\ seen'[p].cols[c].notnull = rel[cur[p]].cols[c].notnull
        <5>1. seen'[p].cols = DBColumns(rel[cur[p]])
          BY <3>2, <3>3
        <5> QED
          BY <5>1, ColumnsRead
      <4>2. rel'[cur'[p]] = rel[cur[p]]
        BY <1>1
      <4> QED
        BY <4>1, <4>2 DEF ColumnsReadOnce
    <3> QED
      BY <3>4, <3>5
  <2> QED
    BY <2>1, <2>2
<1>7. pc[p] \notin {"off", "create", "save"} /\ l \in PCs \ {"off"}
  BY <1>1 DEF PCs
<1> QED
  BY <1>1, <1>2, <1>3, <1>5, <1>6, <1>7, MovesKeepTruth

LEMMA LoadKeepsTruth ==
  ASSUME Base0, Base0', Orderly, Truth, NEW p \in Procs, LoadConfig(p)
  PROVE  Truth'
<1> DEFINE r == cur[p]
           last == conf[r]
           m == Models[version[p]][r]
<1>1. /\ UNCHANGED <<up, rel, conf, lock, newRel, newConf, version, todo, cur, result>>
      /\ pc[p] = "load"
      /\ seen' = [seen EXCEPT ![p].conf = ConfSeen(p, r)]
  BY DEF LoadConfig, dbVars, txVars
<1>2. /\ Quiet(p)
      /\ \A q \in Procs \ {p} : seen'[q] = seen[q]
  BY <1>1 DEF Quiet, dbVars, Base0, Shape
<1>3. /\ r \in Rels /\ version[p] \in Versions /\ r \in DOMAIN Models[version[p]]
      /\ Target(p) = m
      /\ RelSeen(p, r) = rel[r] /\ ConfSeen(p, r) = last
  BY <1>1, SeesCommitted DEF Truth
<1>4. PICK l \in {"create", "migrations", "columns", "alter"} :
        /\ Goto(p, l)
        /\ l # "create" => last # NoConf
        /\ l = "migrations" => ModelEqual(last, m)
        /\ l = "alter" => m.kind # "table"
  BY <1>3 DEF LoadConfig
<1>5. pc'[p] = l
  BY <1>4 DEF Goto, Base0, Shape
<1>6. l # "create" =>
        /\ \E w \in Versions : r \in DOMAIN Models[w] /\ last = Models[w][r]
        /\ Has(rel[r], last)
  BY <1>3, <1>4 DEF Truth, ConfKnown
<1>7. seen'[p].conf = last
  BY <1>1, <1>3, NotedConf
<1>8. ConfReadOnce(p)'
  <2> SUFFICES ASSUME l \in {"columns", "alter"}
               PROVE  ConfReadOnce(p)'
    BY <1>5 DEF ConfReadOnce
  <2>1. KindFits(rel[r], r) /\ rel[r] # Absent
    BY <1>3, <1>6 DEF Base0, Relations, Has
  <2>2. IsTable(version[p], r) => rel[r].kind = "table"
    BY <1>3, <2>1, KindsAgree DEF Orderly
  <2>3. IsTable(version[p], r) => HasColumns(rel[r], last)
    BY <1>6, <2>2 DEF Has
  <2> QED
    BY <1>1, <1>6, <1>7, <2>1, <2>3 DEF ConfReadOnce, HasColumns
<1>9. ColumnsReadOnce(p)'
  <2>1. l = "alter" => ~IsTable(version[p], r)
    BY <1>4 DEF IsTable
  <2> QED
    BY <1>1, <1>5, <2>1 DEF ColumnsReadOnce
<1>10. Done(p) = DOMAIN Models[version[p]] \ (todo[p] \cup {r})
  BY <1>1 DEF Done
<1>11. l # "migrations" => Done(p)' = Done(p)
  BY <1>1, <1>5 DEF Done
<1>12. l = "migrations" => Done(p)' = DOMAIN Models[version[p]] \ todo[p]
  BY <1>1, <1>5 DEF Done
<1>13. l = "migrations" => Has(RelSeen(p, r), m)
  BY <1>3, <1>4, <1>6 DEF ModelEqual, Has, HasColumns
<1>14. /\ Done(p) \subseteq Done(p)'
       /\ \A x \in Done(p)' : x \in Done(p) \/ Has(RelSeen(p, x), Models[version[p]][x])
  <2>1. CASE l # "migrations"
    BY <1>11, <2>1
  <2>2. CASE l = "migrations"
    BY <1>10, <1>12, <1>13, <2>2
  <2> QED
    BY <2>1, <2>2
<1>15. pc[p] \notin {"off", "create", "save"} /\ l \in PCs \ {"off"}
  BY <1>1 DEF PCs
<1> QED
  BY <1>1, <1>2, <1>4, <1>8, <1>9, <1>14, <1>15, MovesKeepTruth

LEMMA CreateKeepsTruth ==
  ASSUME Base0, Base0', Orderly, Truth, NEW p \in Procs, CreateModel(p) \/ DropView(p)
  PROVE  Truth'
<1> DEFINE r == cur[p]
           x == NewRelation(Target(p))
<1>1. /\ pc[p] \in {"create", "alter"}
      /\ version[p] \in Versions /\ r \in DOMAIN Models[version[p]]
      /\ r \in Rels /\ Target(p) = Models[version[p]][r]
  BY ModelsAssumption DEF CreateModel, DropView, Base0, Located, Target
<1>2. Target(p).kind # "table" => Target(p).query.from \in Rels
  BY <1>1, ModelsAssumption
<1>3. IsRelation(RelSeen(p, r)) /\ Keeps(rel[r], RelSeen(p, r))
  BY <1>1, SeenIs
<1>4. CASE Abort(p)
  BY <1>4, AbortKeepsTruth
<1>5. CASE /\ Creatable(RelSeen(p, r), Target(p))
           /\ Change(p, RelationAndBase(p), x, "save")
  <2>1. RelationAndBase(p) \subseteq {<<"rel", s>> : s \in Rels}
    BY <1>1, <1>2 DEF RelationAndBase, Relation, Base
  <2>2. <<"rel", r>> \in RelationAndBase(p)
    BY DEF RelationAndBase, Relation
  <2>3. /\ ColumnsKnown(x, r)
        /\ Has(x, Target(p))
        /\ x # Absent
    BY <1>1, CreatedIsKnown, NewRelationIs
  <2>4. rel[r].kind # "table"
    BY <1>3, <1>5, AbsentIsRelation DEF Creatable, Keeps
  <2>5. ASSUME NEW s \in Rels, <<"rel", s>> \in RelationAndBase(p), s # r
        PROVE  RelSeen(p, s) # Absent
    <3>1. Base(p) # Absent /\ s = Target(p).query.from
      BY <2>5, ResourcesAre DEF RelationAndBase, Relation
    <3>2. Base(p) = RelSeen(p, s)
      BY <3>1 DEF Base
    <3> QED
      BY <3>1, <3>2
  <2> QED
    BY <1>1, <1>5, <2>1, <2>2, <2>3, <2>4, <2>5, ChangeKeepsTruth
<1>6. CASE /\ ~DropViewFails(RelSeen(p, r))
           /\ Change(p, Relation(p), Absent, "create")
  <2>1. RelSeen(p, r).kind # "table"
    BY <1>6 DEF DropViewFails, Absent
  <2>2. rel[r].kind # "table"
    BY <1>3, <2>1 DEF Keeps
  <2>3. ColumnsKnown(Absent, r)
    BY DEF ColumnsKnown, Absent
  <2>4. /\ Relation(p) \subseteq {<<"rel", s>> : s \in Rels}
        /\ <<"rel", r>> \in Relation(p)
        /\ \A s \in Rels : <<"rel", s>> \in Relation(p) => s = r
    BY <1>1 DEF Relation
  <2> QED
    BY <1>1, <1>6, <2>2, <2>3, <2>4, ChangeKeepsTruth
<1>7. CASE CreateModel(p)
  BY <1>4, <1>5, <1>7 DEF CreateModel
<1>8. CASE DropView(p)
  BY <1>4, <1>6, <1>8 DEF DropView
<1> QED
  BY <1>7, <1>8

\* When SQLAlterTable finds nothing to do, there is nothing.
LEMMA NothingIsEnough ==
  ASSUME NEW table, NEW to, NEW patch, NothingToDo(patch),
         \A c \in DOMAIN table.cols : IsColumn(table.cols[c]),
         HasColumns(Patched(table, to, patch), to)
  PROVE  HasColumns(table, to)
<1>1. /\ patch.add = {} /\ patch.types = {}
      /\ patch.nullable = {} /\ patch.defaults = {}
  BY DEF NothingToDo, Altered
<1>2. LET cols == Patched(table, to, patch).cols IN
      /\ DOMAIN cols = DOMAIN table.cols
      /\ \A c \in DOMAIN table.cols : cols[c] = AlteredColumn(c, table, to, patch)
  BY <1>1 DEF Patched
<1>3. \A c \in DOMAIN table.cols :
        AlteredColumn(c, table, to, patch) =
            [type |-> table.cols[c].type, default |-> table.cols[c].default,
             notnull |-> table.cols[c].notnull, pk |-> table.cols[c].pk]
  BY <1>1 DEF AlteredColumn
<1> QED
  BY <1>2, <1>3 DEF HasColumns, IsColumn

LEMMA AlterKeepsTruth ==
  ASSUME Base0, Base0', Orderly, Truth, NEW p \in Procs, AlterTable(p)
  PROVE  Truth'
<1> DEFINE r == cur[p]
           to == Target(p)
           last == seen[p].conf
           info == seen[p].cols
           patch == Patch(last, to, info, seen[p].idxs)
           table == RelSeen(p, r)
           y == Patched(table, to, patch)
<1>1. pc[p] = "alter" /\ to.kind = "table"
  BY DEF AlterTable
<1>2. /\ version[p] \in Versions /\ r \in Rels
      /\ r \in DOMAIN Models[version[p]]
      /\ to = Models[version[p]][r]
      /\ table = rel[r]
  BY <1>1, SeesCommitted DEF Truth
<1>3. \/ Abort(p)
      \/ /\ ~KeyChanges(last, to, info)
         /\ NothingToDo(patch)
         /\ Goto(p, "save")
         /\ UNCHANGED <<dbVars, txVars, version, todo, cur, seen, result>>
      \/ /\ ~KeyChanges(last, to, info)
         /\ ~PatchFails(table, to, patch, Viewed(p, r))
         /\ Change(p, Relation(p), y, "save")
  BY DEF AlterTable
<1>4. CASE Abort(p)
  BY <1>4, AbortKeepsTruth
<1>5. ASSUME ~KeyChanges(last, to, info), patch.add \cap DOMAIN rel[r].cols = {}
      PROVE  /\ rel[r].kind = "table"
             /\ HasColumns(y, to)
             /\ ColumnsKnown(y, r)
             /\ Moved(rel[r], y, version[p], r)
  BY <1>1, <1>2, <1>5, AlteredIsKnown
<1>6. CASE /\ ~KeyChanges(last, to, info)
           /\ NothingToDo(patch)
           /\ Goto(p, "save")
           /\ UNCHANGED <<dbVars, txVars, version, todo, cur, seen, result>>
  <2>1. patch.add = {}
    BY <1>6 DEF NothingToDo
  <2>2. rel[r].kind = "table" /\ HasColumns(y, to)
    BY <1>5, <1>6, <2>1
  <2>3. \A c \in DOMAIN rel[r].cols : IsColumn(rel[r].cols[c])
    BY <1>2, <2>2 DEF Truth, AllColumnsKnown, ColumnsKnown
  <2>4. HasColumns(rel[r], to)
    BY <1>2, <1>6, <2>2, <2>3, NothingIsEnough
  <2>5. Has(RelSeen(p, r), Models[version[p]][r])
    BY <1>2, <2>2, <2>4 DEF Has, Absent
  <2>6. Quiet(p) /\ pc'[p] = "save"
    BY <1>6 DEF Quiet, Base0, Shape, txVars, Goto
  <2>7. /\ Done(p) = DOMAIN Models[version[p]] \ (todo[p] \cup {r})
        /\ Done(p)' = DOMAIN Models[version[p]] \ todo[p]
    BY <1>1, <1>6, <2>6 DEF Done
  <2>8. ConfReadOnce(p)' /\ ColumnsReadOnce(p)'
    BY <2>6 DEF ConfReadOnce, ColumnsReadOnce
  <2> QED
    BY <1>1, <1>6, <2>5, <2>6, <2>7, <2>8, MovesKeepTruth DEF PCs
<1>7. CASE /\ ~KeyChanges(last, to, info)
           /\ ~PatchFails(table, to, patch, Viewed(p, r))
           /\ Change(p, Relation(p), y, "save")
  <2>1. patch.add \cap DOMAIN rel[r].cols = {}
    BY <1>2, <1>7 DEF PatchFails
  <2>2. /\ rel[r].kind = "table"
        /\ HasColumns(y, to)
        /\ ColumnsKnown(y, r)
        /\ Moved(rel[r], y, version[p], r)
    BY <1>5, <1>7, <2>1
  <2>3. y.kind = "table"
    BY <1>2, <2>2 DEF Patched
  <2>4. y # Absent
    BY <2>3 DEF Absent
  <2>5. Has(y, to)
    BY <2>2, <2>4 DEF Has
  <2>6. /\ Relation(p) \subseteq {<<"rel", s>> : s \in Rels}
        /\ <<"rel", r>> \in Relation(p)
        /\ \A s \in Rels : <<"rel", s>> \in Relation(p) => s = r
    BY <1>2 DEF Relation
  <2> HIDE DEF y
  <2> QED
    BY <1>1, <1>7, <2>2, <2>4, <2>5, <2>6, ChangeKeepsTruth
<1> QED
  BY <1>3, <1>4, <1>6, <1>7

LEMMA InitTruth ==
  Init => Truth
<1> SUFFICES ASSUME Init PROVE Truth
  OBVIOUS
<1>1. /\ rel = [r \in Rels |-> Absent]
      /\ conf = [r \in Rels |-> NoConf]
      /\ lock = [x \in Resources |-> NoProc]
      /\ newRel = [r \in Rels |-> Absent]
      /\ pc = [p \in Procs |-> "off"]
  BY DEF Init
<1>2. SameVersion /\ ConfKnown
  BY <1>1 DEF SameVersion, ConfKnown
<1>3. AllColumnsKnown
  BY <1>1 DEF AllColumnsKnown, ColumnsKnown, Absent
<1>4. ASSUME NEW p \in Procs
      PROVE  Informed(p)
  <2>1. \A r \in Rels : lock[<<"rel", r>>] # p /\ lock[<<"conf", r>>] # p
    BY <1>1, ConstantsAssumption, ResourcesAre
  <2> QED
    BY <1>1, <2>1 DEF Informed, Untouched, Reached, Saved, ConfReadOnce, ColumnsReadOnce
<1> QED
  BY <1>2, <1>3, <1>4 DEF Truth

LEMMA NextKeepsTruth ==
  ASSUME Orderly, Base0, Truth, [Next]_vars
  PROVE  Truth'
<1>0. Base0'
  BY NextKeepsBase
<1>1. CASE UNCHANGED vars
  <2>1. /\ UNCHANGED <<up, rel, conf, lock, newRel, newConf>>
        /\ UNCHANGED <<pc, version, todo, cur, seen, result>>
    BY <1>1 DEF vars, dbVars, txVars, procVars
  <2>2. SameVersion' /\ AllColumnsKnown' /\ ConfKnown'
    BY <2>1 DEF Truth, SameVersion, AllColumnsKnown, ConfKnown
  <2>3. \A p \in Procs : Steady(p)
    BY <2>1 DEF Steady
  <2>4. \A p \in Procs : Informed(p)'
    BY <1>0, <2>1, <2>3, Bystander DEF Truth
  <2> QED
    BY <2>2, <2>4 DEF Truth
<1>2. ASSUME NEW p \in Procs, NEW v \in Versions, Start(p, v)
      PROVE  Truth'
  BY <1>0, <1>2, StartKeepsTruth
<1>3. ASSUME NEW p \in Procs, Step(p)
      PROVE  Truth'
  <2>1. CASE \/ EnsureModelSchema(p) \/ WaitForSchema(p)
             \/ EnsureMigrations(p) \/ WaitForMigrations(p) \/ AfterMigrate(p)
    BY <1>0, <2>1, EnsuringKeepsTruth
  <2>2. CASE ReadIndexes(p) \/ ReadColumns(p)
    BY <1>0, <2>2, ReadingKeepsTruth
  <2>3. CASE LoadConfig(p)
    BY <1>0, <2>3, LoadKeepsTruth
  <2>4. CASE CreateModel(p) \/ DropView(p)
    BY <1>0, <2>4, CreateKeepsTruth
  <2>5. CASE AlterTable(p)
    BY <1>0, <2>5, AlterKeepsTruth
  <2>6. CASE SaveConfig(p)
    BY <1>0, <2>6, SaveKeepsTruth
  <2>7. CASE Commit(p)
    BY <1>0, <2>7, CommitKeepsTruth
  <2>8. CASE DeadlockVictim(p)
    BY <1>0, <2>8, AbortKeepsTruth DEF DeadlockVictim
  <2> QED
    BY <1>3, <2>1, <2>2, <2>3, <2>4, <2>5, <2>6, <2>7, <2>8 DEF Step
<1>4. ASSUME NEW p \in Procs, Fail(p)
      PROVE  Truth'
  BY <1>0, <1>4, AbortKeepsTruth DEF Fail
<1>5. ASSUME NEW r \in Rels, InsertRows(r)
      PROVE  Truth'
  BY <1>0, <1>5, InsertedIs, OutsideKeepsTruth
<1>6. ASSUME NEW r \in Rels, NEW i \in ManualIndexes, ManualIndex(r, i)
      PROVE  Truth'
  BY <1>0, <1>6, IndexedIs, OutsideKeepsTruth
<1> QED
  BY <1>1, <1>2, <1>3, <1>4, <1>5, <1>6 DEF Next

LEMMA TruthHolds ==
  Orderly => (Spec => [](Base0 /\ Truth))
<1>1. Init => Base0 /\ Truth
  BY InitBase, InitTruth
<1>2. ASSUME Orderly, Base0 /\ Truth, [Next]_vars
      PROVE  (Base0 /\ Truth)'
  BY <1>2, NextKeepsBase, NextKeepsTruth
<1> SUFFICES ASSUME Orderly PROVE Spec => [](Base0 /\ Truth)
  OBVIOUS
<1>3. Base0 /\ Truth /\ [Next]_vars => (Base0 /\ Truth)'
  BY <1>2
<1> QED
  BY <1>1, <1>3, PTL DEF Spec

\* While one version migrates at a time and the releases agree on keys,
\* defaults and kinds, the rows of _config describe the database.
THEOREM ConfigTrueHolds ==
  Orderly => (Spec => []ConfigTrue)
<1>1. Truth => ConfigTrue
  BY DEF Truth, ConfKnown, Has, ConfigTrue
<1> SUFFICES ASSUME Orderly PROVE Spec => []ConfigTrue
  OBVIOUS
<1> QED
  BY <1>1, TruthHolds, PTL

\* Then no NULL is in a NOT NULL column, and no key has a default.
THEOREM TypesHold ==
  Orderly => (Spec => []TypeOK)
<1>1. ASSUME Base0, Truth PROVE TypeOK
  <2>1. ASSUME NEW r \in Rels, NEW x, IsRelation(x), ColumnsKnown(x, r)
        PROVE  RelationOK(x)
    <3> SUFFICES ASSUME x # Absent, NEW c \in DOMAIN x.cols, x.cols[c].pk
                 PROVE  x.cols[c].default = NoDefault
      BY <2>1 DEF RelationOK, IsRelation
    <3>1. CASE x.kind = "table"
      <4>1. PICK v \in Versions :
                    /\ x.cols[c].default = Stored(Models[v][r].cols[c]).default
                    /\ x.cols[c].pk = Models[v][r].cols[c].pk
        BY <2>1, <3>1 DEF ColumnsKnown
      <4> QED
        BY <4>1 DEF Stored
    <3>2. CASE x.kind # "table"
      BY <2>1, <3>2 DEF IsRelation
    <3> QED
      BY <3>1, <3>2
  <2>2. \A r \in Rels : RelationOK(rel[r]) /\ RelationOK(newRel[r])
    BY <1>1, <2>1 DEF Base0, Relations, Truth, AllColumnsKnown
  <2>3. \A p \in Procs : pc[p] # "off" => version[p] \in Versions
    BY <1>1 DEF Base0, Located
  <2> QED
    BY <1>1, <2>2, <2>3 DEF TypeOK, Base0, Shape
<1>2. Base0 /\ Truth => TypeOK
  BY <1>1
<1> SUFFICES ASSUME Orderly PROVE Spec => []TypeOK
  OBVIOUS
<1> QED
  BY <1>2, TruthHolds, PTL

-----------------------------------------------------------------------------
(* What makes StructureIsCurrent inductive.                                *)

\* A migrator has no result before it ends, and commits when all is done.
Unended ==
    \A p \in Procs : /\ pc[p] # "off" => result[p] = "none"
                     /\ pc[p] = "commit" => todo[p] = {}

\* What _config has of indexes, and of views, is in the database.
IndexesKnown ==
    \A r \in Rels : conf[r] # NoConf =>
        IF rel[r].kind = "table"
        THEN \A i \in DOMAIN conf[r].idxs :
                i \in DOMAIN rel[r].idxs /\ rel[r].idxs[i] = conf[r].idxs[i]
        ELSE rel[r].kind = conf[r].kind /\ rel[r].query = conf[r].query

Conforming(p) ==
    pc[p] # "off" => \A r \in Done(p) : Conforms(RelSeen(p, r), Models[version[p]][r])

\* The indexes that were read, and those of _config, are still there, or the
\* table has become what the migrator wants.
IndexesReadOnce(p) ==
    pc[p] \in {"load", "columns", "alter"} /\ IsTable(version[p], cur[p]) =>
        LET r == cur[p] IN
        \/ rel[r].idxs = Models[version[p]][r].idxs
        \/ /\ seen[p].idxs = DBIndexes(rel[r])
           /\ pc[p] # "load" => \A i \in DOMAIN seen[p].conf.idxs :
                i \in DOMAIN rel[r].idxs /\ rel[r].idxs[i] = seen[p].conf.idxs[i]

Current(p) == Conforming(p) /\ IndexesReadOnce(p)

Currency == IndexesKnown /\ \A p \in Procs : Current(p)

LEMMA NextKeepsUnended ==
  ASSUME Base0, Unended, [Next]_vars
  PROVE  Unended'
<1>0. /\ pc \in [Procs -> PCs] /\ result \in [Procs -> {"none", "ok", "err"}]
      /\ todo \in [Procs -> SUBSET Rels]
  BY DEF Base0, Shape
<1>1. CASE UNCHANGED vars
  BY <1>1 DEF vars, procVars, Unended
<1>2. ASSUME NEW p \in Procs, NEW r, Finish(p, r)
      PROVE  Unended'
  BY <1>0, <1>2 DEF Finish, Goto, Unended
<1>3. ASSUME NEW p \in Procs, Abort(p)
      PROVE  Unended'
  BY <1>2, <1>3 DEF Abort
<1>4. ASSUME NEW p \in Procs, NEW l, Goto(p, l), UNCHANGED <<todo, result>>,
             pc[p] # "off", l = "commit" => todo[p] = {}
      PROVE  Unended'
  BY <1>0, <1>4 DEF Goto, Unended
<1>5. ASSUME NEW p \in Procs, NEW v \in Versions, Start(p, v)
      PROVE  Unended'
  BY <1>0, <1>5 DEF Start, Goto, Unended
<1>6. ASSUME NEW p \in Procs, Step(p)
      PROVE  Unended'
  <2>1. CASE EnsureModelSchema(p)
    <3>1. PICK l \in {"waitSchema", "indexes"} : Goto(p, l)
      BY <2>1 DEF EnsureModelSchema, Ensure
    <3>2. PICK x : todo' = [todo EXCEPT ![p] = x]
      BY <2>1 DEF EnsureModelSchema
    <3>3. result' = result /\ pc[p] = "next"
      BY <2>1 DEF EnsureModelSchema
    <3> QED
      BY <1>0, <3>1, <3>2, <3>3 DEF Goto, Unended
  <2>2. CASE ReadIndexes(p) \/ ReadColumns(p) \/ LoadConfig(p)
    <3>1. PICK l \in {"load", "alter", "create", "migrations", "columns"} : Goto(p, l)
      BY <2>2 DEF ReadIndexes, ReadColumns, LoadConfig
    <3>2. UNCHANGED <<todo, result>> /\ pc[p] # "off"
      BY <2>2 DEF ReadIndexes, ReadColumns, LoadConfig
    <3> QED
      BY <1>4, <3>1, <3>2
  <2>3. CASE EnsureMigrations(p)
    <3>1. PICK l \in {"waitMigrations", "hook"} : Goto(p, l)
      BY <2>3 DEF EnsureMigrations, Ensure
    <3> QED
      BY <1>4, <2>3, <3>1 DEF EnsureMigrations
  <2>4. CASE AfterMigrate(p) \/ SaveConfig(p)
    <3>1. PICK l \in {"migrations", "commit", "next"} :
            Goto(p, l) /\ (l = "commit" => todo[p] = {})
      BY <2>4 DEF AfterMigrate, SaveConfig
    <3>2. UNCHANGED <<todo, result>> /\ pc[p] # "off"
      BY <2>4 DEF AfterMigrate, SaveConfig
    <3> QED
      BY <1>4, <3>1, <3>2
  <2>5. CASE WaitForSchema(p) \/ WaitForMigrations(p)
    <3>1. PICK l \in {"indexes", "hook"} :
            \/ Abort(p)
            \/ Goto(p, l) /\ UNCHANGED <<todo, result>>
      BY <2>5 DEF WaitForSchema, WaitForMigrations, EnsureAfterWait
    <3>2. pc[p] # "off"
      BY <2>5 DEF WaitForSchema, WaitForMigrations
    <3> QED
      BY <1>3, <1>4, <3>1, <3>2
  <2>6. CASE CreateModel(p) \/ DropView(p) \/ AlterTable(p)
    <3>1. PICK l \in {"create", "save"} :
            \/ Abort(p)
            \/ Goto(p, l) /\ UNCHANGED <<todo, result>>
      BY <2>6 DEF CreateModel, DropView, AlterTable, Change
    <3>2. pc[p] # "off"
      BY <2>6 DEF CreateModel, DropView, AlterTable
    <3> QED
      BY <1>3, <1>4, <3>1, <3>2
  <2>7. CASE Commit(p)
    BY <1>2, <2>7 DEF Commit
  <2>8. CASE DeadlockVictim(p)
    BY <1>3, <2>8 DEF DeadlockVictim
  <2> QED
    BY <1>6, <2>1, <2>2, <2>3, <2>4, <2>5, <2>6, <2>7, <2>8 DEF Step
<1>7. ASSUME NEW p \in Procs, Fail(p)
      PROVE  Unended'
  BY <1>3, <1>7 DEF Fail
<1>8. ASSUME NEW r \in Rels, InsertRows(r) \/ \E i \in ManualIndexes : ManualIndex(r, i)
      PROVE  Unended'
  BY <1>8 DEF InsertRows, ManualIndex, procVars, Unended
<1> QED
  BY <1>1, <1>5, <1>6, <1>7, <1>8 DEF Next

\* Two tables that differ in their rows only.
SameStructure(x, y) ==
    /\ x.kind = "table" /\ y.kind = "table"
    /\ x.cols = y.cols /\ x.idxs = y.idxs
    /\ x # Absent /\ y # Absent

LEMMA CurrentBystander ==
  ASSUME Base0, Base0', NEW q \in Procs, Current(q), Steady(q),
         \A r \in Rels : rel'[r] # rel[r] =>
            \/ pc[q] = "off"
            \/ SameStructure(rel[r], rel'[r])
            \/ Conforms(rel'[r], Models[version[q]][r])
  PROVE  Current(q)'
<1>1. CASE pc[q] = "off"
  BY <1>1 DEF Steady, Current, Conforming, IndexesReadOnce
<1>2. CASE pc[q] # "off"
  <2>1. Done(q)' = Done(q)
    BY DEF Done, Steady
  <2>2. Conforming(q)'
    <3> SUFFICES ASSUME NEW r \in Done(q)
                 PROVE  Conforms(RelSeen(q, r)', Models[version[q]][r])
      BY <1>2, <2>1 DEF Conforming, Steady
    <3>1. r \in Rels
      BY <1>2, ModelsAssumption DEF Done, Base0, Located
    <3>2. Conforms(RelSeen(q, r), Models[version[q]][r])
      BY <1>2 DEF Conforming, Current
    <3>3. CASE lock[<<"rel", r>>] = q
      <4>1. RelSeen(q, r)' = RelSeen(q, r)
        BY <3>1, <3>3 DEF RelSeen, Steady
      <4> QED
        BY <3>2, <4>1
    <3>4. CASE lock[<<"rel", r>>] # q
      <4>1. RelSeen(q, r)' = rel'[r] /\ RelSeen(q, r) = rel[r]
        BY <3>1, <3>4 DEF RelSeen, Steady
      <4>2. CASE rel'[r] = rel[r]
        BY <3>2, <4>1, <4>2
      <4>3. CASE SameStructure(rel[r], rel'[r])
        BY <3>2, <4>1, <4>3 DEF SameStructure, Conforms, HasColumns
      <4> QED
        BY <1>2, <3>1, <4>1, <4>2, <4>3
    <3> QED
      BY <3>3, <3>4
  <2>3. IndexesReadOnce(q)'
    <3> SUFFICES ASSUME pc[q] \in {"load", "columns", "alter"}, IsTable(version[q], cur[q])
                 PROVE  IndexesReadOnce(q)'
      BY DEF IndexesReadOnce, Steady
    <3> DEFINE r == cur[q]
               m == Models[version[q]][r]
    <3>1. r \in Rels
      BY <1>2, ModelsAssumption DEF Base0, Located
    <3>2. \/ rel[r].idxs = m.idxs
          \/ /\ seen[q].idxs = DBIndexes(rel[r])
             /\ pc[q] # "load" => \A i \in DOMAIN seen[q].conf.idxs :
                  i \in DOMAIN rel[r].idxs /\ rel[r].idxs[i] = seen[q].conf.idxs[i]
      BY DEF Current, IndexesReadOnce
    <3>3. rel'[r].idxs = rel[r].idxs \/ rel'[r].idxs = m.idxs
      BY <1>2, <3>1 DEF SameStructure, Conforms, IsTable
    <3>4. \/ rel'[r].idxs = m.idxs
          \/ /\ seen[q].idxs = DBIndexes(rel'[r])
             /\ pc[q] # "load" => \A i \in DOMAIN seen[q].conf.idxs :
                  i \in DOMAIN rel'[r].idxs /\ rel'[r].idxs[i] = seen[q].conf.idxs[i]
      BY <3>2, <3>3 DEF DBIndexes
    <3> QED
      BY <3>4 DEF IndexesReadOnce, Steady
  <2> QED
    BY <2>2, <2>3 DEF Current
<1> QED
  BY <1>1, <1>2

LEMMA QuietKeepsCurrency ==
  ASSUME Base0, Base0', Currency, NEW p \in Procs, Quiet(p), Alone(p), pc'[p] # "off",
         \A r \in Done(p)' : \/ pc[p] # "off" /\ r \in Done(p) /\ version'[p] = version[p]
                             \/ Conforms(RelSeen(p, r), Models[version'[p]][r]),
         IndexesReadOnce(p)'
  PROVE  Currency'
<1>1. /\ UNCHANGED <<up, rel, conf, newRel, newConf>>
      /\ \A r \in Rels : /\ lock'[<<"rel", r>>] = lock[<<"rel", r>>]
                         /\ lock'[<<"conf", r>>] = lock[<<"conf", r>>]
  BY DEF Quiet, dbVars
<1>2. IndexesKnown'
  BY <1>1 DEF Currency, IndexesKnown
<1>3. ASSUME NEW q \in Procs \ {p}
      PROVE  Current(q)'
  <2>1. Steady(q)
    BY <1>1 DEF Alone, Steady
  <2> QED
    BY <1>1, <2>1, CurrentBystander DEF Currency
<1>4. Conforming(p)'
  <2> SUFFICES ASSUME NEW r \in Done(p)'
               PROVE  Conforms(RelSeen(p, r)', Models[version'[p]][r])
    BY DEF Conforming
  <2>1. version'[p] \in Versions
    BY DEF Base0, Located
  <2>2. r \in Rels
    BY <2>1, ModelsAssumption DEF Done
  <2>3. RelSeen(p, r)' = RelSeen(p, r)
    BY <1>1, <2>2 DEF RelSeen
  <2> QED
    BY <2>3 DEF Currency, Current, Conforming
<1> QED
  BY <1>2, <1>3, <1>4 DEF Currency, Current

LEMMA ChangeKeepsCurrency ==
  ASSUME Base0, Base0', Currency, NEW p \in Procs, NEW xs, NEW x,
         NEW l \in {"create", "save"}, Change(p, xs, x, l), pc[p] \in {"create", "alter"},
         xs \subseteq {<<"rel", r>> : r \in Rels},
         <<"rel", cur[p]>> \in xs,
         l = "save" => Conforms(x, Target(p))
  PROVE  Currency'
<1>1. /\ lock' = [y \in Resources |-> IF y \in xs THEN p ELSE lock[y]]
      /\ newRel' = [r \in Rels |-> IF r = cur[p] THEN x
                                   ELSE IF <<"rel", r>> \in xs THEN RelSeen(p, r)
                                   ELSE newRel[r]]
      /\ pc' = [pc EXCEPT ![p] = l]
      /\ UNCHANGED <<up, rel, conf, newConf, version, todo, cur, seen, result>>
      /\ \A y \in xs : lock[y] \in {p, NoProc}
  BY DEF Change, Goto, dbVars, Free
<1>2. /\ p # NoProc
      /\ cur[p] \in Rels /\ version[p] \in Versions
      /\ Target(p) = Models[version[p]][cur[p]]
  BY ConstantsAssumption, ModelsAssumption DEF Base0, Located, Target
<1>3. /\ pc'[p] = l
      /\ \A q \in Procs \ {p} : pc'[q] = pc[q]
  BY <1>1 DEF Base0, Shape
<1>4. /\ \A r \in Rels : lock'[<<"rel", r>>] =
            IF <<"rel", r>> \in xs THEN p ELSE lock[<<"rel", r>>]
      /\ \A r \in Rels : lock'[<<"conf", r>>] = lock[<<"conf", r>>]
  BY <1>1, ResourcesAre
<1>5. IndexesKnown'
  BY <1>1 DEF Currency, IndexesKnown
<1>6. ASSUME NEW q \in Procs \ {p}
      PROVE  Current(q)'
  <2>1. \A r \in Rels : lock[<<"rel", r>>] = q => <<"rel", r>> \notin xs
    BY <1>1, ConstantsAssumption
  <2>2. \A r \in Rels : lock[<<"rel", r>>] = q => newRel'[r] = newRel[r]
    BY <1>1, <1>2, <2>1
  <2>3. Steady(q)
    BY <1>1, <1>3, <1>4, <2>1, <2>2 DEF Steady
  <2> QED
    BY <1>1, <2>3, CurrentBystander DEF Currency
<1>7. Conforming(p)'
  <2> SUFFICES ASSUME NEW r \in Done(p)'
               PROVE  Conforms(RelSeen(p, r)', Models[version[p]][r])
    BY <1>1 DEF Conforming
  <2>1. r \in Rels
    BY <1>1, <1>2, ModelsAssumption DEF Done
  <2>2. CASE r = cur[p]
    <3>1. RelSeen(p, r)' = x
      BY <1>1, <1>4, <2>1, <2>2 DEF RelSeen
    <3>2. l = "save"
      BY <1>1, <1>3, <2>2 DEF Done
    <3> QED
      BY <1>2, <2>2, <3>1, <3>2
  <2>3. CASE r # cur[p]
    <3>1. RelSeen(p, r)' = RelSeen(p, r)
      BY <1>1, <1>4, <2>1, <2>3 DEF RelSeen
    <3>2. r \in Done(p)
      BY <1>1, <2>3 DEF Done
    <3>3. pc[p] # "off"
      OBVIOUS
    <3> QED
      BY <3>1, <3>2, <3>3 DEF Currency, Current, Conforming
  <2> QED
    BY <2>2, <2>3
<1>8. IndexesReadOnce(p)'
  BY <1>3 DEF IndexesReadOnce
<1> QED
  BY <1>5, <1>6, <1>7, <1>8 DEF Currency, Current

LEMMA SaveKeepsCurrency ==
  ASSUME Base0, Base0', Currency, NEW p \in Procs, SaveConfig(p)
  PROVE  Currency'
<1>1. /\ pc[p] = "save"
      /\ lock' = [lock EXCEPT ![<<"conf", cur[p]>>] = p]
      /\ newConf' = [newConf EXCEPT ![cur[p]] = Target(p)]
      /\ lock[<<"conf", cur[p]>>] \in {p, NoProc}
      /\ UNCHANGED <<up, rel, conf, newRel, version, todo, cur, seen, result>>
  BY DEF SaveConfig, dbVars, Free
<1>2. PICK l \in {"migrations", "commit", "next"} : pc' = [pc EXCEPT ![p] = l]
  BY DEF SaveConfig, Goto
<1>3. cur[p] \in Rels /\ version[p] \in Versions
  BY <1>1, ModelsAssumption DEF Base0, Located
<1>4. /\ pc'[p] = l
      /\ \A q \in Procs \ {p} : pc'[q] = pc[q]
  BY <1>2 DEF Base0, Shape
<1>5. /\ \A r \in Rels : lock'[<<"rel", r>>] = lock[<<"rel", r>>]
      /\ \A r \in Rels : lock'[<<"conf", r>>] = IF r = cur[p] THEN p ELSE lock[<<"conf", r>>]
      /\ \A r \in Rels : newConf'[r] = IF r = cur[p] THEN Target(p) ELSE newConf[r]
  <2>1. DOMAIN lock = Resources /\ DOMAIN newConf = Rels
    BY DEF Base0, Shape
  <2> QED
    BY <1>1, <1>3, <2>1, ResourcesAre
<1>6. IndexesKnown'
  BY <1>1 DEF Currency, IndexesKnown
<1>7. ASSUME NEW q \in Procs \ {p}
      PROVE  Current(q)'
  <2>1. \A r \in Rels : lock[<<"conf", r>>] = q => r # cur[p]
    BY <1>1, ConstantsAssumption
  <2>2. Steady(q)
    BY <1>1, <1>4, <1>5, <2>1 DEF Steady
  <2> QED
    BY <1>1, <2>2, CurrentBystander DEF Currency
<1>8. Done(p)' = Done(p)
  BY <1>1, <1>4 DEF Done
<1>9. Conforming(p)'
  <2> SUFFICES ASSUME NEW r \in Done(p)
               PROVE  Conforms(RelSeen(p, r)', Models[version[p]][r])
    BY <1>1, <1>8 DEF Conforming
  <2>1. r \in Rels
    BY <1>3, ModelsAssumption DEF Done
  <2>2. RelSeen(p, r)' = RelSeen(p, r)
    BY <1>1, <1>5, <2>1 DEF RelSeen
  <2> QED
    BY <1>1, <2>2 DEF Currency, Current, Conforming
<1>10. IndexesReadOnce(p)'
  BY <1>4 DEF IndexesReadOnce
<1> QED
  BY <1>6, <1>7, <1>9, <1>10 DEF Currency, Current

LEMMA AbortKeepsCurrency ==
  ASSUME Base0, Base0', Currency, NEW p \in Procs, Abort(p)
  PROVE  Currency'
<1>1. Release(p) /\ Finish(p, "err") /\ UNCHANGED <<up, rel, conf>>
  BY DEF Abort, dbVars
<1>2. Alone(p) /\ pc'[p] = "off"
  BY <1>1, FinishIs
<1>3. IndexesKnown'
  BY <1>1 DEF Currency, IndexesKnown
<1>4. ASSUME NEW q \in Procs \ {p}
      PROVE  Current(q)'
  BY <1>1, <1>2, ReleaseIsSteady, CurrentBystander DEF Currency
<1>5. Current(p)'
  BY <1>2 DEF Current, Conforming, IndexesReadOnce
<1> QED
  BY <1>3, <1>4, <1>5 DEF Currency

LEMMA CommitKeepsCurrency ==
  ASSUME Base0, Base0', Truth, Currency, NEW p \in Procs, Commit(p)
  PROVE  Currency'
<1>1. /\ pc[p] = "commit"
      /\ rel' = [r \in Rels |-> RelSeen(p, r)]
      /\ conf' = [r \in Rels |-> ConfSeen(p, r)]
      /\ Release(p)
      /\ Finish(p, "ok") \/ Finish(p, "err")
  BY DEF Commit
<1>2. Alone(p) /\ pc'[p] = "off"
  BY <1>1, FinishIs
<1>3. ASSUME NEW r \in Rels
      PROVE  \/ /\ lock[<<"conf", r>>] = p
                /\ r \in Done(p) /\ newConf[r] = Models[version[p]][r]
                /\ Conforms(rel'[r], Models[version[p]][r])
             \/ lock[<<"conf", r>>] # p /\ rel'[r] = rel[r]
  <2>1. rel'[r] = RelSeen(p, r)
    BY <1>1
  <2>2. CASE lock[<<"conf", r>>] = p
    <3>1. r \in Done(p) /\ newConf[r] = Models[version[p]][r]
      BY <2>2 DEF Truth, Informed, Saved
    <3> QED
      BY <1>1, <2>1, <2>2, <3>1 DEF Currency, Current, Conforming
  <2>3. CASE lock[<<"conf", r>>] # p
    BY <1>1, <2>1, <2>3 DEF Truth, Informed, Untouched, RelSeen
  <2> QED
    BY <2>2, <2>3
<1>4. IndexesKnown'
  <2> SUFFICES ASSUME NEW r \in Rels, conf'[r] # NoConf
               PROVE  IF rel'[r].kind = "table"
                      THEN \A i \in DOMAIN conf'[r].idxs :
                            i \in DOMAIN rel'[r].idxs /\ rel'[r].idxs[i] = conf'[r].idxs[i]
                      ELSE rel'[r].kind = conf'[r].kind /\ rel'[r].query = conf'[r].query
    BY DEF IndexesKnown
  <2>1. conf'[r] = IF lock[<<"conf", r>>] = p THEN newConf[r] ELSE conf[r]
    BY <1>1 DEF ConfSeen
  <2>2. CASE lock[<<"conf", r>>] = p
    <3>1. conf'[r] = Models[version[p]][r] /\ Conforms(rel'[r], conf'[r])
      BY <1>3, <2>1, <2>2
    <3> QED
      BY <3>1 DEF Conforms
  <2>3. CASE lock[<<"conf", r>>] # p
    BY <1>3, <2>1, <2>3 DEF Currency, IndexesKnown
  <2> QED
    BY <2>2, <2>3
<1>5. ASSUME NEW q \in Procs \ {p}
      PROVE  Current(q)'
  <2>1. \A r \in Rels : rel'[r] # rel[r] => lock[<<"rel", r>>] = p
    BY <1>1 DEF RelSeen
  <2>2. Steady(q)
    BY <1>1, <1>2, <2>1, ReleaseIsSteady
  <2>3. pc[q] # "off" => version[q] = version[p]
    BY <1>1 DEF Truth, SameVersion
  <2>4. \A r \in Rels : rel'[r] # rel[r] =>
            \/ pc[q] = "off"
            \/ Conforms(rel'[r], Models[version[q]][r])
    BY <1>3, <2>3
  <2> QED
    BY <2>2, <2>4, CurrentBystander DEF Currency
<1>6. Current(p)'
  BY <1>2 DEF Current, Conforming, IndexesReadOnce
<1> QED
  BY <1>4, <1>5, <1>6 DEF Currency

\* Rows, and indexes that no model has.
LEMMA OutsideKeepsCurrency ==
  ASSUME Base0, Base0', Truth, Currency, IndexesOwned, NEW r \in Rels,
         InsertRows(r) \/ \E i \in ManualIndexes : ManualIndex(r, i)
  PROVE  Currency'
<1>1. /\ Outside(r) /\ lock[<<"rel", r>>] = NoProc
      /\ \/ rel'[r].idxs = rel[r].idxs
         \/ /\ \A p \in Procs : pc[p] = "off"
            /\ \E i \in ManualIndexes : \A j \in DOMAIN rel[r].idxs \ {i} :
                  j \in DOMAIN rel'[r].idxs /\ rel'[r].idxs[j] = rel[r].idxs[j]
  <2>1. CASE InsertRows(r)
    BY <2>1, InsertedIs
  <2>2. CASE \E i \in ManualIndexes : ManualIndex(r, i)
    <3>1. PICK i \in ManualIndexes : ManualIndex(r, i)
      BY <2>2
    <3>2. \A p \in Procs : pc[p] = "off"
      BY <3>1 DEF ManualIndex
    <3> QED
      BY <3>1, <3>2, IndexedIs
  <2> QED
    BY <2>1, <2>2
<1>2. /\ UNCHANGED <<up, conf, lock, newRel, newConf>>
      /\ UNCHANGED <<pc, version, todo, cur, seen, result>>
      /\ \A q \in Rels \ {r} : rel'[q] = rel[q]
      /\ rel[r].kind = "table" /\ rel'[r].kind = "table"
      /\ rel'[r].cols = rel[r].cols
  BY <1>1 DEF txVars, procVars, Outside
<1>3. rel[r] # Absent /\ rel'[r] # Absent
  BY <1>2 DEF Absent
<1>4. IndexesKnown'
  <2> SUFFICES ASSUME conf[r] # NoConf
               PROVE  \A i \in DOMAIN conf[r].idxs :
                        i \in DOMAIN rel'[r].idxs /\ rel'[r].idxs[i] = conf[r].idxs[i]
    BY <1>2 DEF IndexesKnown, Currency
  <2>1. \A i \in DOMAIN conf[r].idxs :
          i \in DOMAIN rel[r].idxs /\ rel[r].idxs[i] = conf[r].idxs[i]
    BY <1>2 DEF Currency, IndexesKnown
  <2>2. DOMAIN conf[r].idxs \cap ManualIndexes = {}
    BY DEF Truth, ConfKnown, IndexesOwned
  <2> QED
    BY <1>1, <2>1, <2>2
<1>5. ASSUME NEW p \in Procs
      PROVE  Current(p)'
  <2>1. p # NoProc
    BY ConstantsAssumption
  <2>2. Steady(p)
    BY <1>1, <1>2, <2>1 DEF Steady
  <2>3. pc[p] # "off" => SameStructure(rel[r], rel'[r])
    BY <1>1, <1>2, <1>3 DEF SameStructure
  <2> QED
    BY <1>2, <2>2, <2>3, CurrentBystander DEF Currency
<1> QED
  BY <1>4, <1>5 DEF Currency

LEMMA MovesKeepCurrency ==
  ASSUME Base0, Base0', Currency, NEW p \in Procs, NEW l \in PCs \ {"off"},
         pc[p] # "off", Goto(p, l), Quiet(p), version' = version,
         \A q \in Procs \ {p} : /\ todo'[q] = todo[q] /\ cur'[q] = cur[q]
                                /\ seen'[q] = seen[q],
         \A r \in Done(p)' : r \in Done(p) \/ Conforms(RelSeen(p, r), Models[version[p]][r]),
         IndexesReadOnce(p)'
  PROVE  Currency'
<1>1. pc'[p] = l /\ \A q \in Procs \ {p} : pc'[q] = pc[q]
  BY DEF Goto, Base0, Shape
<1>2. Alone(p)
  BY <1>1 DEF Alone
<1> QED
  BY <1>1, <1>2, QuietKeepsCurrency

LEMMA EnsuringKeepsCurrency ==
  ASSUME Base0, Base0', Currency, NEW p \in Procs,
         \/ \E v \in Versions : Start(p, v)
         \/ EnsureModelSchema(p) \/ WaitForSchema(p)
         \/ EnsureMigrations(p) \/ WaitForMigrations(p) \/ AfterMigrate(p)
  PROVE  Currency'
<1>1. CASE \E v \in Versions : Start(p, v)
  <2>1. PICK v \in Versions : Start(p, v)
    BY <1>1
  <2>2. /\ pc[p] = "off"
        /\ version' = [version EXCEPT ![p] = v]
        /\ todo' = [todo EXCEPT ![p] = DOMAIN Models[v]]
        /\ pc' = [pc EXCEPT ![p] = "next"]
        /\ UNCHANGED <<up, rel, conf, lock, newRel, newConf, cur, seen>>
    BY <2>1 DEF Start, Goto, dbVars, txVars
  <2>3. Alone(p) /\ Quiet(p)
    BY <2>2 DEF Alone, Quiet, Base0, Shape, dbVars
  <2>4. pc'[p] = "next" /\ version'[p] = v /\ todo'[p] = DOMAIN Models[v]
    BY <2>2 DEF Base0, Shape
  <2>5. Done(p)' = {}
    BY <2>4 DEF Done
  <2>6. IndexesReadOnce(p)'
    BY <2>4 DEF IndexesReadOnce
  <2> QED
    BY <2>3, <2>4, <2>5, <2>6, QuietKeepsCurrency
<1>2. CASE EnsureModelSchema(p)
  <2>1. PICK r \in todo[p] : /\ todo' = [todo EXCEPT ![p] = @ \ {r}]
                             /\ cur' = [cur EXCEPT ![p] = r]
    BY <1>2 DEF EnsureModelSchema
  <2>2. /\ pc[p] = "next"
        /\ Ensure(p, "schema", "waitSchema", "indexes")
        /\ UNCHANGED <<dbVars, newRel, newConf, version, seen, result>>
    BY <1>2 DEF EnsureModelSchema
  <2>3. Quiet(p) /\ \E l \in {"waitSchema", "indexes"} : Goto(p, l)
    BY <2>2, EnsureIs DEF PCs, Onces
  <2>4. PICK l \in {"waitSchema", "indexes"} : Goto(p, l)
    BY <2>3
  <2>5. pc'[p] = l /\ todo'[p] = todo[p] \ {r} /\ cur'[p] = r
    BY <2>1, <2>4 DEF Goto, Base0, Shape
  <2>6. \A q \in Procs \ {p} : todo'[q] = todo[q] /\ cur'[q] = cur[q] /\ seen'[q] = seen[q]
    BY <2>1, <2>2 DEF Base0, Shape
  <2>7. Done(p)' \subseteq Done(p)
    <3>1. Done(p) = DOMAIN Models[version[p]] \ todo[p]
      BY <2>2 DEF Done
    <3>2. Done(p)' = DOMAIN Models[version[p]] \ ((todo[p] \ {r}) \cup {r})
      BY <2>2, <2>5 DEF Done
    <3> QED
      BY <3>1, <3>2
  <2>8. IndexesReadOnce(p)'
    BY <2>5 DEF IndexesReadOnce
  <2> QED
    BY <2>2, <2>3, <2>4, <2>6, <2>7, <2>8, MovesKeepCurrency DEF PCs
<1>3. ASSUME NEW o \in Onces, NEW l \in {"indexes", "hook"}, EnsureAfterWait(p, o, l),
             \/ pc[p] = "waitSchema" /\ l = "indexes"
             \/ pc[p] = "waitMigrations" /\ l = "hook"
      PROVE  Currency'
  <2>1. CASE Abort(p)
    BY <2>1, AbortKeepsCurrency
  <2>2. CASE /\ lock' = [lock EXCEPT ![<<"once", o>>] = p]
             /\ Goto(p, l)
             /\ UNCHANGED <<dbVars, newRel, newConf, version, todo, cur, seen, result>>
    <3>1. Quiet(p)
      BY <2>2, ResourcesAre DEF Quiet, Base0, Shape
    <3>2. pc'[p] = l
      BY <2>2 DEF Goto, Base0, Shape
    <3>3. Done(p)' = Done(p)
      BY <1>3, <2>2, <3>2 DEF Done
    <3>4. IndexesReadOnce(p)'
      BY <3>2 DEF IndexesReadOnce
    <3>5. pc[p] # "off" /\ l \in PCs \ {"off"}
      BY <1>3 DEF PCs
    <3> QED
      BY <2>2, <3>1, <3>3, <3>4, <3>5, MovesKeepCurrency
  <2> QED
    BY <1>3, <2>1, <2>2 DEF EnsureAfterWait
<1>4. CASE WaitForSchema(p) \/ WaitForMigrations(p)
  BY <1>3, <1>4 DEF WaitForSchema, WaitForMigrations, Onces
<1>5. CASE EnsureMigrations(p) \/ AfterMigrate(p)
  <2>1. PICK l \in {"waitMigrations", "hook", "commit", "next"} : Goto(p, l)
    BY <1>5 DEF EnsureMigrations, Ensure, AfterMigrate
  <2>2. /\ UNCHANGED <<dbVars, newRel, newConf, version, todo, cur, seen, result>>
        /\ pc[p] \in {"migrations", "hook"}
    BY <1>5 DEF EnsureMigrations, AfterMigrate, txVars
  <2>3. Quiet(p)
    <3>1. CASE EnsureMigrations(p)
      BY <2>2, <3>1, EnsureIs DEF EnsureMigrations, PCs, Onces
    <3>2. CASE AfterMigrate(p)
      BY <3>2 DEF AfterMigrate, Quiet, Base0, Shape, txVars
    <3> QED
      BY <1>5, <3>1, <3>2
  <2>4. pc'[p] = l
    BY <2>1 DEF Goto, Base0, Shape
  <2>5. Done(p)' = Done(p)
    BY <2>2, <2>4 DEF Done
  <2>6. IndexesReadOnce(p)'
    BY <2>4 DEF IndexesReadOnce
  <2>7. pc[p] # "off" /\ l \in PCs \ {"off"}
    BY <2>2 DEF PCs
  <2> QED
    BY <2>1, <2>2, <2>3, <2>5, <2>6, <2>7, MovesKeepCurrency
<1> QED
  BY <1>1, <1>2, <1>4, <1>5

LEMMA ReadingKeepsCurrency ==
  ASSUME Base0, Base0', Truth, Currency, NEW p \in Procs,
         ReadIndexes(p) \/ ReadColumns(p)
  PROVE  Currency'
<1>1. /\ UNCHANGED <<up, rel, conf, lock, newRel, newConf, version, todo, cur, result>>
      /\ pc[p] \in {"indexes", "columns"}
  BY DEF ReadIndexes, ReadColumns, dbVars, txVars
<1>2. /\ Quiet(p)
      /\ \A q \in Procs \ {p} : seen'[q] = seen[q]
  BY <1>1 DEF ReadIndexes, ReadColumns, Quiet, dbVars, Base0, Shape
<1>3. PICK l \in {"load", "alter"} : /\ Goto(p, l)
                                     /\ l = "load" <=> ReadIndexes(p)
  BY DEF ReadIndexes, ReadColumns
<1>4. pc'[p] = l
  BY <1>3 DEF Goto, Base0, Shape
<1>5. Done(p)' = Done(p)
  BY <1>1, <1>4 DEF Done
<1>6. IndexesReadOnce(p)'
  <2>1. CASE ReadIndexes(p)
    <3>1. seen' = [seen EXCEPT ![p].idxs = DBIndexes(RelSeen(p, cur[p]))] /\ pc[p] = "indexes"
      BY <2>1 DEF ReadIndexes
    <3>2. seen'[p].idxs = DBIndexes(rel[cur[p]])
      <4>1. RelSeen(p, cur[p]) = rel[cur[p]]
        BY <3>1, SeesCommitted DEF Truth
      <4>2. seen'[p].idxs = DBIndexes(RelSeen(p, cur[p]))
        BY <3>1, NotedIndexes
      <4> QED
        BY <4>1, <4>2
    <3>3. pc'[p] = "load"
      BY <1>3, <1>4, <2>1
    <3> QED
      BY <1>1, <3>2, <3>3 DEF IndexesReadOnce
  <2>2. CASE ReadColumns(p)
    <3>1. /\ seen' = [seen EXCEPT ![p].cols = DBColumns(RelSeen(p, cur[p]))]
          /\ pc[p] = "columns"
      BY <2>2 DEF ReadColumns
    <3>2. seen'[p].conf = seen[p].conf /\ seen'[p].idxs = seen[p].idxs
      BY <3>1, NotedColumns
    <3> QED
      BY <1>1, <3>1, <3>2 DEF Currency, Current, IndexesReadOnce
  <2> QED
    BY <2>1, <2>2
<1>7. pc[p] # "off" /\ l \in PCs \ {"off"}
  BY <1>1 DEF PCs
<1> QED
  BY <1>1, <1>2, <1>3, <1>5, <1>6, <1>7, MovesKeepCurrency

\* What _config has of the relation makes up for what ModelEqual and
\* IndexesEqual do not compare.
LEMMA EqualConforms ==
  ASSUME Base0, Orderly, ViewsChangeColumns, Truth, Currency,
         NEW p \in Procs, pc[p] = "load", conf[cur[p]] # NoConf,
         ModelEqual(conf[cur[p]], Target(p)), IndexesEqual(Target(p), seen[p].idxs)
  PROVE  Conforms(rel[cur[p]], Target(p))
<1> DEFINE r == cur[p]
           v == version[p]
           last == conf[r]
           m == Models[v][r]
<1>1. /\ r \in Rels /\ v \in Versions /\ r \in DOMAIN Models[v] /\ Target(p) = m
  BY SeesCommitted DEF Truth
<1>2. PICK w \in Versions : r \in DOMAIN Models[w] /\ last = Models[w][r]
  BY <1>1 DEF Truth, ConfKnown
<1>3. Has(rel[r], last) /\ rel[r] # Absent
  BY <1>1 DEF Truth, ConfKnown, Has
<1>4. rel[r].kind = "table" <=> IsTable(v, r)
  BY <1>1, <1>3, KindsAgree DEF Orderly, Base0, Relations
<1>5. last.cols = m.cols /\ last.idxs = m.idxs
  BY <1>1 DEF ModelEqual
<1>6. CASE IsTable(v, r)
  <2>1. HasColumns(rel[r], m)
    BY <1>3, <1>4, <1>5, <1>6 DEF Has, HasColumns
  <2>2. rel[r].idxs = m.idxs
    <3>1. CASE seen[p].idxs = DBIndexes(rel[r])
      <4>1. DOMAIN rel[r].idxs = DOMAIN m.idxs
        <5>1. DBIndexes(rel[r]) = [i \in DOMAIN m.idxs |-> m.idxs[i].on]
          BY <1>1, <3>1 DEF IndexesEqual
        <5>2. DOMAIN DBIndexes(rel[r]) = DOMAIN rel[r].idxs
          BY DEF DBIndexes
        <5> QED
          BY <5>1, <5>2
      <4>2. \A i \in DOMAIN last.idxs : rel[r].idxs[i] = last.idxs[i]
        BY <1>1, <1>4, <1>6 DEF Currency, IndexesKnown
      <4>3. \A i \in DOMAIN m.idxs : rel[r].idxs[i] = m.idxs[i]
        BY <1>5, <4>2
      <4>4. ByName(rel[r].idxs) /\ ByName(m.idxs)
        BY <1>1, ModelsAssumption DEF Base0, Relations, IsRelation
      <4> HIDE DEF m
      <4>5. \A f, g : /\ ByName(f) /\ ByName(g) /\ DOMAIN f = DOMAIN g
                      /\ \A i \in DOMAIN g : f[i] = g[i]
                      => f = g
        <5> SUFFICES ASSUME NEW f, NEW g, ByName(f), ByName(g), DOMAIN f = DOMAIN g,
                            \A i \in DOMAIN g : f[i] = g[i]
                     PROVE  f = g
          OBVIOUS
        <5>1. [i \in DOMAIN f |-> f[i]] = [i \in DOMAIN g |-> g[i]]
          OBVIOUS
        <5> QED
          BY <5>1 DEF ByName
      <4> QED
        BY <4>1, <4>3, <4>4, <4>5
    <3>2. rel[r].idxs = m.idxs \/ seen[p].idxs = DBIndexes(rel[r])
      BY <1>6 DEF Currency, Current, IndexesReadOnce
    <3> QED
      BY <3>1, <3>2
  <2> QED
    BY <1>1, <1>3, <1>4, <1>6, <2>1, <2>2 DEF Conforms, IsTable
<1>7. CASE ~IsTable(v, r)
  <2>1. ~IsTable(w, r)
    BY <1>1, <1>2, <1>7 DEF Orderly, ReleasesAgree, TablesStayTables
  <2>2. last.kind = m.kind /\ last.query = m.query
    BY <1>1, <1>2, <2>1 DEF ViewsChangeColumns
  <2>3. rel[r].kind = last.kind /\ rel[r].query = last.query
    BY <1>1, <1>4, <1>7 DEF Currency, IndexesKnown
  <2> QED
    BY <1>1, <1>3, <1>7, <2>2, <2>3 DEF Conforms, IsTable
<1> QED
  BY <1>6, <1>7

LEMMA LoadKeepsCurrency ==
  ASSUME Base0, Base0', Orderly, ViewsChangeColumns, Truth, Currency,
         NEW p \in Procs, LoadConfig(p)
  PROVE  Currency'
<1> DEFINE r == cur[p]
           last == conf[r]
           m == Models[version[p]][r]
<1>1. /\ UNCHANGED <<up, rel, conf, lock, newRel, newConf, version, todo, cur, result>>
      /\ pc[p] = "load"
      /\ seen' = [seen EXCEPT ![p].conf = ConfSeen(p, r)]
  BY DEF LoadConfig, dbVars, txVars
<1>2. /\ Quiet(p)
      /\ \A q \in Procs \ {p} : seen'[q] = seen[q]
  BY <1>1 DEF Quiet, dbVars, Base0, Shape
<1>3. /\ r \in Rels /\ version[p] \in Versions /\ r \in DOMAIN Models[version[p]]
      /\ Target(p) = m
      /\ RelSeen(p, r) = rel[r] /\ ConfSeen(p, r) = last
  BY <1>1, SeesCommitted DEF Truth
<1>4. PICK l \in {"create", "migrations", "columns", "alter"} :
        /\ Goto(p, l)
        /\ l # "create" => last # NoConf
        /\ l = "migrations" => ModelEqual(last, m) /\ IndexesEqual(m, seen[p].idxs)
        /\ l = "alter" => m.kind # "table"
  BY <1>3 DEF LoadConfig
<1>5. pc'[p] = l
  BY <1>4 DEF Goto, Base0, Shape
<1>6. seen'[p].conf = last /\ seen'[p].idxs = seen[p].idxs
  BY <1>1, <1>3, NotedConf
<1>7. IndexesReadOnce(p)'
  <2> SUFFICES ASSUME l = "columns", IsTable(version[p], r)
               PROVE  IndexesReadOnce(p)'
    BY <1>1, <1>4, <1>5 DEF IndexesReadOnce, IsTable
  <2>1. Has(rel[r], last) /\ last # NoConf
    BY <1>3, <1>4 DEF Truth, ConfKnown
  <2>2. rel[r].kind = "table"
    BY <1>3, <2>1, KindsAgree DEF Orderly, Base0, Relations, Has
  <2>3. \A i \in DOMAIN last.idxs : i \in DOMAIN rel[r].idxs /\ rel[r].idxs[i] = last.idxs[i]
    BY <1>3, <2>1, <2>2 DEF Currency, IndexesKnown
  <2>4. rel[r].idxs = m.idxs \/ seen[p].idxs = DBIndexes(rel[r])
    BY <1>1 DEF Currency, Current, IndexesReadOnce
  <2>5. /\ rel'[r] = rel[r] /\ cur'[p] = r /\ version'[p] = version[p]
        /\ m' = m
    BY <1>1
  <2> HIDE DEF r, last, m
  <2>6. \/ rel'[r].idxs = m.idxs
        \/ /\ seen'[p].idxs = DBIndexes(rel'[r])
           /\ \A i \in DOMAIN seen'[p].conf.idxs :
                i \in DOMAIN rel'[r].idxs /\ rel'[r].idxs[i] = seen'[p].conf.idxs[i]
    BY <1>6, <2>3, <2>4, <2>5
  <2> QED
    BY <2>5, <2>6 DEF IndexesReadOnce, m, r
<1>8. Done(p) = DOMAIN Models[version[p]] \ (todo[p] \cup {r})
  BY <1>1 DEF Done
<1>9. /\ l # "migrations" => Done(p)' = Done(p)
      /\ l = "migrations" => Done(p)' = DOMAIN Models[version[p]] \ todo[p]
  BY <1>1, <1>5 DEF Done
<1>10. l = "migrations" => Conforms(RelSeen(p, r), m)
  BY <1>1, <1>3, <1>4, EqualConforms
<1>11. \A x \in Done(p)' : x \in Done(p) \/ Conforms(RelSeen(p, x), Models[version[p]][x])
  <2>1. CASE l # "migrations"
    BY <1>9, <2>1
  <2>2. CASE l = "migrations"
    BY <1>8, <1>9, <1>10, <2>2
  <2> QED
    BY <2>1, <2>2
<1>12. pc[p] # "off" /\ l \in PCs \ {"off"}
  BY <1>1 DEF PCs
<1> QED
  BY <1>1, <1>2, <1>4, <1>7, <1>11, <1>12, MovesKeepCurrency

LEMMA CreateKeepsCurrency ==
  ASSUME Base0, Base0', Currency, NEW p \in Procs, CreateModel(p) \/ DropView(p)
  PROVE  Currency'
<1> DEFINE r == cur[p]
           x == NewRelation(Target(p))
<1>1. /\ pc[p] \in {"create", "alter"}
      /\ version[p] \in Versions /\ r \in DOMAIN Models[version[p]]
      /\ r \in Rels /\ Target(p) = Models[version[p]][r]
  BY ModelsAssumption DEF CreateModel, DropView, Base0, Located, Target
<1>2. Target(p).kind # "table" => Target(p).query.from \in Rels
  BY <1>1, ModelsAssumption
<1>3. CASE Abort(p)
  BY <1>3, AbortKeepsCurrency
<1>4. CASE Change(p, RelationAndBase(p), x, "save")
  <2>1. RelationAndBase(p) \subseteq {<<"rel", s>> : s \in Rels}
    BY <1>1, <1>2 DEF RelationAndBase, Relation, Base
  <2>2. <<"rel", r>> \in RelationAndBase(p)
    BY DEF RelationAndBase, Relation
  <2>3. x # Absent
    BY <1>1, NewRelationIs
  <2>4. Conforms(x, Target(p))
    BY <2>3 DEF Conforms, HasColumns, NewRelation, NewTable, NewView
  <2> QED
    BY <1>1, <1>4, <2>1, <2>2, <2>4, ChangeKeepsCurrency
<1>5. CASE Change(p, Relation(p), Absent, "create")
  <2>1. /\ Relation(p) \subseteq {<<"rel", s>> : s \in Rels}
        /\ <<"rel", r>> \in Relation(p)
    BY <1>1 DEF Relation
  <2> QED
    BY <1>1, <1>5, <2>1, ChangeKeepsCurrency
<1> QED
  BY <1>3, <1>4, <1>5 DEF CreateModel, DropView

LEMMA AlterKeepsCurrency ==
  ASSUME Base0, Base0', Orderly, Truth, Currency, NEW p \in Procs, AlterTable(p)
  PROVE  Currency'
<1> DEFINE r == cur[p]
           to == Target(p)
           last == seen[p].conf
           info == seen[p].cols
           dbidxs == seen[p].idxs
           patch == Patch(last, to, info, dbidxs)
           table == RelSeen(p, r)
           y == Patched(table, to, patch)
<1>1. pc[p] = "alter" /\ to.kind = "table"
  BY DEF AlterTable
<1>2. /\ version[p] \in Versions /\ r \in Rels
      /\ r \in DOMAIN Models[version[p]]
      /\ to = Models[version[p]][r]
      /\ table = rel[r]
  BY <1>1, SeesCommitted DEF Truth
<1>3. \/ Abort(p)
      \/ /\ ~KeyChanges(last, to, info)
         /\ NothingToDo(patch)
         /\ Goto(p, "save")
         /\ UNCHANGED <<dbVars, txVars, version, todo, cur, seen, result>>
      \/ /\ ~KeyChanges(last, to, info)
         /\ ~PatchFails(table, to, patch, Viewed(p, r))
         /\ Change(p, Relation(p), y, "save")
  BY DEF AlterTable
<1>4. CASE Abort(p)
  BY <1>4, AbortKeepsCurrency
<1>5. IsTable(version[p], r)
  BY <1>1, <1>2 DEF IsTable
<1>6. \/ table.idxs = to.idxs
      \/ /\ dbidxs = DBIndexes(table)
         /\ \A i \in DOMAIN last.idxs : i \in DOMAIN table.idxs /\ table.idxs[i] = last.idxs[i]
  BY <1>1, <1>2, <1>5 DEF Currency, Current, IndexesReadOnce
<1>7. ByName(to.idxs) /\ ByName(table.idxs)
  BY <1>2, ModelsAssumption DEF Base0, Relations, IsRelation
<1>8. ASSUME /\ patch.drop \subseteq DOMAIN table.idxs
             /\ patch.create \cap (DOMAIN table.idxs \ (patch.dropIfExists \cup patch.drop)) = {}
      PROVE  y.idxs = to.idxs
  <2>1. to.idxs = [i \in DOMAIN to.idxs |-> to.idxs[i]]
    BY <1>7 DEF ByName
  <2> QED
    BY <1>6, <1>8, <2>1, PatchedIndexes
<1>9. ASSUME ~KeyChanges(last, to, info), patch.add \cap DOMAIN rel[r].cols = {}
      PROVE  rel[r].kind = "table" /\ HasColumns(y, to) /\ ColumnsKnown(y, r)
  BY <1>1, <1>2, <1>9, AlteredIsKnown
<1>10. CASE /\ ~KeyChanges(last, to, info)
            /\ NothingToDo(patch)
            /\ Goto(p, "save")
            /\ UNCHANGED <<dbVars, txVars, version, todo, cur, seen, result>>
  <2>1. /\ patch.add = {} /\ patch.drop = {} /\ patch.create = {} /\ patch.dropIfExists = {}
    BY <1>10 DEF NothingToDo
  <2>2. rel[r].kind = "table" /\ HasColumns(y, to)
    BY <1>9, <1>10, <2>1
  <2>3. \A c \in DOMAIN rel[r].cols : IsColumn(rel[r].cols[c])
    BY <1>2, <2>2 DEF Truth, AllColumnsKnown, ColumnsKnown
  <2>4. HasColumns(rel[r], to)
    BY <1>2, <1>10, <2>2, <2>3, NothingIsEnough
  <2>5. y.idxs = to.idxs
    BY <1>8, <2>1
  <2>6. y.idxs = [i \in DOMAIN table.idxs |-> table.idxs[i]]
    BY <2>1 DEF Patched
  <2>7. rel[r].idxs = to.idxs
    BY <1>2, <1>7, <2>5, <2>6 DEF ByName
  <2>8. rel[r] # Absent
    BY <2>2 DEF Absent
  <2>9. Conforms(RelSeen(p, r), Models[version[p]][r])
    BY <1>1, <1>2, <2>2, <2>4, <2>7, <2>8 DEF Conforms
  <2>10. Quiet(p) /\ pc'[p] = "save"
    BY <1>10 DEF Quiet, Base0, Shape, txVars, Goto
  <2>11. /\ Done(p) = DOMAIN Models[version[p]] \ (todo[p] \cup {r})
         /\ Done(p)' = DOMAIN Models[version[p]] \ todo[p]
    BY <1>1, <1>10, <2>10 DEF Done
  <2>12. IndexesReadOnce(p)'
    BY <2>10 DEF IndexesReadOnce
  <2> QED
    BY <1>1, <1>10, <2>9, <2>10, <2>11, <2>12, MovesKeepCurrency DEF PCs
<1>11. CASE /\ ~KeyChanges(last, to, info)
            /\ ~PatchFails(table, to, patch, Viewed(p, r))
            /\ Change(p, Relation(p), y, "save")
  <2>1. /\ patch.add \cap DOMAIN rel[r].cols = {}
        /\ patch.drop \subseteq DOMAIN table.idxs
        /\ patch.create \cap (DOMAIN table.idxs \ (patch.dropIfExists \cup patch.drop)) = {}
    BY <1>2, <1>11 DEF PatchFails
  <2>2. rel[r].kind = "table" /\ HasColumns(y, to)
    BY <1>9, <1>11, <2>1
  <2>3. y.idxs = to.idxs
    BY <1>8, <2>1
  <2>4. y.kind = "table"
    BY <1>2, <2>2 DEF Patched
  <2>5. y # Absent
    BY <2>4 DEF Absent
  <2>6. Conforms(y, to)
    BY <1>1, <2>2, <2>3, <2>4, <2>5 DEF Conforms
  <2>7. /\ Relation(p) \subseteq {<<"rel", s>> : s \in Rels}
        /\ <<"rel", r>> \in Relation(p)
    BY <1>2 DEF Relation
  <2> HIDE DEF y
  <2> QED
    BY <1>1, <1>11, <2>6, <2>7, ChangeKeepsCurrency
<1> QED
  BY <1>3, <1>4, <1>10, <1>11

\* What the releases, the instances and the administrator have to keep to.
Careful == Orderly /\ ViewsChangeColumns /\ IndexesOwned

IInv == Base0 /\ Truth /\ Unended /\ Currency

LEMMA InitIInv ==
  Init => IInv
<1> SUFFICES ASSUME Init PROVE Unended /\ Currency
  BY InitBase, InitTruth DEF IInv
<1>1. /\ conf = [r \in Rels |-> NoConf]
      /\ pc = [p \in Procs |-> "off"]
  BY DEF Init
<1> QED
  BY <1>1 DEF Unended, Currency, IndexesKnown, Current, Conforming, IndexesReadOnce

LEMMA NextKeepsIInv ==
  ASSUME Careful, IInv, [Next]_vars
  PROVE  IInv'
<1>0. /\ Base0 /\ Truth /\ Unended /\ Currency
      /\ Orderly /\ ViewsChangeColumns /\ IndexesOwned
  BY DEF Careful, IInv
<1>1. Base0' /\ Truth' /\ Unended'
  BY <1>0, NextKeepsBase, NextKeepsTruth, NextKeepsUnended
<1>2. CASE UNCHANGED vars
  <2>1. /\ UNCHANGED <<up, rel, conf, lock, newRel, newConf>>
        /\ UNCHANGED <<pc, version, todo, cur, seen, result>>
    BY <1>2 DEF vars, dbVars, txVars, procVars
  <2>2. \A q \in Procs : Steady(q)
    BY <2>1 DEF Steady
  <2>3. IndexesKnown'
    BY <1>0, <2>1 DEF Currency, IndexesKnown
  <2>4. \A q \in Procs : Current(q)'
    BY <1>0, <1>1, <2>1, <2>2, CurrentBystander DEF Currency
  <2> QED
    BY <1>1, <2>3, <2>4 DEF IInv, Currency
<1>3. ASSUME NEW p \in Procs, Step(p)
      PROVE  Currency'
  <2>1. CASE \/ EnsureModelSchema(p) \/ WaitForSchema(p)
             \/ EnsureMigrations(p) \/ WaitForMigrations(p) \/ AfterMigrate(p)
    BY <1>0, <1>1, <2>1, EnsuringKeepsCurrency
  <2>2. CASE ReadIndexes(p) \/ ReadColumns(p)
    BY <1>0, <1>1, <2>2, ReadingKeepsCurrency
  <2>3. CASE LoadConfig(p)
    BY <1>0, <1>1, <2>3, LoadKeepsCurrency
  <2>4. CASE CreateModel(p) \/ DropView(p)
    BY <1>0, <1>1, <2>4, CreateKeepsCurrency
  <2>5. CASE AlterTable(p)
    BY <1>0, <1>1, <2>5, AlterKeepsCurrency
  <2>6. CASE SaveConfig(p)
    BY <1>0, <1>1, <2>6, SaveKeepsCurrency
  <2>7. CASE Commit(p)
    BY <1>0, <1>1, <2>7, CommitKeepsCurrency
  <2>8. CASE DeadlockVictim(p)
    BY <1>0, <1>1, <2>8, AbortKeepsCurrency DEF DeadlockVictim
  <2> QED
    BY <1>3, <2>1, <2>2, <2>3, <2>4, <2>5, <2>6, <2>7, <2>8 DEF Step
<1>4. ASSUME NEW p \in Procs, Fail(p) \/ \E v \in Versions : Start(p, v)
      PROVE  Currency'
  BY <1>0, <1>1, <1>4, AbortKeepsCurrency, EnsuringKeepsCurrency DEF Fail
<1>5. ASSUME NEW r \in Rels, InsertRows(r) \/ \E i \in ManualIndexes : ManualIndex(r, i)
      PROVE  Currency'
  BY <1>0, <1>1, <1>5, OutsideKeepsCurrency
<1>6. CASE Next
  <2>1. CASE \E p \in Procs : (\E v \in Versions : Start(p, v)) \/ Step(p) \/ Fail(p)
    BY <1>1, <1>3, <1>4, <2>1 DEF IInv
  <2>2. CASE \E r \in Rels : InsertRows(r) \/ \E i \in ManualIndexes : ManualIndex(r, i)
    BY <1>1, <1>5, <2>2 DEF IInv
  <2> QED
    BY <1>6, <2>1, <2>2 DEF Next
<1> QED
  BY <1>2, <1>6

LEMMA IInvHolds ==
  Careful => (Spec => []IInv)
<1> SUFFICES ASSUME Careful PROVE Spec => []IInv
  OBVIOUS
<1>1. IInv /\ [Next]_vars => IInv'
  BY NextKeepsIInv
<1> QED
  BY InitIInv, <1>1, PTL DEF Spec

\* A Migrate that commits leaves every relation as its models have it, whatever
\* other instances of the version do meanwhile.
THEOREM StructureIsCurrentHolds ==
  Careful => (Spec => StructureIsCurrent)
<1> DEFINE Leaves ==
      \A p \in Procs :
        pc[p] = "commit" /\ result'[p] = "ok" =>
            \A r \in DOMAIN Models[version[p]] :
                Conforms(rel'[r], Models[version[p]][r])
<1>1. ASSUME IInv, [Next]_vars
      PROVE  Leaves
  <2> SUFFICES ASSUME NEW p \in Procs, pc[p] = "commit", result'[p] = "ok",
                      NEW r \in DOMAIN Models[version[p]]
               PROVE  Conforms(rel'[r], Models[version[p]][r])
    OBVIOUS
  <2>1. /\ result \in [Procs -> {"none", "ok", "err"}]
        /\ result[p] = "none" /\ todo[p] = {}
        /\ version[p] \in Versions
    BY <1>1 DEF IInv, Unended, Base0, Shape, Located
  <2>2. r \in Rels
    BY <2>1, ModelsAssumption
  <2>3. CASE Commit(p)
    <3>1. rel'[r] = RelSeen(p, r)
      BY <2>2, <2>3 DEF Commit
    <3>2. r \in Done(p)
      BY <2>1 DEF Done
    <3> QED
      BY <1>1, <3>1, <3>2 DEF IInv, Currency, Current, Conforming
  <2>4. CASE ~Commit(p)
    <3>1. result' = result \/ \E q \in Procs, x \in {"none", "ok", "err"} :
            result' = [result EXCEPT ![q] = x] /\ (q = p => x # "ok")
      <4>1. ASSUME NEW q \in Procs, Abort(q)
            PROVE  result' = [result EXCEPT ![q] = "err"]
        BY <4>1 DEF Abort, Finish
      <4>2. ASSUME NEW q \in Procs, NEW v \in Versions, Start(q, v)
            PROVE  result' = [result EXCEPT ![q] = "none"]
        BY <4>2 DEF Start
      <4>3. ASSUME NEW q \in Procs, Commit(q)
            PROVE  q # p /\ \E x \in {"ok", "err"} : result' = [result EXCEPT ![q] = x]
        BY <2>4, <4>3 DEF Commit, Finish
      <4>4. ASSUME NEW q \in Procs, Step(q) \/ Fail(q), ~Commit(q)
            PROVE  Abort(q) \/ result' = result
        BY <4>4 DEF Fail, Step, EnsureModelSchema, WaitForSchema, EnsureAfterWait,
              ReadIndexes, LoadConfig, ReadColumns, CreateModel, DropView, AlterTable,
              Change, SaveConfig, EnsureMigrations, WaitForMigrations, AfterMigrate,
              DeadlockVictim
      <4>5. ASSUME NEW s \in Rels, InsertRows(s) \/ \E i \in ManualIndexes : ManualIndex(s, i)
            PROVE  result' = result
        BY <4>5 DEF InsertRows, ManualIndex, procVars
      <4>6. CASE UNCHANGED vars
        BY <4>6 DEF vars, procVars
      <4> QED
        BY <1>1, <4>1, <4>2, <4>3, <4>4, <4>5, <4>6 DEF Next
    <3>2. result'[p] # "ok"
      BY <2>1, <3>1
    <3> QED
      BY <3>2
  <2> QED
    BY <2>3, <2>4
<1> SUFFICES ASSUME Careful PROVE Spec => StructureIsCurrent
  OBVIOUS
<1>2. Spec => []IInv
  BY IInvHolds
<1>3. IInv /\ [Next]_vars => [Leaves]_vars
  BY <1>1
<1> QED
  BY <1>2, <1>3, PTL DEF Spec, StructureIsCurrent

=============================================================================
