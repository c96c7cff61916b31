----------------------------- MODULE SchemaDiff -----------------------------
(***************************************************************************)
(* How a migration turns one relation into what a model asks for:          *)
(* migratesql.go, migrpatch.go, migridx.go and modelcols.                  *)
(*                                                                         *)
(* A model (modelcols.SQLModel) has columns and indexes by name; a view    *)
(* has a query too.  A relation is what PostgreSQL keeps: its columns and  *)
(* indexes, whether it has rows, and which columns contain NULLs.  Names   *)
(* are compared without case in the code and are values here.              *)
(***************************************************************************)
EXTENDS FiniteSets

CONSTANTS
    NoDefault,   \* no default value
    NoQuery      \* the query of what is not a view

\* A relation that does not exist.
Absent == [kind |-> "absent", cols |-> <<>>, idxs |-> <<>>, query |-> NoQuery,
           rows |-> FALSE, nulls |-> {}]

\* The name information_schema gives, in upper case, to a type.
UdtName(type) == IF type = "BOOLEAN" THEN "BOOL"
                 ELSE IF type = "BIGINT" THEN "INT8" ELSE type

\* The name SQLAlterTable compares with that of the model.
TargetName(udt) == IF udt = "BOOL" THEN "BOOLEAN" ELSE udt

\* Mutant: the default of a key is kept.
StoredKeyDefault(col) ==
    [type |-> UdtName(col.type), default |-> col.default,
     notnull |-> col.notnull, pk |-> col.pk]

\* The column of the database that CREATE TABLE makes of a model's column.
Stored(col) ==
    [type |-> UdtName(col.type),
     default |-> IF col.pk THEN NoDefault ELSE col.default,
     notnull |-> col.notnull, pk |-> col.pk]

\* ADD COLUMN never makes it part of the primary key.
Added(col) == [type |-> UdtName(col.type), default |-> Stored(col).default,
               notnull |-> col.notnull, pk |-> FALSE]

\* Mutant: a change of indexes goes unnoticed.
ColumnsEqualOnly(from, to) == from.cols = to.cols

\* SQLModel.Equal: the kind and the query of a view are not compared.
ModelEqual(from, to) == from.cols = to.cols /\ from.idxs = to.idxs

\* Of the indexes in the database only the columns are compared.
DBIndexes(rel) == [i \in DOMAIN rel.idxs |-> rel.idxs[i].on]

IndexesEqual(to, dbidxs) ==
    dbidxs = [i \in DOMAIN to.idxs |-> to.idxs[i].on]

DBColumns(rel) ==
    [c \in DOMAIN rel.cols |-> [type |-> rel.cols[c].type, notnull |-> rel.cols[c].notnull]]
-----------------------------------------------------------------------------
(***************************************************************************)
(* SQLAlterTable.  last is the model in _config, to the one of the code,   *)
(* info and dbidxs are what was read from the catalog.                     *)
(***************************************************************************)

\* Mutant: the default of the target is taken for known in both cases.
KnownDefault(c, last, to, info) ==
    IF c \in DOMAIN last.cols THEN [last.cols[c] EXCEPT !.default = to.cols[c].default]
    ELSE [type |-> TargetName(info[c].type), default |-> to.cols[c].default,
          notnull |-> info[c].notnull, pk |-> to.cols[c].pk]

\* The column the target is compared with: that of _config, or else that of
\* the table, with the default and the key of the target.
Known(c, last, to, info) ==
    IF c \in DOMAIN last.cols THEN last.cols[c]
    ELSE [type |-> TargetName(info[c].type), default |-> to.cols[c].default,
          notnull |-> info[c].notnull, pk |-> to.cols[c].pk]

Common(last, to, info) == DOMAIN to.cols \cap (DOMAIN last.cols \cup DOMAIN info)

\* The code panics.
KeyChanges(last, to, info) ==
    \E c \in Common(last, to, info) : to.cols[c].pk # Known(c, last, to, info).pk

\* The patches, in the order of PatchTable.Queries.
Patch(last, to, info, dbidxs) ==
    LET common == Common(last, to, info)
        known(c) == Known(c, last, to, info)
        recreate == {i \in DOMAIN to.idxs \cap DOMAIN dbidxs :
                        ~ /\ i \in DOMAIN last.idxs
                          /\ to.idxs[i] = last.idxs[i]
                          /\ to.idxs[i].on = dbidxs[i]}
    IN  [dropIfExists |-> recreate,
         drop |-> DOMAIN dbidxs \ DOMAIN to.idxs,
         fill |-> {c \in common : /\ to.cols[c].notnull /\ ~known(c).notnull
                                  /\ to.cols[c].default # NoDefault},
         add |-> DOMAIN to.cols \ common,
         types |-> {c \in common : to.cols[c].type # known(c).type},
         nullable |-> {c \in common : to.cols[c].notnull # known(c).notnull},
         defaults |-> {c \in common : to.cols[c].default # known(c).default},
         create |-> recreate \cup (DOMAIN to.idxs \ DOMAIN dbidxs)]

Altered(patch) == patch.fill \cup patch.types \cup patch.nullable \cup patch.defaults

NothingToDo(patch) ==
    /\ patch.dropIfExists \cup patch.drop \cup patch.create = {}
    /\ patch.add \cup Altered(patch) = {}

\* What PostgreSQL makes of the queries: one that fails makes all fail.
\* viewed are the columns that views of the table select.
PatchFails(rel, to, patch, viewed) ==
    \/ rel = Absent
    \/ rel.kind # "table" /\ patch.add # {}
    \/ rel.kind = "view" /\ patch.create # {}
    \/ ~(patch.drop \subseteq DOMAIN rel.idxs)
    \/ ~(Altered(patch) \subseteq DOMAIN rel.cols)
    \/ patch.add \cap DOMAIN rel.cols # {}
    \/ patch.types \cap viewed # {}
    \/ \E c \in patch.add : /\ rel.rows /\ to.cols[c].notnull
                            /\ Stored(to.cols[c]).default = NoDefault
    \/ \E c \in patch.nullable : /\ to.cols[c].notnull
                                 /\ c \in rel.nulls \ patch.fill
    \/ \E i \in patch.create :
        \/ to.idxs[i].concurrently
        \/ i \in DOMAIN rel.idxs \ (patch.dropIfExists \cup patch.drop)

\* Mutant: columns that the model no longer has are dropped.
PatchedAndPruned(rel, to, patch) ==
    [rel EXCEPT !.cols = [c \in DOMAIN to.cols |-> Stored(to.cols[c])],
                !.nulls = {}, !.idxs = to.idxs]

AlteredColumn(c, rel, to, patch) ==
    [type |-> IF c \in patch.types THEN UdtName(to.cols[c].type) ELSE rel.cols[c].type,
     default |-> IF c \in patch.defaults THEN Stored(to.cols[c]).default
                 ELSE rel.cols[c].default,
     notnull |-> IF c \in patch.nullable THEN to.cols[c].notnull
                 ELSE rel.cols[c].notnull,
     pk |-> rel.cols[c].pk]

Patched(rel, to, patch) ==
    [kind |-> rel.kind, query |-> rel.query, rows |-> rel.rows,
     cols |-> [c \in DOMAIN rel.cols \cup patch.add |->
                IF c \in patch.add THEN Added(to.cols[c])
                                   ELSE AlteredColumn(c, rel, to, patch)],
     idxs |-> [i \in patch.create \cup
                      (DOMAIN rel.idxs \ (patch.dropIfExists \cup patch.drop)) |->
                IF i \in patch.create THEN to.idxs[i] ELSE rel.idxs[i]],
     nulls |-> (rel.nulls \ patch.fill) \cup
                {c \in patch.add : /\ rel.rows /\ ~to.cols[c].notnull
                                   /\ Stored(to.cols[c]).default = NoDefault}]
-----------------------------------------------------------------------------
\* SQLCreateTableWithColumns.
NewTable(to) ==
    [kind |-> "table", cols |-> [c \in DOMAIN to.cols |-> Stored(to.cols[c])],
     idxs |-> to.idxs, query |-> NoQuery, rows |-> FALSE, nulls |-> {}]

\* SQLCreateView; only a materialized view gets its indexes.
NewView(to) ==
    [kind |-> to.kind, cols |-> <<>>,
     idxs |-> IF to.kind = "materialized" THEN to.idxs ELSE <<>>,
     query |-> to.query, rows |-> FALSE, nulls |-> {}]

NewRelation(to) == IF to.kind = "table" THEN NewTable(to) ELSE NewView(to)

\* base is the relation the query of a view selects from.
CreateFails(to, base) ==
    \/ \E i \in DOMAIN to.idxs : to.kind # "view" /\ to.idxs[i].concurrently
    \/ /\ to.kind # "table"
       /\ \/ base = Absent
          \/ ~(to.query.cols \subseteq DOMAIN base.cols)

\* CREATE OR REPLACE VIEW keeps the columns of a view that is there already.
Creatable(rel, to) ==
    rel # Absent => /\ rel.kind = "view" /\ to.kind = "view"
                    /\ rel.query.cols \subseteq to.query.cols

\* DROP VIEW IF EXISTS fails on a table and on a materialized view.
DropViewFails(rel) == rel # Absent /\ rel.kind # "view"

\* The relation has everything the model asks for.
HasColumns(rel, to) ==
    \A c \in DOMAIN to.cols :
        c \in DOMAIN rel.cols /\ rel.cols[c] = Stored(to.cols[c])

Conforms(rel, to) ==
    /\ rel # Absent
    /\ rel.kind = to.kind
    /\ IF to.kind = "table" THEN HasColumns(rel, to) /\ rel.idxs = to.idxs
                            ELSE rel.query = to.query
=============================================================================
