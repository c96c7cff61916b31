----------------------------- MODULE MCMigration -----------------------------
(***************************************************************************)
(* Instances of Migration for TLC: a table tbl and a view vw of it, in     *)
(* versions that differ as releases of a service do.                       *)
(***************************************************************************)
EXTENDS Migration, TLC

Col(type, default, notnull) ==
    [type |-> type, default |-> default, notnull |-> notnull, pk |-> FALSE]

Id == [type |-> "UUID", default |-> "gen", notnull |-> TRUE, pk |-> TRUE]

Index(on, opts) == [on |-> on, opts |-> opts, concurrently |-> FALSE]

Table(cols, idxs) ==
    [kind |-> "table", cols |-> cols, idxs |-> idxs, query |-> NoQuery]

View(cols) ==
    [kind |-> "view", cols |-> cols, idxs |-> <<>>,
     query |-> [from |-> "tbl", cols |-> DOMAIN cols, where |-> ""]]

\* The second version adds a column and makes one NOT NULL, the third changes
\* a default, a type and an option of the index, and has no view.
Tbl1 == Table("id" :> Id @@ "a" :> Col("BIGINT", NoDefault, FALSE),
              "i" :> Index({"a"}, ""))
Tbl2 == Table("id" :> Id @@ "a" :> Col("BIGINT", "0", TRUE)
                         @@ "x" :> Col("BOOLEAN", "FALSE", TRUE),
              "i" :> Index({"a", "x"}, ""))
Tbl3 == Table("id" :> Id @@ "a" :> Col("BIGINT", "1", TRUE)
                         @@ "x" :> Col("VARCHAR", "FALSE", FALSE),
              "i" :> Index({"a", "x"}, "unique"))

Vw1 == View("id" :> Id)
Vw2 == View("id" :> Id @@ "a" :> Col("BIGINT", "0", TRUE))

WithView == "v1" :> ("tbl" :> Tbl1 @@ "vw" :> Vw1)
            @@ "v2" :> ("tbl" :> Tbl2 @@ "vw" :> Vw2)

\* The view becomes a materialized one with an index.
Vw3 == [View("id" :> Id @@ "x" :> Col("BOOLEAN", "FALSE", TRUE)) EXCEPT
            !.kind = "materialized", !.idxs = "j" :> Index({"id"}, "")]

\* The fourth version changes nothing of the table but an option of its index;
\* the fifth changes the primary key, which Migrate refuses, and the sixth
\* wants an index created concurrently, which PostgreSQL refuses in a
\* transaction.
Releases == WithView
            @@ "v3" :> ("tbl" :> Tbl3)
            @@ "v4" :> ("tbl" :> [Tbl2 EXCEPT !.idxs["i"].opts = "unique"] @@ "vw" :> Vw3)
            @@ "v5" :> ("tbl" :> [Tbl2 EXCEPT !.cols["a"].pk = TRUE])
            @@ "v6" :> ("tbl" :> [Tbl2 EXCEPT !.idxs["i"].concurrently = TRUE])

ASSUME ReleasesAssumption == ReleasesAgree /\ ViewsChangeColumns /\ IndexesOwned
=============================================================================
