# Verification of pgparty

pgparty is a Go library between a service and PostgreSQL. A service registers
its models (Go structs, or types that describe themselves) in the stores of its
shards, lets the library migrate each shard's schema to them, and runs queries
that name models and fields; the library rewrites the queries, binds the
arguments and runs everything in transactions that travel in the context.

This directory holds TLA+ models of the parts of the library that keep state or
whose control flow is hard to test, configurations that check them on small
instances with TLC, and proofs that hold for every instance, checked by TLAPS.
All definitions are translated from the code; `PROJECT.json` gives the lines of
each under `map`. Names of the code are kept where TLA+ allows it.

    tlc -config TransactionsSafe.cfg MCTransactions
    tlapm TransactionsProofs.tla

## 1. The system

| part | state | operations | what makes it correct |
| --- | --- | --- | --- |
| Transactions and statements: `pgparty.go`, `shard.go`, `prepare.go`, `replace.go` | the context of a call (a shard, and a copy of its store with the open `*sqlx.Tx`), the connection pool of `sql.DB`, the transactions in PostgreSQL | `WithTx`, `WithTxInShard`, `Shard.WithTx`, `WithBeginTx`, `Prep*`, `Replace` | a call chain has one transaction; all its writes share a fate and the returned error tells which; no connection leaks; nothing runs before `search_path` is set |
| Migrations: `migrate.go`, `migratesql.go`, `migrpatch.go`, `migridx.go`, `migrateschema.go`, `dbconfig.go`, `modelcols/` | the schema, its tables, views and indexes, `_config`, `_migrations` | `Migrate`, its hooks | `_config` describes the tables; a migration that succeeds leaves the structure of the models and loses nothing; instances that migrate at once end |
| Shard registry: `shards.go` | a map under an `RWMutex` | `SetShard`, `ShardByID`, `DeleteShard`, `SelectShard`, `Walk` | a walk sees one registry; calls return |
| Model descriptions: `md.go`, `fd.go`, `structmodeller.go` | a global map under an `RWMutex`; a description is fixed once made | `MD[T].MD`, the lookups of a field by name, column and JSON name | one description per type, since fields are known by pointer; it finds the fields of the struct |
| Query texts: `inbind.go`, `qreplace.go`, `qrepl.go`, `rebind.go` | the text and the arguments on their way through three loops | `In`, `AnalyzeAndReplaceQuery`, `Rebind` | every value and every name arrives where the caller put it |
| Views of rows: `jsonview.go`, `sqlview.go`, `viewerr.go` | a value and a slice of the fields that were given | `SetFilled`, `SetUnfilled`, conversions, JSON, rows | views share no array; what one sends arrives at another |
| Model objects: `modelobject.go`, `modelobjects.go` | values by field; a slice with an index by id, from a `sync.Pool` | `SetValue`, JSON, `RowScan`; `PutObject`, `Reset`, `Close` | the index is true; no slice is in two places |
| Linked list: `list/list.go` | rings of pointers | those of `container/list`, generic | links match, `Len` counts, calls on foreign elements change nothing |
| Cursor walk: `prepare.go` 292-353 | a cursor in a transaction | `PrepSelectCursorWalk` | the walk, its callbacks and their statements are in one transaction; every error ends the walk |
| Value types: `null*.go`, `uuid*.go`, `xid*.go`, `time.go`, `decimal.go`, `jsonb.go`, `fd.go`, ... | a value, the flag `Valid`, for `JsonB` a pointer into the program | `Scan`, `Value`, JSON, `ConvertFrom` | what one variable stores or sends arrives at another; a failed call shows nothing new |
| Query engine: `mdquery.go` | a list of results and a flag | `ResponseList` | one query, one answer |
| Registration: `store.go`, `md.go`, `qrepl.go` | `modelDescriptions`, `queryReplacers` of a store | `Register` | done before any use: the maps have no lock |
| Tags and columns: `mdflds.go`, `tags.go`, `snake.go`, `sqltyps.go`, `model.go`, `modelvaluer.go` | none | reflection over tags | names and types of columns |
| CRUD queries: `crud/` | none | parses HTTP parameters, builds SQL | filters mean what they say |
| Others: `initdb.go`, `storeq.go`, `errors.go`, `logq.go`, `simpleprotocol.go`, `bufpool.go`, `collections.go`, `uniqadd.go`, `jsonobjbuild.go`, `utils/` | flags in contexts, helpers | | |

How they interact. `WithTxInShard` and every statement that names another shard
look the shard up in the registry, whose read lock a `Walk` holds for as long as
its callback runs. `WithBeginTx` takes a connection of the pool of the shard's
`sql.DB` (several shards may be schemas of one database and share the pool) and
puts the transaction into a copy of the store; only the context carries it on.
`Prep*` statements run the text through `In`, `AnalyzeAndReplaceQuery` and
`Rebind` and begin a transaction when the store copy has none. `Migrate` is one
transaction over DDL and rows of `_config`; other instances of the service and
writers meet it in PostgreSQL's locks. Queries scan rows into views and objects,
whose fields are those of the description that `MD` keeps.

What is hard: call chains that nest transactions; failures, panics, cancellation
and lost answers at any point after `BEGIN`; several goroutines on a small pool;
several instances that migrate at once, in the random order of a Go map; loops
that number the same placeholders by different rules; slices that share arrays;
locks around callbacks; values that pass through a dozen conversions which each
have their own idea of NULL, empty and broken. `hazards` in `PROJECT.json` lists them with the line
where each bites and the property that watches it.

## 2. Modules

| module | models | kind |
| --- | --- | --- |
| `Transactions` | transactions, statements, `Replace`, cursor walks, pool, cancellation | detailed |
| `AtomicCalls` | what callers of the transactional interface are promised | abstract |
| `SchemaDiff` | the difference of two models and what its DDL does, as operators | functions |
| `Migration` | `Migrate` in several instances over `SchemaDiff` | detailed |
| `RWMutex` | `sync.RWMutex`: writers queue, and hold back new readers | external |
| `MdRepo`, `Shards` | the two maps behind an `RWMutex` | detailed |
| `Structs` | what a description knows of a struct, as operators | functions |
| `Queries` | the three loops over a text | detailed |
| `QueryMeaning` | what the text means, said at once for the whole of it | reference |
| `Views`, `ViewSets` | views on slices; views as a value and a set | detailed, abstract |
| `Objects`, `ObjectSets` | objects and indexed slices; sets of rows by id | detailed, abstract |
| `List`, `ListContents` | rings of pointers; sequences | detailed, abstract |
| `ValueTypes` | what each value type does with what comes in, as a table | functions |
| `Values`, `ValueCopies` | two variables, a column and a text; values that arrive | detailed, abstract |
| `MC*` | the instances of the runs; `MCContainers` has one of `List` and one of `Objects` | |
| `*Proofs` | theorems and their proofs | |

`Migration` EXTENDS `SchemaDiff`; `MdRepo` and `Shards` EXTEND `RWMutex`, and
`MdRepo` also `Structs`; `Values` EXTENDS `ValueTypes`. `Transactions`, `Views`,
`Objects`, `List` and `Values` each have an `INSTANCE ... WITH`
of their abstract module, whose `Spec` is a property of a run.

## 3. How the modules correspond to the code

**Transactions.** `stack[p]` is the call chain of goroutine `p`: one frame for
each `WithTx`, statement or `Replace` that has not returned, with the shard and
the transaction of the context its code got; `own` marks the `WithBeginTx` that
began the transaction. `pc[p]` is where the innermost frame stands: in
`BeginTxx` (`acquire`), in `set_config` (`path`), in the closure (`run`), or
behind it with what the closure returned. `conn` is the pool, `status`, `path`
and `dirty` the transactions in PostgreSQL; `kept` and `lost` record what became
of the writes of a call. `Call*` are the entries, `Acquire` to `Rollback` the
steps of `WithBeginTx`; its deferred function is one action for each way the
closure ended. `Replace` is modelled as written: its `PrepExec` runs on the
store it was called on. `Cancel` dooms the transactions begun under a context
and `RollbackDoomed` is the goroutine of `database/sql` that ends them. A cursor
walk is a statement that stays: `CallCursorWalk` and `DeclareCursor` open a
cursor in the transaction (`cursors`), `FetchRows` hands a batch to the callback,
which may call anything in that transaction, `FetchNothing` ends the walk and
`WalkFails` is any error on the way. Outside a transaction it is refused, but
only after its arguments and its query went through `In` and `PrepareQuery`,
where no `recover` is set: a panic there leaves the call (`RefuseCursorWalk`).
A statement that wrote may still fail, or panic, while its rows are scanned
(`RunStatement`). The code never closes a cursor, so a second
walk of its name before the transaction ends fails and aborts it. Two constants
widen the environment: `Features[p]` are the things goroutine `p` may do ("walk"
cursors, have "writes" that leave something behind; and begin transactions
inside transactions, by a "detached" `Shard.WithTx` or by "replaceOutside"),
`Faults` is what can fail.

**Migration.** `SchemaDiff` is `SQLAlterTable` and the patches, as operators on
models and relations: `Patch` is what it decides, `Patched` what PostgreSQL
makes of the queries, `PatchFails` when it refuses them. `Migration` runs them:
`Start` to `Commit` are the statements of one `Migrate`, model by model in any
order (`EnsureModelSchema`, `ReadIndexes`, `LoadConfig`, `ReadColumns`,
`CreateModel` / `DropView` / `AlterTable`, `SaveConfig`, `EnsureMigrations`, the
hook). A statement sees what is committed and what its own transaction did
(`RelSeen`, `ConfSeen`), and waits for relations, rows and schemas that another
transaction changed (`lock`); `DeadlockVictim` is PostgreSQL breaking a circle.
Writers insert rows with NULLs, an administrator makes and drops indexes.

**MdRepo, Shards.** The actions are the steps between lock operations; a writer
that waits holds back new readers, as Go's `RWMutex` does. Descriptions and
stores are numbered as they are made, so that two of them differ. A `Walk` keeps
its read lock while callbacks run, which may call the registry again. The
repository of descriptions is keyed by the name of a type without its package
(`TypeName`), and a description is made of a struct (`Programs`), whose fields
and those of its embedded structs `Structs` enters into the three lookups of
`ModelDesc`; reflection finds the field of a name by its own rule (`FieldByName`).

**Queries.** A text is a sequence of tokens, one kind for everything a stage
treats in its own way; `todo` is what the loop has ahead, `done` what it wrote.
Each action is one turn of a loop. `meta`, `flat` and `arg` are the variables of
`In`, `j` that of `Rebind`, `rpls` the replacements that
`AnalyzeAndReplaceQuery` collects. `QueryMeaning` says what the text should
become without any of this, by positions in the text. `$0` and a `$` without a number
panic in `In` (`InPanics`).

**Views, Objects.** Slices are a length and a backing array `mem[a]`; `append`
writes in place or takes a new array of any size, and arrays no slice has are
collected. A JSON text or a row is a sequence of keys with values, where a value
may be of a wrong type and a key unknown; reading stops where json-iterator
loses its place. In `Objects` the program fills one object in hand and puts it
into sets whose slices come from one `sync.Pool`, which may forget them. Of the
setters, `SetValue` converts or refuses, and `SetValueByName` stores whatever it
is given; `MarshalJSON` is a set of texts, which is empty where it panics (on nil
in a field with `omitempty`).

**List.** `next`, `prev`, `list`, `len` are the fields; the root of a list is
the list itself. A call is one action, except the loops of `PushBackList` and
`PushFrontList`, which run turn by turn. `call` remembers the last call, so that
`ListContents` can tell what it should have done.

**Values.** `ValueTypes` is a table with a row for each value type of the
package: what `Scan` and `UnmarshalJSON` make of a variable for NULL, an empty
text, a broken text, a Go type they do not know and a good value; which values
`Value` and `MarshalJSON` turn into NULL; which form of an id a type writes and
which it reads; and what `ConvertFrom` takes. An outcome is a new value, the new
`Valid` and whether there is an error, so that "keeps the old value",
"becomes zero" and "is `Valid` although it failed" are told apart. A document
may have a field of a wrong type (`ReadInPart`): a `JsonB` on a struct of the
program takes the other fields and returns an error. `Values`
applies the table to two variables of any two types of one family, which store,
load, send, read and convert; a text may be replaced by a client, and a
`JsonB` variable points to a struct of the program. Values are names ("zero",
"a", "milli", ...), as few as the types of a family tell apart.

## 4. Runs

| run | instance | distinct states | question |
| --- | --- | --- | --- |
| `tx_safe` | 2 goroutines that write and walk cursors, 2 shards that share a pool of 2 connections, 3 transactions, depth 2, all faults but a lost answer | 704,521 | chains, connections, search paths and fates stay consistent; `AtomicCalls` is implemented |
| `tx_nested` | one goroutine nests transactions, the other walks cursors, 2 shards with a pool of 1 connection each, depth 2, failing statements, lost answers | 28,291 | nothing leaks and every call returns, also for programs that nest transactions |
| `tx_replace` | 1 goroutine, `Replace` without a transaction | finding | `OneTxPerChain` is violated |
| `mig` | 2 instances of one version at a time, a table and a view of it, 6 releases of which PostgreSQL or the code refuse some, an index made by hand, rows, all faults | 166,447 | `_config` is true, the structure becomes current, nothing is lost, every migration ends |
| `mig_fresh` | 1 instance, an empty database, a table and a view | finding | `NeverRefused` is violated |
| `mdrepo` | 2 goroutines, 3 types, two of one name, one that asks inside, and any two fields of some fifty kinds | 130,204 | one description per name, which finds the fields of its struct; every call returns |
| `shards` | 2 goroutines, 2 ids, 4 stores, callbacks that look up, set and delete | 27,892 | a walk sees one registry; unless a callback uses it, one goroutine can go on and calls return |
| `queries` | all texts of 3 placeholder tokens with all lists of 2 arguments (slices up to 2), all texts of 4 mentions of 2 models and an unknown one | 310,873 | values and names arrive in place, refusals have a reason |
| `views` | 1 `JsonView`, 1 `SQLView`, 3 fields with different tags, 3 arrays of 3 | 86,920 | views stay apart, hold what was given, and what one sends arrives |
| `containers` | 2 lists of up to 4 elements with 2 values; or 2 sets, 3 arrays of up to 2 rows, 1 object, 2 layouts, 2 texts, 2 rows in both sets together | 88,062 | links match, walks are complete, every call does what its comment says; rows get into their fields, the index is true, no slice is in two places |
| `values` | 2 variables of any two types of one family, 32 types | 82,134 | what is stored and sent comes back, failures are contained, `ValueCopies` is implemented |
| `values_empty` | 2 variables, one of an id type | finding | `EmptyIdIsNull` is violated |

Why the bounds are enough. *Transactions*: the hazards take a chain of two
frames, a second goroutine and a pool both compete for; a third identity lets a
transaction be begun while two doomed ones still wait for their rollback. The
second instance has no writes, since liveness does not look at them; lost
answers with writes are covered by the theorem (section 6).
*Migrations*: the difference is computed per column and per index, and two
instances give every order of two transactions; the releases change each
attribute of a column and of an index, in both directions, add one and drop one,
change the kind of the view, and two of them are refused.
*MdRepo*: two goroutines race for the write lock with types of one name; the
instance with three goroutines and one struct has 181,698 states and was checked
by hand, and the safety properties of the lock are proved for any number. Two
fields are enough for a clash of names, columns or JSON keys at any depth.
*Shards*: a walk, a call in its callback and a writer between them. *Queries*:
every pair of marks in every order with a slice before or after, and one more.
*Views*: one view of each kind gives every conversion; a third array is there
when two are taken, so growing and copying are possible. *Containers*: `List`
and `Objects` share no state, and a behaviour of the run uses one of them, which
is all that either can show. The moves of an element next to itself, to a
neighbour and over one take three elements; copying a list into itself takes two
and two copies. Two sets have two rows together (`MaxRows`): a slice is left by
one set and taken by the other, grown and given back. *Values*: two
variables give every ordered pair of types; for more there are the theorems.

An invariant that a theorem gives for every instance is not run again where the
run is large: `Inv` of `Transactions`, `MdRepo` and `Shards`, `ObjectsTypeOK` of
`Objects`, `TypeOK` of `Views`.

Symmetry is used where no property is a liveness property and the values are
only compared: identities, goroutines, shards and connections in `tx_safe`,
arrays in `views`, lists and the values of their
elements in `containers`, the variables in the two runs of `Values`. A VIEW
leaves out the last call, on which no action depends, in `containers` and
`values`; that of `containers` also counts sets and arrays by what they have,
not by their names. Deadlock is checked except in `queries` (a call ends), `mdrepo`
(a model that asks for a description while its own is made waits for ever),
`shards` and `tx_nested` (in which goroutines may wait for each other for ever:
that is what their liveness properties leave out).

Each property of a passing run has a mutant in `PROJECT.json`: a plausible error
in one definition (a guard dropped, a reset forgotten, an index off by one) that
makes the run fail. They stand in the modules before the definition they vary,
with a comment that starts with "Mutant".

## 5. Fairness

- `Transactions`: the code of the store runs on (`WF StoreStep`); `BeginTxx`
  waits in the queue of `database/sql`, which serves it if connections come free
  again and again (`SF Acquire`); at each depth the code of the user returns,
  whatever calls it makes before, and the rows of a cursor end (`SF` of
  `ReturnFromCallback` or `FetchNothing`); `database/sql` rolls a cancelled
  transaction back (`WF RollbackDoomed`). Under these, `EveryCallReturns` says:
  if no goroutine ever waits for a connection while it holds one, every call
  returns. The condition is `NoHoldAndWait`, which is proved for well-behaved
  programs; for others, one connection per pool is enough to block for ever.
- `MdRepo`, `Shards`: `SF Step`, since a Go mutex hands itself to a waiter that
  starved; callbacks return. `Shards!EveryCallReturns` leaves out behaviours in
  which a callback calls the registry: these can block, and no text of the
  repository says otherwise. `MdRepo!EveryCallReturns` leaves out models that
  ask for a description inside.
- `Migration`: `SF Step`, since PostgreSQL grants locks in the order they were
  asked for and detects deadlocks. `EveryMigrationEnds`: each instance is off
  again and again, whatever is refused, fails or waits for a lock.
- The other modules are checked for safety only.

## 6. What is proved

All proofs are checked by TLAPS without assumptions other than the named ones on
the constants, which TLC evaluates in the runs.

- `TransactionsProofs`, for any goroutines, shards, pools, depth and faults.
  `TypesHold` and `SearchPathSetHolds`: for every program, whatever it nests.
  (The one panic that leaves an outermost call in the model, that of a cursor
  walk outside a transaction, leaves no write: `ResultTellsFateHolds`.)
  `InvHolds`, `OneTxPerChainHolds`, `NoHoldAndWaitHolds`, `AllOrNothingHolds`,
  `ResultTellsFateHolds`, `NoLeakHolds` and `AtomicCallsImplemented`: for
  programs that begin no transaction inside another (`WellBehaved`: each
  `Features[p]` is within "walk" and "writes"), so also for those whose cursor
  callbacks call on. None of these is inductive. The invariant is
  `Inv == ChainInv /\ HolderInv /\ FateInv`: all frames of a chain run in one
  transaction, which the outermost began (`ChainInv`); chains share no
  transaction, and a live one has one connection and a holder or is doomed
  (`HolderInv`); undecided writes are in the live transaction of their call, or
  in a doomed one after the call has failed (`FateInv`). The last clause is what
  makes it inductive: a call can return while `database/sql` has not yet rolled
  back. `SearchPathSetHolds` has its own (`PathInv`): the live transaction
  of a frame has its search path, unless the frame is the innermost one and has
  not come to its closure. `AtomicCallsImplemented` needs besides that undecided
  writes in a transaction are those of one call, that no other call holds the
  transaction, and that the call has them in no other one (`SoleInv`).
- `MigrationProofs`. `AlterTableIsEnough`: for any models and any table, the
  patches leave each column as `CREATE TABLE` would have made it, if the table
  has what `_config` records, the primary key does not change, no primary key is
  added, and a column that `_config` has forgotten comes back with the default
  it had. `NothingIsLostHolds`: for any releases, instances, mix of versions and
  faults. `ConfigTrueHolds` and `TypesHold`: while one version migrates at a time
  (`~Rolling`) and the releases agree (`ReleasesAgree`): a table stays a table,
  since `_config` does not record the kind in a way that `SQLModel.Equal` looks
  at; a key column stays in the model, since `ADD COLUMN` makes no key; a column
  that comes back has the default it had, since `SQLAlterTable` compares it with
  a predecessor that has the default of the target (`migratesql.go:280`).
  `StructureIsCurrentHolds` takes besides that a view whose query or kind changes
  has other columns (`ViewsChangeColumns`: `Equal` compares nothing else) and
  that an administrator does not use the names of the models' indexes
  (`IndexesOwned`). Each hypothesis is needed: without it the code does what
  section 7 tells. TLC evaluates all of them for the releases of the runs.
  The invariant has four layers, each proved from those before: `Base0` (who
  holds which lock, where each migrator stands, that a relation a transaction
  has changed is at least what is committed), `Truth` (all migrators are of one
  version, every column a table has had is known with its default to the
  releases, `_config` describes the tables, and what a migrator has read is
  still so when it uses it, or it will wait and fail), `Unended` and `Currency`
  (indexes and views too are as `_config` says, and what a migrator has behind
  it conforms to its models).
- `MdRepoProofs`. `InvHolds`, `OneDescriptionHolds`: each description handed out
  is the one in the repository (`FromRepo`), which takes that the writer and the
  readers of the lock are known from where the goroutines stand.
  `DescriptionFitsHolds`: a description is of a type of its name whose fields have
  different names (`MakerKnown`), for others return an error; where each lookup
  leads follows from the entry that was made last (`IndexedLast`), and that
  reflection finds the same field from the positions in the struct that
  `Structs` keeps with the fields (`FoundByReflect`). `SomeoneCanGoOnHolds`: of
  the goroutines in `MD()` one can go on, until a model asks inside.
- `ShardsValuesProofs`, first part: `Shards`. `InvHolds`, `WalkIsASnapshotHolds`:
  the read locks of a goroutine are one for its walk and one for its call, so no
  writer can be inside while a walk is on. `SomeoneCanGoOnHolds`: a goroutine
  that waits for the lock waits for a writer, and that one waits for readers
  that do not wait, since they came before it and their callbacks keep off the
  registry. This is what `EveryCallReturns` asks of the states.
- The same module, second part: `Values` (two components share a module of
  proofs, nothing else), for any number of variables. `StoredValuesComeBack`,
  `SentValuesComeBack`, `FailuresAreContained` (but for a `Text` and for the
  variables on a struct that was read into, which may be filled in part) and
  `ValuesAreCopies`, the refinement of `ValueCopies`, whose `Pass` lets the deaf
  types keep what they had on NULL or an empty text: that this is not what the
  comments say is the finding of `values_empty`. `ValuesInvHolds` has what they need, in two
  halves. Of the variables: two that point to one struct hold one value
  (`Shared`), so that a reading into it changes both or neither; a value under a
  reset flag is zero in every type in which a reading may set the flag without a
  value, and in the others while the variable is safe (`NullIsZero`), so that a
  conversion that does not look at the flag shows zero and nothing older. Of
  what is carried: it is a value of the family and fits the way it travels
  (`Traveller`), and it says what its sender meant (`Faithful`). The table is read row by row once,
  in `TableLaw`: what each outcome of `Scan` and `UnmarshalJSON` may be in a
  type of its kind (`ScanLaw`, `JsonLaw`), with the exceptions by name (`Text`,
  `XIDJsonTyped`, the deaf types). What follows uses these laws, not the rows
  (but the family of the four text types, for conversions), so a type that
  keeps to them needs one more step of `TableLaw` and nothing else. The step of
  the refinement that is not a renaming is a reading without an error: it
  passes over what came in, goes into a struct of the program, or brings what
  is in transit (`ReadCopies`).
- `QueriesProofs`. `TypeHolds`, `EveryNumberIsSetHolds`: past `In`, the text of
  a call with slices is a sequence of tokens without placeholders whose numbers
  have values (`TextIsSettled`), and the later stages keep it so.
  `RefusedForAReasonHolds`, in both directions. A refusal: in the second loop
  `In` knows how many arguments the placeholders behind it have taken, and has
  the rest of the query ahead (`InCounts`); the reasons themselves are facts of
  the request, which no step changes (`OnlyForAReason`, `ReasonsStay`). A
  statement that runs: by the layout of the text, below, each placeholder behind
  the loop took an argument that was there and not empty (`TakenWerePassed`).
  `LayoutHolds`, `ValuesInPlaceHolds`, `NamesResolvedHolds`: at every turn of every
  loop each token of the query has become what it should so far, at the place
  that the sum of the widths of those before it gives (`Layout`). In `In` a
  placeholder is as wide as its argument and a comment one token, behind the scan
  a comment is nothing, and the other loops write one token for one. The
  invariant also says what the row of values holds and where (`RowsApart`,
  `RowFilled`), that the replacements are those of the mentions behind the scan,
  the first of several (`Collected`), and that `Rebind` has numbered as many
  placeholders as are behind it. It speaks of the text as the code finds it, also
  with the marks that `In` takes for placeholders by mistake; `ValuesInPlace`
  follows for texts without them, since then the widths are those the text means
  (`WidthsMeant`). Sums of widths are numbers of pairs (`Total`), which steps by
  the laws of finite sets, without recursion.
- `ViewsProofs`. `InvHolds`: no two views share an array, none holds a nil
  pointer. The lemma `OneView` says what a step that changes one view must
  leave; each action is an instance of it. `ViewSetsImplemented`: the views on
  slices implement views as a value and a set of fields. The lemma
  `ContentStep` turns a step of one view into a change of its abstract content,
  and `AbstractCall` finds the abstract action; reading a row needs besides that
  the ascending positions of the known columns are all of them
  (`AscendingOnto`). `TypesHold`: with both, the types of the two variables.
  `WhatIsSentArrivesHolds`: a text or a row that a view writes carries its given
  fields, each once and with its value (`Carries`), so the reader comes to all
  of them, and none is unknown to it.
- `ObjectsProofs`. `InvHolds`, `TypeCorrect`: the index leads to the row of the
  id, and a slice is in one set or in the pool, by the lemma `OneSet`.
  `ObjectSetsImplemented`: the slices, the index and the pool implement sets of
  rows by id. Since the invariant holds before and after a step, the memory that
  a call wrote is what the sets show (`ContentStep`); that `PutObject` puts one
  row in the right place is the truth of the index. `SentArrives`: by what
  `Restrict` leaves out, if every value is of the type of its field or nil; a
  value of another type, stored by name, does not arrive and gives no field
  what was not its own, and of an object whose `MarshalJSON` panics only what
  `Value` sends is claimed. `RowInPlaceHolds`: columns that are kept are those of
  the current result (`ColumnsKept`).
- `ListProofs`, for any number of lists and elements. `InvHolds`: links match in
  both directions and stay in the list, and `Len` is the number of elements. For
  the walk this is not enough: two rings could share a list. The invariant adds
  that every set of nodes of a list that holds the root and with each node its
  next is the whole list (`Connected`), which speaks of no path and is kept by
  each of the four ways to rewire a ring. `WalkIsCompleteHolds` follows from it:
  the path from the root meets no node twice before it is back (else the links
  back would differ), and what it meets is closed under next. Where induction is
  needed it is on the least natural number without a property (`LeastNatural`,
  from the well-foundedness of `<`), and the function that `Walk` chooses exists
  because one exists on every `0..k` (`StepsExist`).
  `ListContentsImplemented`: each call changes the walk as `ListContents` says.
  A sequence is the walk of a ring if the links lead through it and back
  (`Chain`); inserting a node, removing one and moving one keep that for the
  sequence with `InsertAt`, `RemoveAt` and both (`InsertWalks`, `RemoveWalks`,
  `RelinkWalks`). The loops of `PushBackList` and `PushFrontList` need an
  invariant of their own (`CopiesKnown`): the copies made so far are the end of
  the list where they are put, have the values of the first or last elements of
  the source, and the loop is at the element after these.

Only model-checked: the liveness properties (`EveryCallReturns` in three modules,
`EveryMigrationEnds`), which are out of the prover's reach: they need `ENABLED`.
For the two locks and for the pools, that nobody waits for one who waits for him
is proved (`NoHoldAndWaitHolds`, and `SomeoneCanGoOnHolds` twice); that fairness
then leads on is what the runs check. What the operators of `ValueTypes` leave
to the packages below (the parsing of a text) is in neither.

## 7. What the checks found

Three runs end with a violation of what the repository says:

- `tx_replace`: `PgStore.Replace` (`replace.go:105`) calls `sr.PrepExec` where
  the closure's store is `srx`. Outside a transaction it begins a second one on
  a second connection while the first is open; `pgparty.go:85` says that a call
  inside a transaction runs inside it. On a pool of one it never returns.
- `mig_fresh`: `Migrate` (`migrate.go:23`) takes the models in the random order
  of a map, so on an empty database `CREATE VIEW` may come before its table;
  `README.md:47` of the repository promises a migration "at any time".
- `values_empty`: an id keeps the value it had when an empty text is scanned,
  without an error (`uuid.go:60`, and likewise `uuid.go:74`, `typeduuid.go` and
  `xid.go`), where the comments at `uuid.go:58` and `uuid.go:72`,
  `typeduuid.go:77` and `:86`, `xid.go:78` and `:87` say that a null id is
  returned: a variable used for row after row shows the id of an earlier row.

Behaviours met while modelling for which no text of the repository decides what
is right; the models contain them where a module covers the code, and the
properties say what they leave out:

- Transactions: `Shard.WithTx` in a callback begins a transaction of its own.
  `AfterCommit` of a migration runs although the caller's transaction goes on.
- Migrations: instances of two versions at once can leave a row of `_config`
  that is not true (the constant `Rolling`); a release that changes only the
  query or the kind of a view finds nothing to do; a materialized view cannot be
  altered, `DROP VIEW` fails on it.
- Queries: with slices, `In` takes the `?` of `?|` and of a comment for a
  placeholder, and refuses an escaped `??` or a `$n` behind the last placeholder
  although every argument was passed; `S.&M` and `&CURRSCHEMA.&M` are never
  resolved; with slices, `$0` and a `$` without a number panic, and in a cursor
  walk outside a transaction nothing recovers (`prepare.go:309`); an error of
  `Value()` is dropped and the argument sent as NULL (`inbind.go:40`); `--` starts a comment also inside
  `a--b`.
- Cursor walks: the arguments go to `FETCH` and not to `DECLARE`, so a walk with
  arguments always fails; a batch size below one returns no rows; the batches
  are one slice, so a callback must not keep one; the cursor stays open until
  the transaction ends, and a second walk of its name aborts it.
- Views: for a `StructModel[T]` every access to a field panics, because
  `FieldByName` looks in the wrapper; `SetFullFilled` leaves the view without
  fields; the text null leaves a view without its description, and `SetFilled`
  on it panics; a JSON key that is no field ends the reading of the text without
  an error; a text that names a key twice gives a column twice; a `JsonViewErr`
  is sent as an `_err` text and read back as an empty view.
- Objects: an object that was put still shares its values with the set, and
  `Objects()` its slice; `PutObject` after `Close` panics; after `Clear` or
  `SetValue(nil)`, `MarshalJSON` panics on a field with `omitempty`
  (`modelobject.go:167`); `SetValueByName` stores what is not of the field's
  type, where `SetValue` and `SetFieldID` refuse it; the next result set of a
  scanner keeps the columns of the first; `a.id` and `b.id` are one field.
- Lists: elements of a list that `Init` cleared still name it, and `Remove`
  believes them.
- Descriptions: the repository is keyed by the name of a type without its
  package, so that of two types of one name the first decides; `Init` speaks of
  columns that are not unique (`md.go`) but compares names of fields, and of two
  fields of one column the last wins; a field with `json:"-"` is entered under
  its Go name and can displace one that has this JSON name, while one with
  `json:"-,"` has the empty JSON name, under which it is read and never sent; fields of embedded
  structs that are not exported are left out, but reflection finds them; an
  embedded pointer to a struct and a field of type `*FD` panic; an `FD` field is
  NOT NULL unless its tag says nullable; the column of a slice type is that of
  its elements (`fd.go:56`), so a `StringArray` becomes VARCHAR, and the branch
  for BYTEA is never taken; zeroing a skipped field of a slice or pointer type
  panics (`jsonview.go:197`, `jsonview.go:297`).
- Value types: `Text.Scan` always returns an error (`text.go:33`).
  `XIDJsonTyped` has neither `Scan` nor `Value`. Ids keep the old id also when
  NULL is read, of which the comments say nothing, and arrays pass over what is
  no `[]byte` without an error. A `JsonB` that points to a struct is filled,
  where the comment at `jsonb.go:17` has it replaced, in part and with an error
  if a field has a wrong type (`jsonb.go:48`, `jsonb.go:72`), and `ConvertFrom`
  shares the struct. The value that a `NullTime` had
  before NULL comes back through `Time.ConvertFrom`. The null types of
  `database/sql` are valid after a `Scan` that failed. `ConvertFrom` makes JSON
  with its quotes of a `String`, refuses a `Bool` for a `Bool`, and makes the
  empty text of NULL between different null types. `UUIDJsonTyped` and
  `XIDJsonTyped` write into the bytes of the caller. A nil `XID` is stored as
  NULL, which a NOT NULL column refuses; `xid_test.go:65` expects CHAR(20) where
  the code says VARCHAR(20).
- Others: `Register` writes its maps without a lock; an error in
  `NewModelDescription` keeps nothing, so that the next caller tries again; a
  `ModelObject` cannot scan NULL into a pointer; `ResponseList` sets its flag
  before its results, so that the call after one that panicked gets an empty
  answer, and with `sql.ErrNoRows` it closes rows that are nil; in `crud`,
  `parseCondition` yields no conditions for the fields, `$and` drops the keys
  beside it, `Query` drops the filter when there is a search, and nothing calls
  `validate`.

## 8. What is not modelled

The query engine, one flag and one list in a value that no text of the
repository shares between goroutines. `crud/`, `utils/` and the other helpers,
which are pure conversions without state; of the value types, the arithmetic of
`Decimal`, the parsing and formatting of texts, and `ConvertFrom` from the basic
types of Go; of descriptions, keys, indexes and column types, which `Migration`
gets as the columns of a release, and embedded models with `Fields()` of their
own. Of the arguments of a query, a pointer to a slice, on which `In` panics
(`inbind.go:55`); of views, errors of the JSON encoder (`jsonview.go:154`,
`jsonview.go:234`), which send nothing. `Register` writes two maps before any use. `initdb.go` opens the pool,
whose size is a constant here. `PgStore.Begin`, `Commit`, `Rollback`, `Start`,
`CheckStarted`, `Stop` and `DbConfig.LoadAll` are called by nothing. Inside
`Migrate`, the parsing of tags and the text of queries; inside
`AnalyzeAndReplaceQuery`, the splitting of a text into words; of a cursor walk,
what the batches hold. `components` in `PROJECT.json` has the list.

Some programs and texts are in the models but left out by a property, because
no text of the repository says what is right for them or because section 7 says
what happens: transactions that are begun inside others (in
`OneTxPerChain` and what follows from it); instances of two versions at once;
releases that bring a column back with another default, or change only the
query of a view; models that ask for a description while theirs is made, and two
types of one name with different fields; callbacks of a `Walk` that use the
registry; in texts with slices, the operators and comments that `In` takes for
placeholders, and the `??` and `$n` behind the last argument; the elements of a
cleared list; the fields that a view has of the texts null and `[]`. Where `hazards`
lists one of these without a property, it has
a note there. Mentions with a schema are in
the model too, and `NamesResolved` leaves out the texts that have one.

## 9. Plan

Order: transactions first, since everything runs in them and their failures are
the hardest to test; migrations, which change data for good; the two locked
maps; query texts; the data structures on slices and pointers; cursor walks;
what descriptions know of a struct; the conversions of values. This part is
done.

Every safety property, every action property and every refinement that the runs
check is a theorem too; the liveness properties stay with TLC (section 6).
