------------------------------ MODULE Migrator ------------------------------
(***************************************************************************)
(* Schema migration of one entity's table, and the Repo calls that run it. *)
(*                                                                         *)
(* `mar dev` migrates at boot, before it listens, and again on every hot   *)
(* reload, while requests are being served; a deployed binary has no boot  *)
(* migration: the first Repo call of each process migrates, and several    *)
(* requests may do so at once.  A run reads the live schema, plans every   *)
(* step, then executes and audits the steps one statement at a time.  The  *)
(* database handle has one connection, so a statement is atomic; nothing   *)
(* is held across statements.                                              *)
(***************************************************************************)
EXTENDS Naturals, FiniteSets

CONSTANTS
  Request,     \* requests that call Repo.create, one at a time each
  Booter,      \* the goroutine that compiles, boots and hot-reloads (mar dev)
  NCol,        \* number of columns; a declaration lists them in this order
  Version,     \* versions of the application
  Field,       \* [Version -> [1 .. NCol -> declared column or None]]
  Unique,      \* [Version -> BOOLEAN]: Entity.unique on the value column
  None,
  Value,       \* values of the uniquely indexed column
  Mode,        \* ways to run it: TRUE is mar dev, FALSE the deployed runtime
  AuthEntity,  \* TRUE: the sign-in lookup also touches this table
  MaxRow,      \* bound: rows ever inserted
  MaxDeploy,   \* bound: restarts with another version
  MaxReload,   \* bound: hot reloads (mar dev)
  MaxCrash,    \* bound: crashes of the process
  MaxFaults    \* bound: statements that fail

Column == 1 .. NCol
Type == {"text", "int", "decimal"}

\* sqlTypeForDDL: several declared types share a storage type.
Stored(type) == IF type = "text" THEN "TEXT" ELSE "INTEGER"

Declared == [type : Type, notNull : BOOLEAN, serial : BOOLEAN]

ASSUME MigratorAssumption ==
  /\ NCol \in Nat /\ MaxRow \in Nat /\ MaxDeploy \in Nat /\ MaxReload \in Nat
  /\ MaxCrash \in Nat /\ MaxFaults \in Nat
  /\ None \notin Declared
  /\ Field \in [Version -> [Column -> Declared \cup {None}]]
  /\ Unique \in [Version -> BOOLEAN]
  /\ IsFiniteSet(Request) /\ Booter \notin Request
  /\ Mode \subseteq BOOLEAN /\ AuthEntity \in BOOLEAN

VARIABLES
  dev,        \* which of the two is running
  version,    \* the program being served (or booting)
  listening,  \* the HTTP listener is open
  live,       \* the table: existence, columns, unique index, next serial id
  rows,       \* its rows
  audit,      \* rows of _mar_schema_migrations that report a schema change
  done,       \* migrationCache.done of this table
  proc,       \* what each request, and the booter, is doing
  count,      \* deploys, reloads, crashes and failed statements, for the bounds, and
              \* (observer) schema changes that no audit row will report
  born,       \* observer: rows inserted so far, over all tables of that name
  applied,    \* observer: schema changes made so far
  dropped     \* observer: rows that went with a DROP TABLE

vars == <<dev, version, listening, live, rows, audit, done, proc, count,
          born, applied, dropped>>
schema == <<live, applied>>
data == <<rows, born, dropped>>
server == <<dev, version, listening>>

Runner == Request \cup {Booter}

\* A live column: what PRAGMA table_info shows.
LiveColumn == [type : {"TEXT", "INTEGER"}, notNull : BOOLEAN, pk : BOOLEAN]
ASSUME NoColumn == None \notin LiveColumn

Row == [n : Nat \ {0}, id : Nat, value : Value]

Fresh(f) == [type |-> Stored(f.type), notNull |-> f.notNull \/ f.serial,
             pk |-> f.serial]
Columns(v) == [c \in Column |-> IF Field[v][c] = None THEN None ELSE Fresh(Field[v][c])]
Table == [exists : BOOLEAN, cols : [Column -> LiveColumn \cup {None}], index : BOOLEAN, next : Nat]
NoTable == [exists |-> FALSE, cols |-> [c \in Column |-> None], index |-> FALSE, next |-> 1]

\* A plan has a slot for CREATE TABLE, one for each column in declaration order, and
\* one for the unique index.
Slot == 0 .. NCol + 1
Step == {"none", "create", "add", "recreate", "blocked", "index"}
NoPlan == [i \in Slot |-> "none"]

Pc == {"idle", "lookup", "check", "schema", "rows", "exec", "record", "mark", "insert",
       "readback", "load"}
Response == {"none", "ok", "error", "blocked"}
Proc == [pc : Pc, ver : Version, seen : [Column -> LiveColumn \cup {None}],
         plan : [Slot -> Step], at : Slot, changed : BOOLEAN, id : Nat,
         resp : Response]

Resting(v, resp) == [pc |-> "idle", ver |-> v, seen |-> [c \in Column |-> None],
                     plan |-> NoPlan, at |-> 0, changed |-> FALSE, id |-> 0, resp |-> resp]
Starting(v, step) == [Resting(v, "none") EXCEPT !.pc = step]

Counts == [deploy : Nat, reload : Nat, crash : Nat, fault : Nat, unaudited : Nat]

\* The processes of a boot: in dev the booter migrates first, otherwise nobody does.
Booted(v) == [r \in Runner |-> IF dev /\ r = Booter THEN Starting(v, "schema")
                               ELSE Resting(v, "none")]

Init ==
  /\ dev \in Mode
  /\ version \in Version
  /\ listening = ~dev
  /\ live = NoTable
  /\ rows = {}
  /\ audit = 0
  /\ done = FALSE
  /\ proc = Booted(version)
  /\ count = [deploy |-> 0, reload |-> 0, crash |-> 0, fault |-> 0,
              unaudited |-> 0]
  /\ born = 0 /\ applied = 0
  /\ dropped = {}

At(r, step) == proc[r].pc = step
Goto(r, step) == proc' = [proc EXCEPT ![r] = [@ EXCEPT !.pc = step]]
Reply(r, resp) == proc' = [proc EXCEPT ![r] = Resting(version, resp)]

-----------------------------------------------------------------------------
(* The diff                                                                *)

\* Mutant: a nullability change recreates the table whatever is in it.
StepFor_IgnoresRows(f, l, hasRows) ==
  IF f = None THEN "none"
  ELSE IF l = None
    THEN IF f.serial \/ (f.notNull /\ hasRows) THEN "blocked" ELSE "add"
  ELSE IF l.type # Stored(f.type) \/ l.pk # f.serial THEN "blocked"
  ELSE IF ~f.serial /\ l.notNull # f.notNull THEN "recreate"
  ELSE "none"

\* planAddColumn and assertCompatibleColumn for one declared column f, with l what
\* the live table has under that name.
StepFor(f, l, hasRows) ==
  IF f = None THEN "none"
  ELSE IF l = None
    THEN IF f.serial \/ (f.notNull /\ hasRows) THEN "blocked" ELSE "add"
  ELSE IF l.type # Stored(f.type) \/ l.pk # f.serial THEN "blocked"
  ELSE IF ~f.serial /\ l.notNull # f.notNull
    THEN IF hasRows THEN "blocked" ELSE "recreate"
  ELSE "none"

IndexStep(v) == IF Unique[v] THEN "index" ELSE "none"

\* planEntity of a table that does not exist, and of one that does.
CreatePlan(v) == [i \in Slot |-> IF i = 0 THEN "create"
                                 ELSE IF i = NCol + 1 THEN IndexStep(v) ELSE "none"]
\* Mutant: unique indexes are planned with CREATE TABLE only.
DiffPlan_NoIndex(v, seen, hasRows) ==
  [i \in Slot |-> IF i = 0 \/ i = NCol + 1 THEN "none"
                  ELSE StepFor(Field[v][i], seen[i], hasRows)]

DiffPlan(v, seen, hasRows) ==
  [i \in Slot |-> IF i = 0 THEN "none"
                  ELSE IF i = NCol + 1 THEN IndexStep(v)
                  ELSE StepFor(Field[v][i], seen[i], hasRows)]

\* The table is what version v declares: a diff finds no step for any column.
Fits(cols, v) == \A c \in Column : \A hasRows \in BOOLEAN :
                   StepFor(Field[v][c], cols[c], hasRows) = "none"

-----------------------------------------------------------------------------
(* ensureMigrated and Migrator.Run                                         *)

\* A request that ends in Repo.create reaches the running program.
Begin(r) ==
  /\ r \in Request /\ At(r, "idle")
  /\ listening
  /\ born + Cardinality({q \in Request : ~At(q, "idle")}) < MaxRow
  /\ \E step \in {"check"} \cup (IF AuthEntity THEN {"lookup"} ELSE {}) :
       proc' = [proc EXCEPT ![r] = Starting(version, step)]
  /\ UNCHANGED <<server, schema, data, audit, done, count>>

\* LookupUserID runs CREATE TABLE IF NOT EXISTS, past the migrator, before its SELECT.
BareCreate(r) ==
  /\ At(r, "lookup")
  /\ IF live.exists
       THEN UNCHANGED <<schema, count>>
       ELSE /\ live' = [NoTable EXCEPT !.exists = TRUE, !.cols = Columns(proc[r].ver)]
            /\ applied' = applied + 1
            /\ count' = [count EXCEPT !.unaudited = @ + 1]
  /\ Goto(r, "check")
  /\ UNCHANGED <<server, data, audit, done>>

\* Mutant: the table is marked as migrated before the migration.
CheckCache_MarksFirst(r) ==
  /\ At(r, "check")
  /\ Goto(r, IF done THEN "insert" ELSE "schema")
  /\ done' = TRUE
  /\ UNCHANGED <<server, schema, data, audit, count>>

\* The cache of migrated tables is a map read and written without a lock.
CheckCache(r) ==
  /\ At(r, "check")
  /\ Goto(r, IF done THEN "insert" ELSE "schema")
  /\ UNCHANGED <<server, schema, data, audit, done, count>>

\* planEntity: tableExists and readTableInfo.
ReadSchema(r) ==
  /\ At(r, "schema")
  /\ proc' = [proc EXCEPT ![r] =
       IF live.exists THEN [@ EXCEPT !.pc = "rows", !.seen = live.cols]
       ELSE [@ EXCEPT !.pc = "exec", !.plan = CreatePlan(proc[r].ver), !.at = 0]]
  /\ UNCHANGED <<server, schema, data, audit, done, count>>

\* planEntity: tableHasRows, and the diff that rests on it.
PlanWith(r, hasRows) ==
  proc' = [proc EXCEPT ![r] = [@ EXCEPT !.pc = "exec", !.at = 0,
                                        !.plan = DiffPlan(proc[r].ver, proc[r].seen, hasRows)]]

ReadRows(r) ==
  /\ At(r, "rows")
  /\ PlanWith(r, rows # {})
  /\ UNCHANGED <<server, schema, data, audit, done, count>>

Pending(r) == {i \in Slot : i >= proc[r].at /\ proc[r].plan[i] # "none"}
NextSlot(r) == CHOOSE i \in Pending(r) : \A j \in Pending(r) : i <= j
NextStep(r, step) == At(r, "exec") /\ Pending(r) # {} /\ proc[r].plan[NextSlot(r)] = step

\* The statement of the next step has succeeded; the audit row is next.
Executed(r, change) ==
  /\ proc' = [proc EXCEPT ![r] = [@ EXCEPT !.pc = "record", !.at = NextSlot(r),
                                           !.changed = change]]
  /\ applied' = IF change THEN applied + 1 ELSE applied

\* A migration that ends in an error fails the request, or the boot.
Fail(r, resp) == Reply(r, resp)

\* Mutant: the creation of a table is not recorded.
ExecCreate_Unrecorded(r) ==
  /\ NextStep(r, "create")
  /\ \/ /\ ~live.exists
        /\ live' = [NoTable EXCEPT !.exists = TRUE, !.cols = Columns(proc[r].ver)]
        /\ applied' = applied + 1
        /\ proc' = [proc EXCEPT ![r] = [@ EXCEPT !.plan = [proc[r].plan EXCEPT ![0] = "none"]]]
     \/ live.exists /\ Fail(r, "error") /\ UNCHANGED schema
  /\ UNCHANGED <<server, data, audit, done, count>>

ExecCreate(r) ==
  /\ NextStep(r, "create")
  /\ \/ /\ ~live.exists
        /\ live' = [NoTable EXCEPT !.exists = TRUE, !.cols = Columns(proc[r].ver)]
        /\ Executed(r, TRUE)
     \/ live.exists /\ Fail(r, "error") /\ UNCHANGED schema
  /\ UNCHANGED <<server, data, audit, done, count>>

\* ALTER TABLE ADD COLUMN: not twice, and not NOT NULL over rows.
ExecAdd(r) ==
  /\ NextStep(r, "add")
  /\ LET c == NextSlot(r)
         f == Field[proc[r].ver][c]
         possible == live.cols[c] = None /\ (f.notNull => rows = {})
     IN \/ /\ possible
           /\ live' = [live EXCEPT !.cols = [@ EXCEPT ![c] = Fresh(f)]]
           /\ Executed(r, TRUE)
        \/ ~possible /\ Fail(r, "error") /\ UNCHANGED schema
  /\ UNCHANGED <<server, data, audit, done, count>>

\* BEGIN; DROP TABLE; CREATE TABLE; COMMIT.  The plan's finding that the table is
\* empty is not looked at again; indexes and the AUTOINCREMENT counter go with it.
ExecRecreate(r) ==
  /\ NextStep(r, "recreate")
  /\ live' = [NoTable EXCEPT !.exists = TRUE, !.cols = Columns(proc[r].ver)]
  /\ rows' = {}
  /\ dropped' = dropped \cup rows
  /\ Executed(r, TRUE)
  /\ UNCHANGED <<server, audit, done, count, born>>

\* CREATE UNIQUE INDEX IF NOT EXISTS: fails when two rows share the value.
ExecIndex(r) ==
  /\ NextStep(r, "index")
  /\ LET clash == \E x, y \in rows : x # y /\ x.value = y.value
     IN \/ live.index /\ Executed(r, FALSE) /\ UNCHANGED live
        \/ /\ ~live.index /\ ~clash
           /\ live' = [live EXCEPT !.index = TRUE]
           /\ Executed(r, TRUE)
        \/ ~live.index /\ clash /\ Fail(r, "error") /\ UNCHANGED schema
  /\ UNCHANGED <<server, data, audit, done, count>>

\* Mutant: a blocked boot is logged and the listener opened all the same.
ExecBlocked_Serves(r) ==
  /\ NextStep(r, "blocked")
  /\ Fail(r, "blocked")
  /\ listening' = TRUE
  /\ UNCHANGED <<dev, version, schema, data, audit, done, count>>

\* Mutant: a blocked run is planned again, in case somebody has unblocked it.
ExecBlocked_Retries(r) ==
  /\ NextStep(r, "blocked")
  /\ Goto(r, "schema")
  /\ UNCHANGED <<server, schema, data, audit, done, count>>

ExecBlocked(r) ==
  /\ NextStep(r, "blocked")
  /\ Fail(r, "blocked")
  /\ UNCHANGED <<server, schema, data, audit, done, count>>

\* recordMigration.  It records every executed step; the model counts those that
\* changed the schema.
Record(r) ==
  /\ At(r, "record")
  /\ audit' = IF proc[r].changed THEN audit + 1 ELSE audit
  /\ proc' = [proc EXCEPT ![r] =
       [@ EXCEPT !.pc = "exec", !.changed = FALSE,
                 !.plan = [proc[r].plan EXCEPT ![proc[r].at] = "none"]]]
  /\ UNCHANGED <<server, schema, data, done, count>>

\* Run returns.  A request goes on to remember it; a boot goes on to listen.
RunReturns(r) ==
  /\ At(r, "exec") /\ Pending(r) = {}
  /\ \/ r \in Request /\ Goto(r, "mark") /\ UNCHANGED listening
     \/ r = Booter /\ Reply(r, "ok") /\ listening' = TRUE
  /\ UNCHANGED <<dev, version, schema, data, audit, done, count>>

Mark(r) ==
  /\ At(r, "mark")
  /\ done' = TRUE
  /\ Goto(r, "insert")
  /\ UNCHANGED <<server, schema, data, audit, count>>

-----------------------------------------------------------------------------
(* Repo.create after the migration, and the rest of the world              *)

Declares(v) == {c \in Column : Field[v][c] # None}

\* INSERT names the declared columns.  It fails on a column the table lacks, on a
\* required column the version no longer declares, and on the unique index.
Accepts(v, value) ==
  /\ \A c \in Declares(v) : live.cols[c] # None
  /\ \A c \in Column \ Declares(v) :
       live.cols[c] # None => ~live.cols[c].notNull \/ live.cols[c].pk
  /\ live.index => \A x \in rows : x.value # value

Insert(r, value) ==
  /\ At(r, "insert")
  /\ \/ /\ Accepts(proc[r].ver, value)
        /\ rows' = rows \cup {[n |-> born + 1, id |-> live.next, value |-> value]}
        /\ live' = [live EXCEPT !.next = @ + 1]
        /\ born' = born + 1
        /\ proc' = [proc EXCEPT ![r] = [@ EXCEPT !.pc = "readback", !.id = live.next]]
     \/ /\ ~Accepts(proc[r].ver, value)
        /\ Reply(r, "error")
        /\ UNCHANGED <<live, rows, born>>
  /\ UNCHANGED <<server, applied, dropped, audit, done, count>>

\* SELECT of the declared columns by the id just assigned.
Readback(r) ==
  /\ At(r, "readback")
  /\ LET found == /\ \E x \in rows : x.id = proc[r].id
                  /\ \A c \in Declares(proc[r].ver) : live.cols[c] # None
     IN Reply(r, IF found THEN "ok" ELSE "error")
  /\ UNCHANGED <<server, schema, data, audit, done, count>>

\* Repo.deleteById, by a request that finds the table in the cache.
Delete(x) ==
  /\ listening /\ done
  /\ rows' = rows \ {x}
  /\ UNCHANGED <<server, schema, audit, done, proc, count, born, dropped>>

\* Runners between a schema change and its audit row.
Unaudited == {r \in Runner : At(r, "record") /\ proc[r].changed}

\* A statement returns an error.  The error of tableHasRows is discarded and its zero
\* value used; a failing lookup sends EnsureUser on to Repo.create.
StatementFails(r) ==
  /\ count.fault < MaxFaults
  /\ count' = [count EXCEPT !.fault = @ + 1,
                           !.unaudited = IF r \in Unaudited THEN @ + 1 ELSE @]
  /\ \/ At(r, "lookup") /\ Goto(r, "check")
     \/ At(r, "rows") /\ PlanWith(r, FALSE)
     \/ /\ proc[r].pc \in {"schema", "record", "insert", "readback"}
        /\ Fail(r, "error")
     \/ At(r, "exec") /\ Pending(r) # {} /\ Fail(r, "error")
  /\ UNCHANGED <<server, schema, data, audit, done>>

\* The process starts over, with version v: a crash or a deploy.
Boot(v, cause) ==
  /\ count' = [count EXCEPT ![cause] = @ + 1,
                           !.unaudited = @ + Cardinality(Unaudited)]
  /\ version' = v
  /\ listening' = ~dev
  /\ done' = FALSE
  /\ proc' = Booted(v)
  /\ UNCHANGED <<dev, schema, data, audit>>

\* Any crash; Go also ends the process when it notices that CheckCache and Mark, or
\* two Marks, touch the cache map at the same time.
Crash == count.crash < MaxCrash /\ Boot(version, "crash")
Deploy(v) == count.deploy < MaxDeploy /\ Boot(v, "deploy")

\* A hot reload first clears the cache, while the old program is still served ...
ReloadReset ==
  /\ dev /\ listening /\ At(Booter, "idle")
  /\ count.reload < MaxReload
  /\ count' = [count EXCEPT !.reload = @ + 1]
  /\ done' = FALSE
  /\ Goto(Booter, "load")
  /\ UNCHANGED <<server, schema, data, audit>>

\* Mutant: the migration of a reload uses the entities of the old program.
ReloadSwap_OldEntities(v) ==
  /\ At(Booter, "load")
  /\ version' = v
  /\ proc' = [proc EXCEPT ![Booter] = Starting(version, "schema")]
  /\ UNCHANGED <<dev, listening, schema, data, audit, done, count>>

\* ... then the new program is served, and after that its migration begins.
ReloadSwap(v) ==
  /\ At(Booter, "load")
  /\ version' = v
  /\ proc' = [proc EXCEPT ![Booter] = Starting(v, "schema")]
  /\ UNCHANGED <<dev, listening, schema, data, audit, done, count>>

\* The edited program does not compile.
ReloadFails ==
  /\ At(Booter, "load")
  /\ Reply(Booter, "error")
  /\ UNCHANGED <<server, schema, data, audit, done, count>>

Migrate(r) ==
  \/ ReadSchema(r) \/ ReadRows(r)
  \/ ExecCreate(r) \/ ExecAdd(r) \/ ExecRecreate(r) \/ ExecIndex(r) \/ ExecBlocked(r)
  \/ Record(r) \/ RunReturns(r)

Serve(r) ==
  \/ BareCreate(r) \/ CheckCache(r) \/ Mark(r)
  \/ \E value \in Value : Insert(r, value)
  \/ Readback(r)

Loaded == (\E v \in Version : ReloadSwap(v)) \/ ReloadFails

Next ==
  \/ \E r \in Runner : Begin(r) \/ Serve(r) \/ Migrate(r) \/ StatementFails(r)
  \/ \E x \in rows : Delete(x)
  \/ Crash
  \/ \E v \in Version : Deploy(v)
  \/ ReloadReset \/ Loaded

Spec == Init /\ [][Next]_vars

\* Whatever has started keeps being scheduled.
Continue(r) == Serve(r) \/ Migrate(r)
Fairness == (\A r \in Runner : WF_vars(Continue(r))) /\ WF_vars(Loaded)
FairSpec == Spec /\ Fairness

-----------------------------------------------------------------------------
(* Properties                                                              *)

\* Every variable keeps its shape.
TypeOK ==
  /\ dev \in BOOLEAN /\ version \in Version /\ listening \in BOOLEAN /\ done \in BOOLEAN
  /\ live \in Table
  /\ rows \subseteq Row /\ dropped \subseteq Row
  /\ audit \in Nat /\ born \in Nat /\ applied \in Nat
  /\ proc \in [Runner -> Proc]
  /\ count \in Counts

\* Once a process remembers the table as migrated, and at every INSERT, the table is
\* what the running version declares, whatever other requests are migrating it; as long
\* as the process has not hot-reloaded.
MigratedFits ==
  count.reload = 0 =>
  /\ done => live.exists /\ Fits(live.cols, version)
  /\ \A r \in Request : proc[r].pc \in {"mark", "insert"}
       => live.exists /\ Fits(live.cols, proc[r].ver)

\* docs/migrations.md:52-53: the audit table "records every applied change", once; only
\* those of the sign-in lookup, and one whose process or audit INSERT fails right after
\* it, are missing.
AuditComplete == applied = audit + Cardinality(Unaudited) + count.unaudited

\* "Empty table: drop+recreate is safe and zero-data-loss" (migrate.go:824): no
\* row is dropped with a table, ...
NoRowDropped == dropped = {}
\* ... which is so where the migration precedes the requests and no statement fails.
BootDropsNoRow == dev /\ count.fault = 0 /\ count.reload = 0 => NoRowDropped

\* "The unique index closes that race in the DB" (migrate.go:143): in mar dev, whoever
\* inserts finds the index in place, and no two rows share a value.
IndexBeforeInsert ==
  dev /\ count.reload = 0 => \A r \in Request : At(r, "insert") /\ Unique[proc[r].ver] =>
    live.index /\ \A x, y \in rows : x.value = y.value => x = y

\* "no traffic served against a broken schema" (docs/migrations.md:270): once the
\* listener of mar dev is open, the table is what the version declares.
ServesMigrated == dev /\ listening /\ count.reload = 0 => live.exists /\ Fits(live.cols, version)

\* Between versions that agree on the columns they share, a reload that reports success
\* leaves the table as the new version declares it, even with requests of the old version
\* still running (and migrating) beside it.
ReloadFits ==
  At(Booter, "idle") /\ proc[Booter].resp = "ok" => live.exists /\ Fits(live.cols, version)

\* Every request is answered and every boot ends, in a migrated table or an error.
RunnersFinish == \A r \in Runner : (~At(r, "idle")) ~> At(r, "idle")
=============================================================================
