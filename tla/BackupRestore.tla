--------------------------- MODULE BackupRestore ---------------------------
(***************************************************************************)
(* The SQLite file of an application, the server that writes to it, the    *)
(* automatic backups the server takes into a catalog directory beside it,  *)
(* and the `mar-runtime restore-db` command, which runs in a process of    *)
(* its own and swaps the file for the one in a bundle.  The two processes  *)
(* share nothing but the file system: an advisory lock on a side file      *)
(* keeps a restore and a server apart.                                     *)
(*                                                                         *)
(* The database is in WAL mode: a commit goes to the -wal file and moves   *)
(* to the main file at a checkpoint.  The server has no shutdown handler,  *)
(* so whatever stops it leaves the -wal file as it is.                     *)
(*                                                                         *)
(* What SQLite makes of a file under a WAL that is not its own, or of one  *)
(* written by two processes, is left open: it may open it or not, and what *)
(* it then reads is Garbage.  The one thing assumed of it is that VACUUM   *)
(* INTO, which reads every page, fails on such a mixture.                  *)
(***************************************************************************)
EXTENDS Naturals, FiniteSets, FiniteSetsExt

CONSTANTS
  None,
  Garbage,       \* the content of a half-written file, or of a file under a WAL not its own
  Interval,      \* time between backups
  Keep,          \* retentionCount
  MaxSchema,     \* bound: versions of the schema
  MaxCommits,    \* bound: commits ever made
  MaxNow,        \* bound: the clock
  MaxStarts,     \* bound: starts of the server
  MaxRestores,   \* bound: restores begun
  MaxFaults      \* bound: snapshots, extractions, renames and removals that fail

ASSUME BackupAssumption ==
  /\ Interval \in Nat \ {0} /\ Keep \in Nat \ {0}
  /\ MaxSchema \in Nat \ {0} /\ MaxCommits \in Nat /\ MaxNow \in Nat
  /\ MaxStarts \in Nat /\ MaxRestores \in Nat /\ MaxFaults \in Nat

VARIABLES
  now,       \* the clock; a catalog id is the time its snapshot began
  live,      \* the main database file, None while there is none
  wal,       \* the -wal file beside it
  bak,       \* the file the last restore moved aside
  lock,      \* who holds the flock on the side file
  server,    \* the server process and its scheduler goroutine
  catalog,   \* the backup directory
  restore,   \* the restore process
  count      \* commits, starts, restores and faults, for the bounds; files made; and
             \* (observers) restores interrupted, errors a restore ignored, and
             \* servers at work on what a restore was changing, or had changed

vars == <<now, live, wal, bak, lock, server, catalog, restore, count>>
database == <<live, wal, bak>>

Time == 0 .. MaxNow
\* What a database holds: its last commit, and its schema (0: an empty file).
Content == [data : 0 .. MaxCommits, schema : 0 .. MaxSchema]
Empty == [data |-> 0, schema |-> 0]
\* A main file has an identity: a WAL, and an open connection, belong to one.
File == [id : Nat, content : Content \cup {Garbage}]
ASSUME NoConfusion == Garbage \notin Content /\ None \notin File

Bundle == [id : Time, whole : BOOLEAN, db : Content \cup {Garbage}, meta : 0 .. MaxSchema]

\* What a connection reads from a main file with that WAL beside it, and what one
\* opened now reads.
Reads(file, log) ==
  IF log = None THEN file.content
  ELSE IF log.id = file.id /\ file.content # Garbage THEN log.content ELSE Garbage
Logical == Reads(live, wal)

ServerPc == {"down", "open", "up"}
TaskPc == {"sleep", "vacuum", "fingerprint", "archive", "close", "prune"}
RestorePc == {"idle", "lock", "check", "confirm", "move", "create", "extract", "clean"}
Result == {"none", "refused", "rolledback", "done", "crashed"}

TaskState == [pc : TaskPc, id : Time, stage : Content, meta : 0 .. MaxSchema]
\* stale: the file was written, or lost its WAL, under the server's connection.
ServerState == [pc : ServerPc, file : Nat, stale : BOOLEAN, due : Nat, task : TaskState]
RestoreState == [pc : RestorePc, bundle : Time, meta : 0 .. MaxSchema,
                 before : Content \cup {Garbage}, disturbed : BOOLEAN, torn : BOOLEAN,
                 result : Result]
Counts == [commits : 0 .. MaxCommits, starts : 0 .. MaxStarts, restores : 0 .. MaxRestores,
           faults : 0 .. MaxFaults, files : Nat, interrupted : Nat, ignored : Nat,
           strays : Nat]

Resting == [pc |-> "sleep", id |-> 0, stage |-> Empty, meta |-> 0]
Down == [pc |-> "down", file |-> 0, stale |-> FALSE, due |-> 0, task |-> Resting]
\* before (observer): the database when the lock was taken; disturbed (observer): a
\* server opened the database while this restore held the lock; torn (observer): one had
\* the new file open before it was whole.
NoRestore == [pc |-> "idle", bundle |-> 0, meta |-> 0, before |-> Empty, disturbed |-> FALSE,
              torn |-> FALSE, result |-> "none"]

Init ==
  /\ now = 0
  /\ live = [id |-> 0, content |-> [data |-> 0, schema |-> 1]]
  /\ wal = None
  /\ bak = None
  /\ lock = "free"
  /\ server = Down
  /\ catalog = {}
  /\ restore = NoRestore
  /\ count = [commits |-> 0, starts |-> 0, restores |-> 0, faults |-> 0, files |-> 0,
              interrupted |-> 0, ignored |-> 0, strays |-> 0]

Counted(c) == count' = [count EXCEPT ![c] = @ + 1]

Advance ==
  /\ now < MaxNow
  /\ now' = now + 1
  /\ UNCHANGED <<database, lock, server, catalog, restore, count>>

-----------------------------------------------------------------------------
(* The server. *)

\* computeFirstDelay: skip if recent, judging by the name of the newest entry.
FirstDue ==
  IF catalog = {} THEN now
  ELSE LET newest == Max({b.id : b \in catalog}) IN
       IF now - newest >= Interval THEN now ELSE newest + Interval

\* The database is opened before the lock is taken.  SQLite creates a missing file, and
\* deletes a -wal file it finds beside it.
OpenCreates ==
  /\ live = None
  /\ live' = [id |-> count.files + 1, content |-> Empty]
  /\ wal' = None
  /\ server' = [Down EXCEPT !.pc = "open", !.file = count.files + 1]
  /\ count' = [count EXCEPT !.starts = @ + 1, !.files = @ + 1]

OpenReads ==
  /\ live # None /\ Logical # Garbage
  /\ server' = [Down EXCEPT !.pc = "open", !.file = live.id]
  /\ Counted("starts")
  /\ UNCHANGED <<live, wal>>

\* A half-written file, or one beside the WAL of another, opens or does not.
OpenGarbled ==
  /\ live # None /\ Logical = Garbage
  /\ server' \in {server, [Down EXCEPT !.pc = "open", !.file = live.id, !.stale = TRUE]}
  /\ wal' \in {wal} \cup (IF live.content = Garbage THEN {None} ELSE {})
  /\ Counted("starts")
  /\ UNCHANGED live

BootOpen ==
  /\ server.pc = "down"
  /\ count.starts < MaxStarts
  /\ OpenCreates \/ OpenReads \/ OpenGarbled
  /\ restore' = [restore EXCEPT !.disturbed = @ \/ lock = "restore",
                                !.torn = @ \/ (restore.pc = "extract" /\ server'.pc = "open")]
  /\ UNCHANGED <<now, bak, lock, catalog>>

Serving == server.pc = "up"
\* The connection is to the file that has the database's name.
Attached == live # None /\ live.id = server.file
\* What is committed through it is what a connection opened now reads.
Connected == Attached /\ ~server.stale

\* Mutant: the lock of a restore is not respected.
BootLock_Anyway ==
  /\ server.pc = "open"
  /\ lock' = "server"
  /\ server' = [server EXCEPT !.pc = "up", !.due = FirstDue]
  /\ UNCHANGED <<now, database, catalog, restore, count>>

\* Then the lock, which ends the process if another one holds it, the first statements
\* of admin.Boot, which fail on a file that is none, and the scheduler.
BootLock ==
  /\ server.pc = "open"
  /\ IF lock = "free" /\ (Connected => Logical # Garbage)
     THEN /\ lock' = "server"
          /\ server' = [server EXCEPT !.pc = "up", !.due = FirstDue]
          /\ IF Connected THEN UNCHANGED count ELSE Counted("strays")
     ELSE server' = Down /\ UNCHANGED <<lock, count>>
  /\ UNCHANGED <<now, database, catalog, restore>>

\* A request commits, or a migration does.
Commit(schema) ==
  /\ count.commits < MaxCommits
  /\ wal' = [id |-> live.id, content |-> [data |-> count.commits + 1, schema |-> schema]]
  /\ Counted("commits")
  /\ UNCHANGED <<now, live, bak, lock, server, catalog, restore>>

Write == Serving /\ Connected /\ Logical.schema # 0 /\ Commit(Logical.schema)
Migrate == Serving /\ Connected /\ Logical.schema < MaxSchema /\ Commit(Logical.schema + 1)

\* The frames of the -wal file are copied; it is emptied then, or by a later commit.
Checkpoint ==
  /\ Serving /\ Connected
  /\ wal # None
  /\ live' = wal
  /\ wal' \in {wal, None}
  /\ UNCHANGED <<now, bak, lock, server, catalog, restore, count>>

\* A server whose file was taken from under it commits to one without a name, or copies
\* the pages of its own WAL over those of the file now in place.
CommitAside ==
  /\ Serving /\ ~Connected
  /\ count.commits < MaxCommits
  /\ live' \in {live} \cup (IF Attached THEN {[live EXCEPT !.content = Garbage]} ELSE {})
  /\ Counted("commits")
  /\ UNCHANGED <<now, wal, bak, lock, server, catalog, restore>>

\* However it stops, the kernel releases the lock and the files stay.
Stop ==
  /\ server.pc # "down"
  /\ server' = Down
  /\ lock' = IF lock = "server" THEN "free" ELSE lock
  /\ UNCHANGED <<now, database, catalog, restore, count>>

-----------------------------------------------------------------------------
(* The scheduler. *)

Task(step) == Serving /\ server.task.pc = step
Untouched == UNCHANGED <<now, database, lock, restore>>

Fire ==
  /\ Task("sleep")
  /\ server.due <= now
  /\ server' = [server EXCEPT !.task = [Resting EXCEPT !.pc = "vacuum", !.id = now]]
  /\ UNCHANGED <<catalog, count>> /\ Untouched

\* The snapshot connection is opened by name.
Readable == live # None /\ Logical # Garbage

\* VACUUM INTO copies one committed state.
Vacuum ==
  /\ Task("vacuum") /\ Readable
  /\ server' = [server EXCEPT !.task.pc = "fingerprint", !.task.stage = Logical]
  /\ UNCHANGED <<catalog, count>> /\ Untouched

\* The fingerprint is that of the live database, one statement later.
Fingerprint ==
  /\ Task("fingerprint") /\ Readable
  /\ server' = [server EXCEPT !.task.pc = "archive", !.task.meta = Logical.schema]
  /\ UNCHANGED <<catalog, count>> /\ Untouched

\* The archive is written in the catalog, under its final name.
Archive ==
  /\ Task("archive")
  /\ catalog' = {b \in catalog : b.id # server.task.id} \cup
                {[id |-> server.task.id, whole |-> FALSE, db |-> Garbage, meta |-> 0]}
  /\ server' = [server EXCEPT !.task.pc = "close"]
  /\ UNCHANGED count /\ Untouched

Close ==
  /\ Task("close")
  /\ catalog' = {b \in catalog : b.id # server.task.id} \cup
                {[id |-> server.task.id, whole |-> TRUE, db |-> server.task.stage,
                  meta |-> server.task.meta]}
  /\ server' = [server EXCEPT !.task.pc = "prune"]
  /\ UNCHANGED count /\ Untouched

\* timer.Reset, when the tick is over.
Asleep == server' = [server EXCEPT !.task = Resting, !.due = now + Interval]

\* Any step of the snapshot may fail: the partial file is removed and the loop goes on.
SnapshotFails ==
  /\ Serving /\ server.task.pc \in {"vacuum", "fingerprint", "archive", "close"}
  /\ \/ count.faults < MaxFaults /\ Counted("faults")
     \/ ~Readable /\ UNCHANGED count
  /\ catalog' = {b \in catalog : b.id # server.task.id}
  /\ Asleep
  /\ Untouched

\* Entries of the catalog that are newer than b.
Newer(b) == Cardinality({e \in catalog : e.id > b.id})

\* Mutant: the wrong end of the list goes.
Prune_Newest ==
  /\ Task("prune")
  /\ IF Cardinality(catalog) > Keep
     THEN /\ \E b \in catalog : Newer(b) = 0 /\ catalog' = catalog \ {b}
          /\ UNCHANGED <<server, count>>
     ELSE Asleep /\ UNCHANGED <<catalog, count>>
  /\ Untouched

\* PruneCatalog removes what comes after the Keep newest entries, one file after the
\* other from the newest of them on, and gives up when a removal fails.
Prune ==
  /\ Task("prune")
  /\ IF Cardinality(catalog) > Keep
     THEN \/ /\ \E b \in catalog : Newer(b) = Keep /\ catalog' = catalog \ {b}
             /\ UNCHANGED <<server, count>>
          \/ /\ count.faults < MaxFaults /\ Counted("faults")
             /\ Asleep /\ UNCHANGED catalog
     ELSE Asleep /\ UNCHANGED <<catalog, count>>
  /\ Untouched

Scheduler == Fire \/ Vacuum \/ Fingerprint \/ Archive \/ Close \/ SnapshotFails \/ Prune

-----------------------------------------------------------------------------
(* The restore command. *)

Step(step) == restore.pc = step
Goto(step) == restore' = [restore EXCEPT !.pc = step]
Finish(result) == restore' = [restore EXCEPT !.pc = "idle", !.result = result]
Outside == UNCHANGED <<now, server, catalog>>

\* Reads the bundle's metadata (a bundle cut short is refused at once) and looks whether
\* there is a database to replace.
Begin ==
  /\ Step("idle")
  /\ count.restores < MaxRestores
  /\ \E b \in catalog :
       restore' = IF b.whole /\ live # None
                  THEN [NoRestore EXCEPT !.pc = "lock", !.bundle = b.id, !.meta = b.meta]
                  ELSE [NoRestore EXCEPT !.result = "refused"]
  /\ Counted("restores")
  /\ UNCHANGED <<database, lock>> /\ Outside

TakeLock ==
  /\ Step("lock")
  /\ IF lock = "free"
     THEN /\ lock' = "restore"
          /\ restore' = [restore EXCEPT !.pc = "check", !.before = Logical]
     ELSE Finish("refused") /\ UNCHANGED lock
  /\ UNCHANGED <<database, count>> /\ Outside

\* The live schema is read with immutable=1: from the main file alone.
CheckSchema ==
  /\ Step("check")
  /\ IF live.content # Garbage /\ live.content.schema = restore.meta
     THEN Goto("confirm") /\ UNCHANGED lock
     ELSE Finish("refused") /\ lock' = "free"
  /\ UNCHANGED <<database, count>> /\ Outside

\* The operator declines, or the rename that comes next fails, before anything is changed.
Confirm ==
  /\ Step("confirm")
  /\ \/ Goto("move") /\ UNCHANGED lock
     \/ Finish("refused") /\ lock' = "free"
  /\ UNCHANGED <<database, count>> /\ Outside

\* Mutant: the WAL is removed as soon as the file it belongs to is moved.
MoveAside_DropsWal ==
  /\ Step("move")
  /\ bak' = live
  /\ live' = None
  /\ wal' = None
  /\ Goto("create")
  /\ UNCHANGED <<lock, count>> /\ Outside

MoveAside ==
  /\ Step("move")
  /\ bak' = live
  /\ live' = None
  /\ Goto("create")
  /\ UNCHANGED <<wal, lock, count>> /\ Outside

BundleThere == \E b \in catalog : b.id = restore.bundle

\* What the restore writes or removes under a server that has opened the database.
Confuse == server' = IF server.pc = "open" /\ Attached THEN [server EXCEPT !.stale = TRUE] ELSE server
Alone == UNCHANGED <<now, catalog>>

\* The bundle is opened again, and the new file appears before its content: O_TRUNC
\* empties the one a server has created.
Create ==
  /\ Step("create") /\ BundleThere
  /\ live' = [id |-> IF live = None THEN count.files + 1 ELSE live.id, content |-> Garbage]
  /\ Counted("files")
  /\ restore' = [restore EXCEPT !.pc = "extract", !.torn = live # None]
  /\ UNCHANGED <<wal, bak, lock>> /\ Confuse /\ Alone

\* A server that had the file open may have written to it too.
Extract ==
  /\ Step("extract")
  /\ \E b \in catalog :
       /\ b.id = restore.bundle /\ b.whole
       /\ \E content \in {b.db} \cup (IF restore.torn THEN {Garbage} ELSE {}) :
            live' = [live EXCEPT !.content = content]
  /\ IF restore.torn THEN Counted("strays") ELSE UNCHANGED count
  /\ Goto("clean")
  /\ UNCHANGED <<wal, bak, lock>> /\ Outside

\* Mutant: a failed extraction does not put the old file back.
ExtractFails_NoRollback ==
  /\ restore.pc \in {"create", "extract"}
  /\ count.faults < MaxFaults
  /\ Counted("faults")
  /\ Finish("rolledback") /\ lock' = "free"
  /\ UNCHANGED database /\ Outside

\* n more operations fail, and the restore ignores so many of the errors.
Fail(n, ignored) ==
  /\ count.faults + n <= MaxFaults
  /\ count' = [count EXCEPT !.faults = @ + n, !.ignored = @ + ignored]

\* The bundle cannot be read again, or the disk is full: the old file is put back.  The
\* error of that rename is ignored, and the restore says it has put the file back.
ExtractFails ==
  /\ restore.pc \in {"create", "extract"}
  /\ LET cause == IF BundleThere THEN 1 ELSE 0 IN
     \/ Fail(cause, 0) /\ live' = bak /\ bak' = None
     \/ Fail(cause + 1, 1) /\ UNCHANGED <<live, bak>>
  /\ Finish("rolledback") /\ lock' = "free"
  /\ UNCHANGED wal /\ Outside

\* Mutant: the WAL of the old file stays.
CleanUp_LeavesWal ==
  /\ Step("clean")
  /\ Finish("done") /\ lock' = "free"
  /\ UNCHANGED <<database, count>> /\ Outside

\* The -wal and -shm files belong to the old database.  The errors of the removals are
\* ignored, and the restore says it is done.
CleanUp ==
  /\ Step("clean")
  /\ \/ wal' = None /\ UNCHANGED count
     \/ wal # None /\ Fail(1, 1) /\ UNCHANGED wal
  /\ Finish("done") /\ lock' = "free"
  /\ UNCHANGED <<live, bak>> /\ Confuse /\ Alone

Interrupt ==
  /\ restore.pc # "idle"
  /\ Finish("crashed")
  /\ lock' = IF lock = "restore" THEN "free" ELSE lock
  /\ Counted("interrupted")
  /\ UNCHANGED database /\ Outside

Command == \/ Begin \/ TakeLock \/ CheckSchema \/ Confirm \/ MoveAside \/ Create
           \/ Extract \/ ExtractFails \/ CleanUp \/ Interrupt

Next == \/ Advance
        \/ BootOpen \/ BootLock \/ Write \/ Migrate \/ Checkpoint \/ CommitAside \/ Stop
        \/ Scheduler \/ Command

Spec == Init /\ [][Next]_vars

-----------------------------------------------------------------------------
(* Properties *)

TypeOK ==
  /\ now \in Time
  /\ live \in File \cup {None} /\ wal \in File \cup {None} /\ bak \in File \cup {None}
  /\ lock \in {"free", "server", "restore"}
  /\ server \in ServerState
  /\ catalog \subseteq Bundle
  /\ restore \in RestoreState
  /\ count \in Counts

\* No server serves while a restore moves the files about, and none starts to: the server
\* holds the lock for its lifetime and the restore for the whole command.
SwapExcludesServer ==
  restore.pc \in {"check", "confirm", "move", "create", "extract", "clean"}
  => ~Serving /\ lock = "restore"

\* However servers and restores stop or fail, there is a database a server can open
\* whenever no restore is at work.  Three things in the past of the installation can take
\* it away, and nothing else: a restore that was interrupted, a rename or removal whose
\* error a restore ignored, and a server that came upon a restore: one that wrote to the
\* new file before it was whole, or serves on a connection the restore left behind.
DatabaseReadable ==
  restore.pc = "idle" /\ count.interrupted = 0 /\ count.ignored = 0 /\ count.strays = 0
  => live # None /\ Logical # Garbage

\* A restore that reports success leaves the bundle's database, and nothing of the old
\* one on top of it, if the removal of the -wal file did not fail and no server had the
\* new file open before it was whole; whenever else servers were started.
RestoreInstallsBundle ==
  [][/\ restore'.result = "done" /\ restore.pc = "clean"
     /\ ~restore.torn /\ count'.ignored = count.ignored
     => \E b \in catalog : b.id = restore.bundle /\ Logical' = b.db]_vars

\* A restore that is refused or fails leaves every commit where it was, unless a server
\* was started in the middle of it or the old file could not be put back.
FailedRestoreKeepsDatabase ==
  [][/\ restore.pc \notin {"idle", "lock"} /\ restore'.result \in {"refused", "rolledback"}
     /\ ~restore.disturbed /\ count'.ignored = count.ignored
     => live' # None /\ Logical' = restore.before]_vars

\* An entry leaves the catalog only when it is a failed one, or a newer complete one stays.
NewestBackupStays ==
  [][\A b \in catalog : b.whole =>
       \E c \in catalog' : c.id >= b.id /\ c.whole]_vars
=============================================================================
