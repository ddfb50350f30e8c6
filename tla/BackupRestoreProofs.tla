------------------------ MODULE BackupRestoreProofs ------------------------
(***************************************************************************)
(* Theorems about BackupRestore, for every value of its constants: any     *)
(* number of restores, starts, commits, failures and interruptions; and    *)
(* that it implements DurableDatabase as long as no restore is cut short.  *)
(***************************************************************************)
EXTENDS BackupRestore, FiniteSetTheorems, WellFoundedInduction, TLAPS

Swapping == {"check", "confirm", "move", "create", "extract", "clean"}

\* Who holds the lock: a server that is up, a restore between its first look and its end.
LockDiscipline ==
  /\ lock = "server" <=> server.pc = "up"
  /\ lock = "restore" <=> restore.pc \in Swapping

\* There is a main file, but for the time between the rename and the new file.
FileThere == restore.pc \in {"lock", "check", "confirm", "move", "extract", "clean"} => live # None

\* A server that is up, on the file that has the database's name, can read it.
ServerReads == Serving /\ Connected => Logical # Garbage

Inv == TypeOK /\ LockDiscipline /\ FileThere /\ ServerReads

-----------------------------------------------------------------------------
(* The newest entry of a catalog *)

LEMMA Least ==
  ASSUME NEW S \in SUBSET Nat, S # {}
  PROVE  \E x \in S : \A y \in S : x <= y
<1> DEFINE R == {p \in Nat \X Nat : p[1] < p[2]}
<1>1. IsWellFoundedOn(R, Nat)
  BY NatLessThanWellFounded DEF OpToRel
<1>2. PICK x \in S : \A y \in S : ~(<<y, x>> \in R)
  BY <1>1, WFMin
<1>3. \A y \in S : ~(y < x)
  BY <1>2
<1> QED BY <1>3

LEMMA MaxOfBounded ==
  ASSUME NEW N \in Nat, NEW S \in SUBSET (0 .. N), S # {}
  PROVE  Max(S) \in S /\ \A y \in S : Max(S) >= y
<1> DEFINE T == {N - x : x \in S}
<1>1. T \subseteq Nat
  <2>1. \A x \in 0 .. N : N - x \in Nat
    OBVIOUS
  <2> QED BY <2>1
<1>2. T # {}
  OBVIOUS
<1>3. PICK t \in T : \A u \in T : t <= u
  <2> HIDE DEF T
  <2> QED BY <1>1, <1>2, Least
<1>4. PICK x \in S : t = N - x
  BY <1>3
<1>5. \A y \in S : N - x <= N - y
  BY <1>3, <1>4
<1>6. \E z \in S : \A y \in S : z >= y
  BY <1>4, <1>5
<1> QED BY <1>6 DEF Max

LEMMA NewestType ==
  ASSUME NEW C \in SUBSET Bundle, C # {}
  PROVE  /\ Max({b.id : b \in C}) \in Time
         /\ \A b \in C : Max({e.id : e \in C}) >= b.id
<1>1. {b.id : b \in C} \in SUBSET (0 .. MaxNow) /\ {b.id : b \in C} # {}
  BY DEF Bundle, Time
<1> QED BY <1>1, MaxOfBounded, BackupAssumption DEF Time

-----------------------------------------------------------------------------
(* The shape of the variables *)

LEMMA ReadsType ==
  ASSUME NEW file \in File, NEW log \in File \cup {None}
  PROVE  Reads(file, log) \in Content \cup {Garbage}
  BY NoConfusion DEF Reads, File

LEMMA LogicalType ==
  ASSUME TypeOK, live # None
  PROVE  Logical \in Content \cup {Garbage}
  BY ReadsType DEF TypeOK, Logical

LEMMA RestingType == Resting \in TaskState
  BY BackupAssumption DEF Resting, TaskState, TaskPc, Time, Content, Empty

LEMMA TaskFields ==
  ASSUME NEW t \in TaskState
  PROVE  /\ t.pc \in TaskPc /\ t.id \in Time /\ t.stage \in Content /\ t.meta \in 0 .. MaxSchema
         /\ \A step \in TaskPc : [t EXCEPT !.pc = step] \in TaskState
         /\ \A content \in Content : [t EXCEPT !.pc = "fingerprint", !.stage = content] \in TaskState
         /\ \A meta \in 0 .. MaxSchema : [t EXCEPT !.pc = "archive", !.meta = meta] \in TaskState
  BY DEF TaskState, TaskPc

\* The updates of the server by its scheduler change the task only.
LEMMA ServerFields ==
  ASSUME NEW s \in ServerState
  PROVE  /\ s.pc \in ServerPc /\ s.file \in Nat /\ s.due \in Nat /\ s.task \in TaskState
         /\ s.stale \in BOOLEAN /\ [s EXCEPT !.stale = TRUE] \in ServerState
         /\ \A due \in Nat : [s EXCEPT !.pc = "up", !.due = due] \in ServerState
         /\ \A t \in TaskState : [s EXCEPT !.task = t] \in ServerState
         /\ \A t \in TaskState, due \in Nat : [s EXCEPT !.task = t, !.due = due] \in ServerState
         /\ \A step \in TaskPc : [s EXCEPT !.task.pc = step] = [s EXCEPT !.task = [s.task EXCEPT !.pc = step]]
  BY DEF ServerState, ServerPc

LEMMA DownType ==
  /\ Down \in ServerState /\ Down.pc = "down"
  /\ \A id \in Nat : /\ [Down EXCEPT !.pc = "open", !.file = id] \in ServerState
                     /\ [Down EXCEPT !.pc = "open", !.file = id, !.stale = TRUE] \in ServerState
  BY RestingType DEF Down, ServerState, ServerPc

LEMMA RestoreFields ==
  ASSUME NEW p \in RestoreState
  PROVE  /\ p.pc \in RestorePc /\ p.bundle \in Time /\ p.meta \in 0 .. MaxSchema
         /\ p.disturbed \in BOOLEAN /\ p.torn \in BOOLEAN /\ p.result \in Result
         /\ \A step \in RestorePc : [p EXCEPT !.pc = step] \in RestoreState
         /\ \A result \in Result : [p EXCEPT !.pc = "idle", !.result = result] \in RestoreState
         /\ \A d, t \in BOOLEAN : [p EXCEPT !.disturbed = d, !.torn = t] \in RestoreState
         /\ \A t \in BOOLEAN : [p EXCEPT !.pc = "extract", !.torn = t] \in RestoreState
  BY DEF RestoreState, RestorePc, Result

LEMMA CountFields ==
  ASSUME NEW c \in Counts
  PROVE  /\ c.files \in Nat
         /\ [c EXCEPT !.interrupted = @ + 1] \in Counts /\ [c EXCEPT !.files = @ + 1] \in Counts
         /\ c.commits < MaxCommits => [c EXCEPT !.commits = @ + 1] \in Counts
         /\ c.starts < MaxStarts => /\ [c EXCEPT !.starts = @ + 1] \in Counts
                                    /\ [c EXCEPT !.starts = @ + 1, !.files = @ + 1] \in Counts
         /\ c.restores < MaxRestores => [c EXCEPT !.restores = @ + 1] \in Counts
         /\ c.faults < MaxFaults => [c EXCEPT !.faults = @ + 1] \in Counts
         /\ [c EXCEPT !.strays = @ + 1] \in Counts
         /\ \A n, i \in Nat : c.faults + n <= MaxFaults
              => [c EXCEPT !.faults = @ + n, !.ignored = @ + i] \in Counts
<1>1. /\ c.files + 1 \in Nat /\ c.interrupted + 1 \in Nat /\ c.files \in Nat
      /\ c.commits < MaxCommits => c.commits + 1 \in 0 .. MaxCommits
      /\ c.starts < MaxStarts => c.starts + 1 \in 0 .. MaxStarts
      /\ c.restores < MaxRestores => c.restores + 1 \in 0 .. MaxRestores
      /\ c.faults < MaxFaults => c.faults + 1 \in 0 .. MaxFaults
  BY BackupAssumption DEF Counts
<1>2. [c EXCEPT !.interrupted = @ + 1] \in Counts /\ [c EXCEPT !.files = @ + 1] \in Counts
  BY <1>1 DEF Counts
<1>3. c.commits < MaxCommits => [c EXCEPT !.commits = @ + 1] \in Counts
  BY <1>1 DEF Counts
<1>4. c.starts < MaxStarts => [c EXCEPT !.starts = @ + 1] \in Counts
  BY <1>1 DEF Counts
<1>5. c.starts < MaxStarts => [c EXCEPT !.starts = @ + 1, !.files = @ + 1] \in Counts
  BY <1>1 DEF Counts
<1>6. c.restores < MaxRestores => [c EXCEPT !.restores = @ + 1] \in Counts
  BY <1>1 DEF Counts
<1>7. c.faults < MaxFaults => [c EXCEPT !.faults = @ + 1] \in Counts
  BY <1>1 DEF Counts
<1>8. [c EXCEPT !.strays = @ + 1] \in Counts
  <2>1. c.strays + 1 \in Nat
    BY DEF Counts
  <2> QED BY <2>1 DEF Counts
<1>9. ASSUME NEW n \in Nat, NEW i \in Nat, c.faults + n <= MaxFaults
      PROVE  [c EXCEPT !.faults = @ + n, !.ignored = @ + i] \in Counts
  <2>1. c.faults + n \in 0 .. MaxFaults /\ c.ignored + i \in Nat
    BY <1>9, BackupAssumption DEF Counts
  <2> QED BY <2>1 DEF Counts
<1> QED BY <1>1, <1>2, <1>3, <1>4, <1>5, <1>6, <1>7, <1>8, <1>9

\* What TypeOK says of each variable.
LEMMA Shapes ==
  TypeOK => /\ now \in Time /\ now \in Nat /\ server \in ServerState /\ restore \in RestoreState
            /\ count \in Counts /\ catalog \subseteq Bundle
            /\ live \in File \cup {None} /\ wal \in File \cup {None} /\ bak \in File \cup {None}
            /\ lock \in {"free", "server", "restore"}
  BY BackupAssumption DEF TypeOK, Time

LEMMA NoRestoreType ==
  /\ NoRestore \in RestoreState /\ NoRestore.pc = "idle"
  /\ \A b \in Time, meta \in 0 .. MaxSchema :
       /\ [NoRestore EXCEPT !.pc = "lock", !.bundle = b, !.meta = meta] \in RestoreState
       /\ [NoRestore EXCEPT !.pc = "lock", !.bundle = b, !.meta = meta].pc = "lock"
  /\ [NoRestore EXCEPT !.result = "refused"] \in RestoreState
  /\ [NoRestore EXCEPT !.result = "refused"].pc = "idle"
<1>1. 0 \in Time /\ 0 \in 0 .. MaxSchema /\ Empty \in Content
  BY BackupAssumption DEF Time, Content, Empty
<1> QED BY <1>1 DEF NoRestore, RestoreState, RestorePc, Result

LEMMA InvInit == Init => Inv
<1> SUFFICES ASSUME Init PROVE Inv
  OBVIOUS
<1>1. now \in Time /\ live \in File
  BY BackupAssumption DEF Init, Time, File, Content
<1>2. count \in Counts
  BY BackupAssumption DEF Init, Counts
<1>3. TypeOK
  BY <1>1, <1>2, DownType, NoRestoreType DEF Init, TypeOK
<1>4. LockDiscipline /\ FileThere /\ ServerReads
  BY DownType, NoRestoreType DEF Init, LockDiscipline, FileThere, ServerReads, Serving, Swapping
<1> QED BY <1>3, <1>4 DEF Inv

-----------------------------------------------------------------------------
(* The steps of the server *)

\* The server is the process it was, with the connection it had.
SameConnection == /\ server'.pc = server.pc /\ server'.file = server.file
                  /\ server'.stale = server.stale

\* A step of the scheduler, or of the clock, leaves what the other parts look at.
LEMMA SchedulerFrame ==
  ASSUME Inv, SameConnection,
         UNCHANGED <<live, wal, lock, restore>>
  PROVE  LockDiscipline' /\ FileThere' /\ ServerReads'
  BY DEF SameConnection, Inv, LockDiscipline, FileThere, ServerReads, Serving, Connected, Attached,
     Logical

LEMMA SchedulerStep ==
  ASSUME Inv, Scheduler
  PROVE  Inv'
<1> USE BackupAssumption
<1>0. TypeOK /\ server \in ServerState /\ server.task \in TaskState
  BY Shapes, ServerFields DEF Inv
<1>1. ASSUME NEW t \in TaskState, server' = [server EXCEPT !.task = t]
      PROVE  server' \in ServerState /\ SameConnection
  BY <1>0, <1>1, ServerFields DEF ServerState, SameConnection
<1>2. ASSUME NEW step \in TaskPc, server' = [server EXCEPT !.task.pc = step]
      PROVE  server' \in ServerState /\ SameConnection
  <2>1. [server.task EXCEPT !.pc = step] \in TaskState
    BY <1>0, TaskFields
  <2>2. server' = [server EXCEPT !.task = [server.task EXCEPT !.pc = step]]
    BY <1>0, <1>2, ServerFields
  <2> QED BY <2>1, <2>2, <1>1
<1>3. ASSUME Asleep
      PROVE  server' \in ServerState /\ SameConnection
  <2>1. now + Interval \in Nat
    BY <1>0, Shapes
  <2> QED BY <1>0, <1>3, <2>1, RestingType, ServerFields DEF Asleep, ServerState, SameConnection
<1>4. CASE Fire
  <2>1. [Resting EXCEPT !.pc = "vacuum", !.id = now] \in TaskState
    BY <1>0, Shapes, RestingType DEF TaskState, TaskPc
  <2>2. server' \in ServerState /\ SameConnection
    BY <1>4, <2>1, <1>1 DEF Fire
  <2> QED BY <1>4, <2>2, <1>0, SchedulerFrame DEF Inv, TypeOK, Fire, Untouched, database
<1>5. CASE Vacuum
  <2>1. Logical \in Content
    BY <1>5, <1>0, LogicalType DEF Vacuum, Readable
  <2>2. [server.task EXCEPT !.pc = "fingerprint", !.stage = Logical] \in TaskState
    BY <2>1, <1>0, TaskFields
  <2>3. server' = [server EXCEPT !.task = [server.task EXCEPT !.pc = "fingerprint", !.stage = Logical]]
    BY <1>5, <1>0 DEF Vacuum, ServerState
  <2>4. server' \in ServerState /\ SameConnection
    BY <2>2, <2>3, <1>1
  <2> QED BY <1>5, <2>4, <1>0, SchedulerFrame DEF Inv, TypeOK, Vacuum, Untouched, database
<1>6. CASE Fingerprint
  <2>1. Logical.schema \in 0 .. MaxSchema
    BY <1>6, <1>0, LogicalType DEF Fingerprint, Readable, Content
  <2>2. [server.task EXCEPT !.pc = "archive", !.meta = Logical.schema] \in TaskState
    BY <2>1, <1>0, TaskFields
  <2>3. server' = [server EXCEPT !.task = [server.task EXCEPT !.pc = "archive", !.meta = Logical.schema]]
    BY <1>6, <1>0 DEF Fingerprint, ServerState
  <2>4. server' \in ServerState /\ SameConnection
    BY <2>2, <2>3, <1>1
  <2> QED BY <1>6, <2>4, <1>0, SchedulerFrame DEF Inv, TypeOK, Fingerprint, Untouched, database
<1>7. CASE Archive
  <2>1. server' \in ServerState /\ SameConnection
    BY <1>7, <1>2 DEF Archive, TaskPc
  <2>0. server.task.id \in Time /\ 0 \in 0 .. MaxSchema
    BY <1>0 DEF TaskState
  <2>2. [id |-> server.task.id, whole |-> FALSE, db |-> Garbage, meta |-> 0] \in Bundle
    BY <2>0 DEF Bundle
  <2>3. catalog' \subseteq Bundle
    BY <1>7, <2>2, <1>0, Shapes DEF Archive
  <2> QED BY <1>7, <2>1, <2>3, <1>0, SchedulerFrame DEF Inv, TypeOK, Archive, Untouched, database
<1>8. CASE Close
  <2>1. server' \in ServerState /\ SameConnection
    BY <1>8, <1>2 DEF Close, TaskPc
  <2>2. [id |-> server.task.id, whole |-> TRUE, db |-> server.task.stage,
         meta |-> server.task.meta] \in Bundle
    BY <1>0, TaskFields DEF Bundle
  <2>3. catalog' \subseteq Bundle
    BY <1>8, <2>2, <1>0, Shapes DEF Close
  <2> QED BY <1>8, <2>1, <2>3, <1>0, SchedulerFrame DEF Inv, TypeOK, Close, Untouched, database
<1>9. CASE SnapshotFails
  <2>1. count' \in Counts
    BY <1>9, <1>0, Shapes, CountFields DEF SnapshotFails, Counted
  <2>2. catalog' \subseteq Bundle
    BY <1>9, <1>0, Shapes DEF SnapshotFails
  <2> QED BY <1>9, <1>3, <2>1, <2>2, <1>0, SchedulerFrame
         DEF Inv, TypeOK, SnapshotFails, Untouched, database
<1>10. CASE Prune
  <2>1. server' \in ServerState /\ SameConnection
    BY <1>10, <1>0, <1>3 DEF Prune, SameConnection
  <2>2. catalog' \subseteq Bundle
    BY <1>10, <1>0, Shapes DEF Prune
  <2>3. count' \in Counts
    BY <1>10, <1>0, Shapes, CountFields DEF Prune, Counted
  <2> QED BY <1>10, <2>1, <2>2, <2>3, <1>0, SchedulerFrame
         DEF Inv, TypeOK, Prune, Untouched, database
<1> QED BY <1>4, <1>5, <1>6, <1>7, <1>8, <1>9, <1>10 DEF Scheduler

LEMMA FirstDueType ==
  ASSUME TypeOK
  PROVE  FirstDue \in Nat
<1>1. now \in Nat /\ Interval \in Nat /\ catalog \subseteq Bundle
  BY Shapes, BackupAssumption
<1>2. CASE catalog = {}
  BY <1>1, <1>2 DEF FirstDue
<1>3. CASE catalog # {}
  <2> DEFINE newest == Max({b.id : b \in catalog})
  <2>1. newest \in Nat
    <3>1. newest \in Time
      BY <1>1, <1>3, NewestType
    <3> HIDE DEF newest
    <3> QED BY <3>1, BackupAssumption DEF Time
  <2>2. FirstDue = IF now - newest >= Interval THEN now ELSE newest + Interval
    BY <1>3 DEF FirstDue
  <2> HIDE DEF newest
  <2> QED BY <1>1, <2>1, <2>2
<1> QED BY <1>2, <1>3

\* A server that opens the database leaves a main file that is there alone.
LEMMA BootType ==
  ASSUME Inv, BootOpen
  PROVE  /\ live' \in File /\ wal' \in File \cup {None}
         /\ server' \in ServerState /\ server'.pc # "up" /\ count' \in Counts
         /\ restore' \in RestoreState /\ restore'.pc = restore.pc
         /\ live # None => live' = live /\ (wal' = wal \/ live.content = Garbage)
         /\ wal' = wal \/ wal' = None
<1> USE BackupAssumption
<1>0. /\ TypeOK /\ server \in ServerState /\ server.pc = "down" /\ restore \in RestoreState
      /\ count \in Counts /\ count.files \in Nat /\ count.starts < MaxStarts
      /\ live \in File \cup {None} /\ wal \in File \cup {None}
  BY Shapes, CountFields DEF Inv, BootOpen
<1>1. restore' \in RestoreState /\ restore'.pc = restore.pc
  <2>1. restore.disturbed \in BOOLEAN /\ restore.torn \in BOOLEAN
    BY <1>0, RestoreFields
  <2> QED BY <1>0, <2>1 DEF BootOpen, RestoreState
<1>2. \A id \in Nat : /\ [Down EXCEPT !.pc = "open", !.file = id] \in ServerState
                      /\ [Down EXCEPT !.pc = "open", !.file = id].pc = "open"
                      /\ [Down EXCEPT !.pc = "open", !.file = id, !.stale = TRUE] \in ServerState
                      /\ [Down EXCEPT !.pc = "open", !.file = id, !.stale = TRUE].pc = "open"
  BY DownType DEF ServerState
<1>3. CASE OpenCreates
  <2>1. [id |-> count.files + 1, content |-> Empty] \in File
    BY <1>0 DEF File, Content, Empty
  <2>2. count' \in Counts
    BY <1>0, <1>3, CountFields DEF OpenCreates
  <2>3. count.files + 1 \in Nat /\ "open" # "up"
    BY <1>0
  <2>4. server' \in ServerState /\ server'.pc # "up"
    BY <1>2, <1>3, <2>3 DEF OpenCreates
  <2> QED BY <1>1, <1>3, <2>1, <2>2, <2>4 DEF OpenCreates
<1>4. CASE OpenReads
  <2>1. live.id \in Nat
    BY <1>0, <1>4 DEF OpenReads, File
  <2>2. count' \in Counts
    BY <1>0, <1>4, CountFields DEF OpenReads, Counted
  <2> QED BY <1>0, <1>1, <1>2, <1>4, <2>1, <2>2 DEF OpenReads
<1>5. CASE OpenGarbled
  <2>1. count' \in Counts
    BY <1>0, <1>5, CountFields DEF OpenGarbled, Counted
  <2>2. live \in File /\ live.id \in Nat
    BY <1>0, <1>5 DEF OpenGarbled, File
  <2>3. server' \in ServerState /\ server'.pc # "up"
    BY <1>0, <1>2, <1>5, <2>2 DEF OpenGarbled
  <2>4. /\ live' = live /\ wal' \in {wal, None}
        /\ wal' = wal \/ live.content = Garbage
    BY <1>5 DEF OpenGarbled
  <2>5. wal' \in File \cup {None}
    BY <1>0, <2>4
  <2> QED BY <1>1, <2>1, <2>2, <2>3, <2>4, <2>5
<1> QED BY <1>3, <1>4, <1>5 DEF BootOpen

\* A commit is a WAL of the main file with a readable content.
LEMMA CommitFile ==
  ASSUME TypeOK, Attached, NEW schema \in 0 .. MaxSchema, Commit(schema)
  PROVE  /\ wal' \in File /\ wal' # None /\ wal'.id = live.id
         /\ wal'.content \in Content /\ wal'.content # Garbage
         /\ count' \in Counts
<1>0. live \in File /\ live.id \in Nat /\ count \in Counts /\ count.commits \in Nat
  BY Shapes DEF Attached, File, Counts
<1>1. [data |-> count.commits + 1, schema |-> schema] \in Content
  BY <1>0, BackupAssumption DEF Commit, Content
<1>2. wal' \in File /\ wal' # None /\ wal'.id = live.id /\ wal'.content \in Content
  BY <1>0, <1>1, NoConfusion DEF Commit, File
<1>3. count' \in Counts
  BY <1>0, CountFields DEF Commit, Counted
<1> QED BY <1>2, <1>3, NoConfusion

LEMMA WritesCommit ==
  ASSUME Inv, Write \/ Migrate
  PROVE  Serving /\ Connected /\ \E schema \in 0 .. MaxSchema : Commit(schema)
<1>1. Serving /\ Connected /\ Logical \in Content
  BY LogicalType DEF Inv, ServerReads, Connected, Attached, Write, Migrate
<1>2. CASE Write
  <2>1. Logical.schema \in 0 .. MaxSchema
    BY <1>1 DEF Content
  <2> QED BY <1>1, <1>2, <2>1 DEF Write
<1>3. CASE Migrate
  <2>1. Logical.schema + 1 \in 0 .. MaxSchema
    BY <1>1, <1>3, BackupAssumption DEF Content, Migrate
  <2> QED BY <1>1, <1>3, <2>1 DEF Migrate
<1> QED BY <1>2, <1>3

LEMMA CommitStep ==
  ASSUME Inv, Serving, Connected, NEW schema \in 0 .. MaxSchema, Commit(schema)
  PROVE  Inv'
<1>1. TypeOK'
  BY CommitFile DEF Inv, TypeOK, Commit, Connected
<1>2. ServerReads'
  <2>1. live # None /\ live.content # Garbage /\ live \in File
    BY Shapes, NoConfusion DEF Inv, Connected, Attached, ServerReads, Logical, Reads, File
  <2> QED BY <2>1, CommitFile DEF Inv, Commit, ServerReads, Logical, Reads, Connected
<1> QED BY <1>1, <1>2 DEF Inv, Commit, LockDiscipline, FileThere

LEMMA ServerStep ==
  ASSUME Inv, \/ BootOpen \/ BootLock \/ Write \/ Migrate \/ Checkpoint \/ CommitAside \/ Stop
  PROVE  Inv'
<1> USE BackupAssumption
<1>0. /\ TypeOK /\ server \in ServerState /\ live \in File \cup {None} /\ wal \in File \cup {None}
      /\ count \in Counts
  BY Shapes DEF Inv
<1>1. CASE BootOpen
  <2>1. TypeOK'
    BY <1>0, <1>1, BootType DEF TypeOK, BootOpen
  <2>2. LockDiscipline' /\ FileThere' /\ ServerReads'
    BY <1>1, BootType, NoConfusion DEF Inv, BootOpen, LockDiscipline, FileThere, ServerReads, Serving
  <2> QED BY <2>1, <2>2 DEF Inv
<1>2. CASE BootLock
  <2>1. CASE lock = "free" /\ (Connected => Logical # Garbage)
    <3>1. FirstDue \in Nat
      BY <1>0, FirstDueType
    <3>b. server' = [server EXCEPT !.pc = "up", !.due = FirstDue]
      BY <1>2, <2>1 DEF BootLock
    <3>2. /\ server' \in ServerState /\ server'.pc = "up" /\ server'.file = server.file
          /\ server'.stale = server.stale
      <4>1. server' \in ServerState
        BY <1>0, <3>1, <3>b, ServerFields
      <4> QED BY <1>0, <3>b, <4>1 DEF ServerState
    <3>3. count' \in Counts
      BY <1>0, <1>2, <2>1, CountFields DEF BootLock, Counted
    <3> QED BY <1>2, <2>1, <3>2, <3>3 DEF Inv, TypeOK, BootLock, database, LockDiscipline, FileThere,
               ServerReads, Serving, Connected, Attached, Logical
  <2>2. CASE ~(lock = "free" /\ (Connected => Logical # Garbage))
    BY <1>2, <2>2, DownType DEF Inv, TypeOK, BootLock, database, LockDiscipline, FileThere,
       ServerReads, Serving
  <2> QED BY <2>1, <2>2
<1>3. CASE Write \/ Migrate
  BY <1>3, WritesCommit, CommitStep
<1>4. CASE CommitAside
  <2>1. live' \in File \cup {None} /\ (live # None => live' # None)
    <3>1. CASE Attached
      <4>1. live \in File /\ [live EXCEPT !.content = Garbage] \in File
        BY <1>0, <3>1 DEF Attached, File
      <4> QED BY <1>4, <3>1, <4>1, NoConfusion DEF CommitAside
    <3>2. CASE ~Attached
      BY <1>0, <1>4, <3>2 DEF CommitAside
    <3> QED BY <3>1, <3>2
  <2>2. live' = live \/ (Attached /\ live'.id = live.id)
    BY <1>0, <1>4 DEF CommitAside, Attached, File
  <2>3. ~Connected'
    BY <1>0, <1>4, <2>1, <2>2 DEF CommitAside, Connected, Attached
  <2>4. count' \in Counts
    BY <1>0, <1>4, CountFields DEF CommitAside, Counted
  <2> QED BY <1>4, <2>1, <2>3, <2>4 DEF Inv, TypeOK, CommitAside, LockDiscipline, FileThere,
             ServerReads
<1>5. CASE Checkpoint
  <2>1. wal \in File /\ wal.id = live.id /\ wal.content # Garbage
    BY <1>0, <1>5 DEF Inv, Checkpoint, ServerReads, Logical, Reads
  <2> QED BY <1>0, <1>5, <2>1, NoConfusion DEF Inv, TypeOK, Checkpoint, LockDiscipline, FileThere,
             ServerReads, Serving, Connected, Attached, Logical, Reads
<1>6. CASE Stop
  BY <1>6, DownType DEF Inv, TypeOK, Stop, database, LockDiscipline, FileThere, ServerReads, Serving
<1> QED BY <1>1, <1>2, <1>3, <1>4, <1>5, <1>6

-----------------------------------------------------------------------------
(* The steps of the restore command *)

\* While a restore holds the lock no server is up, and its steps leave it so.
LEMMA RestoreFrame ==
  ASSUME Inv, restore.pc \in Swapping, server'.pc = server.pc, TypeOK',
         lock' = IF restore'.pc = "idle" THEN "free" ELSE lock,
         restore'.pc \in Swapping \cup {"idle"}, FileThere'
  PROVE  Inv'
  BY DEF Inv, LockDiscipline, ServerReads, Serving, Swapping, TypeOK, RestoreState, RestorePc

LEMMA GotoType ==
  ASSUME TypeOK, NEW step \in RestorePc, Goto(step)
  PROVE  restore' \in RestoreState /\ restore'.pc = step
  BY Shapes, RestoreFields DEF Goto, RestoreState

LEMMA FinishType ==
  ASSUME TypeOK, NEW result \in Result, Finish(result)
  PROVE  restore' \in RestoreState /\ restore'.pc = "idle" /\ restore'.result = result
  BY Shapes, RestoreFields DEF Finish, RestoreState

\* A server that has the database open is left with a connection that is stale.
LEMMA ConfuseType ==
  ASSUME TypeOK, Confuse
  PROVE  /\ server' \in ServerState /\ server'.pc = server.pc /\ server'.task = server.task
         /\ server'.due = server.due
<1>1. server \in ServerState
  BY Shapes
<1> QED BY <1>1, ServerFields DEF Confuse, ServerState

\* What a failure costs.
LEMMA FailType ==
  ASSUME TypeOK, NEW n \in Nat, NEW i \in Nat, Fail(n, i)
  PROVE  /\ count' \in Counts /\ count'.commits = count.commits
         /\ count'.interrupted = count.interrupted /\ count'.strays = count.strays
         /\ count'.ignored = count.ignored + i
<1>1. count \in Counts
  BY Shapes
<1>2. count' \in Counts
  BY <1>1, CountFields DEF Fail
<1> QED BY <1>1, <1>2 DEF Fail, Counts

\* A failed extraction puts the old file back, or has ignored one error more.
LEMMA FailureCases ==
  ASSUME TypeOK, ExtractFails
  PROVE  /\ restore.pc \in {"create", "extract"} /\ Finish("rolledback") /\ lock' = "free"
         /\ wal' = wal /\ UNCHANGED <<now, server, catalog>>
         /\ count' \in Counts /\ count'.commits = count.commits
         /\ count'.interrupted = count.interrupted /\ count'.strays = count.strays
         /\ \/ live' = bak /\ bak' = None /\ count'.ignored = count.ignored
            \/ UNCHANGED <<live, bak>> /\ count'.ignored = count.ignored + 1
<1>1. /\ restore.pc \in {"create", "extract"} /\ Finish("rolledback") /\ lock' = "free"
      /\ wal' = wal /\ UNCHANGED <<now, server, catalog>>
  BY DEF ExtractFails, Outside
<1>2. PICK cause \in {0, 1} : \/ Fail(cause, 0) /\ live' = bak /\ bak' = None
                              \/ Fail(cause + 1, 1) /\ UNCHANGED <<live, bak>>
  BY DEF ExtractFails
<1>3. CASE Fail(cause, 0) /\ live' = bak /\ bak' = None
  <2>1. count'.ignored = count.ignored
    BY <1>3, FailType, Shapes DEF Counts
  <2> QED BY <1>1, <1>3, <2>1, FailType
<1>4. CASE Fail(cause + 1, 1) /\ UNCHANGED <<live, bak>>
  <2>1. cause + 1 \in Nat
    OBVIOUS
  <2> QED BY <1>1, <1>4, <2>1, FailType
<1> QED BY <1>2, <1>3, <1>4

\* The clean-up removes the WAL, or has ignored one error more.
LEMMA CleanUpCases ==
  ASSUME TypeOK, CleanUp
  PROVE  /\ restore.pc = "clean" /\ Finish("done") /\ lock' = "free"
         /\ UNCHANGED <<now, catalog, live, bak>> /\ Confuse
         /\ count' \in Counts /\ count'.commits = count.commits
         /\ count'.interrupted = count.interrupted /\ count'.strays = count.strays
         /\ \/ wal' = None /\ count'.ignored = count.ignored
            \/ wal' = wal /\ count'.ignored = count.ignored + 1
<1>1. count \in Counts
  BY Shapes
<1>2. /\ restore.pc = "clean" /\ Finish("done") /\ lock' = "free"
      /\ UNCHANGED <<now, catalog, live, bak>> /\ Confuse
  BY DEF CleanUp, Step, Alone
<1>3. CASE wal' = None /\ UNCHANGED count
  BY <1>1, <1>2, <1>3
<1>4. CASE Fail(1, 1) /\ UNCHANGED wal
  BY <1>2, <1>4, FailType
<1> QED BY <1>3, <1>4 DEF CleanUp

LEMMA CommandStep ==
  ASSUME Inv, Command
  PROVE  Inv'
<1> USE DEF Outside
<1>0. /\ TypeOK /\ restore \in RestoreState /\ count \in Counts /\ catalog \subseteq Bundle
      /\ live \in File \cup {None} /\ wal \in File \cup {None} /\ bak \in File \cup {None}
  BY Shapes DEF Inv
<1>1. CASE Begin
  <2>0. PICK b \in catalog :
          restore' = IF b.whole /\ live # None
                     THEN [NoRestore EXCEPT !.pc = "lock", !.bundle = b.id, !.meta = b.meta]
                     ELSE [NoRestore EXCEPT !.result = "refused"]
    BY <1>1 DEF Begin
  <2>b. b.id \in Time /\ b.meta \in 0 .. MaxSchema
    BY <1>0 DEF Bundle
  <2>1. restore' \in RestoreState /\ restore'.pc \in {"idle", "lock"}
    BY <2>0, <2>b, NoRestoreType
  <2>2. restore'.pc = "lock" => live # None
    BY <2>0, <2>b, NoRestoreType
  <2>3. count' \in Counts
    BY <1>0, <1>1, CountFields DEF Begin, Counted
  <2> QED BY <1>1, <2>1, <2>2, <2>3 DEF Inv, TypeOK, Begin, database, Step, LockDiscipline,
             FileThere, ServerReads, Serving, Connected, Attached, Logical, Swapping
<1>2. CASE TakeLock
  <2>1. CASE lock = "free"
    <3>1. live # None
      BY <1>2 DEF Inv, FileThere, TakeLock, Step
    <3>2. restore' \in RestoreState /\ restore'.pc = "check"
      BY <1>0, <1>2, <2>1, <3>1, LogicalType DEF TakeLock, RestoreState, RestorePc
    <3> QED BY <1>0, <1>2, <2>1, <3>1, <3>2 DEF Inv, TypeOK, TakeLock, database, LockDiscipline,
               FileThere, ServerReads, Serving, Connected, Attached, Logical, Swapping
  <2>2. CASE lock # "free"
    BY <1>0, <1>2, <2>2, FinishType DEF Inv, TypeOK, TakeLock, Step, database, LockDiscipline,
       FileThere, ServerReads, Serving, Connected, Attached, Logical, Swapping, Result
  <2> QED BY <2>1, <2>2
<1>3. CASE CheckSchema
  BY <1>0, <1>3, FinishType, GotoType, RestoreFrame DEF Inv, TypeOK, CheckSchema, Step, database,
     FileThere, Swapping, Result, RestorePc
<1>4. CASE Confirm
  BY <1>0, <1>4, FinishType, GotoType, RestoreFrame DEF Inv, TypeOK, Confirm, Step, database,
     FileThere, Swapping, Result, RestorePc
<1>5. CASE MoveAside
  BY <1>0, <1>5, GotoType, RestoreFrame DEF Inv, TypeOK, MoveAside, Step,
     FileThere, Swapping, RestorePc
<1>6. CASE Create
  <2>c. count' = [count EXCEPT !.files = @ + 1]
    BY <1>6 DEF Create, Counted
  <2>f. count.files \in Nat /\ [count EXCEPT !.files = @ + 1] \in Counts
    BY <1>0, CountFields
  <2>0. count' \in Counts /\ count.files + 1 \in Nat
    BY <2>c, <2>f
  <2>1. live' \in File /\ count' \in Counts
    <3>1. CASE live = None
      BY <1>6, <2>0, <3>1 DEF Create, File
    <3>2. CASE live # None
      BY <1>0, <1>6, <2>0, <3>2 DEF Create, File
    <3> QED BY <3>1, <3>2
  <2>2. restore' \in RestoreState /\ restore'.pc = "extract"
    <3>1. restore' = [restore EXCEPT !.pc = "extract", !.torn = live # None]
      BY <1>6 DEF Create
    <3>2. (live # None) \in BOOLEAN
      OBVIOUS
    <3> QED BY <1>0, <3>1, <3>2, RestoreFields DEF RestoreState
  <2>3. server' \in ServerState /\ server'.pc = server.pc
    BY <1>0, <1>6, ConfuseType DEF Create
  <2> QED BY <1>0, <1>6, <2>1, <2>2, <2>3, NoConfusion, RestoreFrame DEF Inv, TypeOK, Create, Step,
             Alone, FileThere, Swapping
<1>7. CASE Extract
  <2>1. live \in File
    BY <1>0, <1>7 DEF Inv, FileThere, Extract, Step
  <2>2. live' \in File
    BY <1>0, <1>7, <2>1 DEF Extract, File, Bundle
  <2>3. count' \in Counts
    BY <1>0, <1>7, CountFields DEF Extract, Counted
  <2> QED BY <1>0, <1>7, <2>2, <2>3, NoConfusion, GotoType, RestoreFrame
         DEF Inv, TypeOK, Extract, Step, FileThere, Swapping, RestorePc
<1>8. CASE ExtractFails
  <2>1. /\ restore.pc \in {"create", "extract"} /\ Finish("rolledback") /\ lock' = "free"
        /\ wal' = wal /\ UNCHANGED <<now, server, catalog>> /\ count' \in Counts
        /\ live' \in {live, bak} /\ bak' \in {bak, None}
    BY <1>0, <1>8, FailureCases
  <2>2. restore' \in RestoreState /\ restore'.pc = "idle"
    BY <1>0, <2>1, FinishType DEF Result
  <2> QED BY <1>0, <2>1, <2>2, RestoreFrame DEF Inv, TypeOK, FileThere, Swapping
<1>9. CASE CleanUp
  <2>1. /\ restore.pc = "clean" /\ Finish("done") /\ lock' = "free"
        /\ UNCHANGED <<now, catalog, live, bak>> /\ Confuse /\ count' \in Counts
        /\ wal' \in {wal, None}
    BY <1>0, <1>9, CleanUpCases
  <2>2. restore' \in RestoreState /\ restore'.pc = "idle"
    BY <1>0, <2>1, FinishType DEF Result
  <2>3. server' \in ServerState /\ server'.pc = server.pc
    BY <1>0, <2>1, ConfuseType
  <2> QED BY <1>0, <2>1, <2>2, <2>3, RestoreFrame DEF Inv, TypeOK, FileThere, Swapping
<1>10. CASE Interrupt
  <2>1. count' \in Counts
    BY <1>0, <1>10, CountFields DEF Interrupt, Counted
  <2> QED BY <1>0, <1>10, <2>1, FinishType DEF Inv, TypeOK, Interrupt, database, LockDiscipline,
             FileThere, ServerReads, Serving, Connected, Attached, Logical, Swapping, Result,
             RestoreState, RestorePc
<1> QED BY <1>1, <1>2, <1>3, <1>4, <1>5, <1>6, <1>7, <1>8, <1>9, <1>10 DEF Command

LEMMA InvStep == Inv /\ [Next]_vars => Inv'
<1> SUFFICES ASSUME Inv, [Next]_vars PROVE Inv'
  OBVIOUS
<1>1. CASE Advance
  <2>1. now' \in Time
    BY <1>1, Shapes, BackupAssumption DEF Inv, Advance, Time
  <2> QED BY <1>1, <2>1, SchedulerFrame DEF Inv, TypeOK, Advance, database, SameConnection
<1>2. CASE BootOpen \/ BootLock \/ Write \/ Migrate \/ Checkpoint \/ CommitAside \/ Stop
  BY <1>2, ServerStep
<1>3. CASE Scheduler
  BY <1>3, SchedulerStep
<1>4. CASE Command
  BY <1>4, CommandStep
<1>5. CASE UNCHANGED vars
  BY <1>5 DEF vars, Inv, TypeOK, LockDiscipline, FileThere, ServerReads, Serving, Connected,
     Attached, Logical
<1> QED BY <1>1, <1>2, <1>3, <1>4, <1>5 DEF Next

LEMMA Invariance == Spec => []Inv
  BY InvInit, InvStep, PTL DEF Spec

\* Every variable keeps its shape.
THEOREM TypeCorrect == Spec => []TypeOK
  BY Invariance, PTL DEF Inv

\* A server that is up and a restore at work never meet, however many servers and
\* restores are started, stopped and interrupted: the flock decides (dblock_unix.go:63).
THEOREM SwapExcludesServerHolds == Spec => []SwapExcludesServer
<1>1. Inv => SwapExcludesServer
  BY DEF Inv, TypeOK, LockDiscipline, SwapExcludesServer, Serving, Swapping
<1> QED BY <1>1, Invariance, PTL

-----------------------------------------------------------------------------
(* What becomes of the database *)

\* A file and its WAL make a readable database.
Sound(file, log) ==
  /\ file # None /\ file.content # Garbage
  /\ log # None => log.id = file.id /\ log.content # Garbage

\* While a restore is at work its result is open.
Pending == restore.pc # "idle" => restore.result = "none"

WholeBundles == \A b \in catalog : b.whole => b.db \in Content

\* Once extracted, the main file is the bundle's, unless a server has written to it too.
Installed ==
  restore.pc = "clean" /\ ~restore.torn =>
    \E b \in catalog : b.id = restore.bundle /\ b.whole /\ live.content = b.db

\* Until then the old database is in its place; afterwards the file moved aside and the
\* WAL left behind hold it together.
KeptAside ==
  ~restore.disturbed =>
    /\ restore.pc \in {"check", "confirm", "move"} => Logical = restore.before
    /\ restore.pc \in {"create", "extract", "clean"} =>
         bak # None /\ Reads(bak, wal) = restore.before

\* Nothing of what can cost an installation its database has happened in it.
Unhurt == count.interrupted = 0 /\ count.ignored = 0 /\ count.strays = 0

\* The same, of readability, which a server started in the middle does not take away but
\* by writing to the new file; and a server that is up has a connection to the database.
Survives ==
  Unhurt =>
    /\ restore.pc \in {"idle", "lock", "check", "confirm", "move"} => Sound(live, wal)
    /\ restore.pc \in {"create", "extract"} => Sound(bak, wal)
    /\ restore.pc = "clean" => ~restore.torn
    /\ Serving => Connected

Fate == Pending /\ WholeBundles /\ Installed /\ KeptAside /\ Survives

LEMMA FateInit == Init => Fate
<1> SUFFICES ASSUME Init PROVE Fate
  OBVIOUS
<1>1. live \in File /\ live.content \in Content
  BY BackupAssumption DEF Init, File, Content
<1>2. ~Serving
  BY DownType DEF Init, Serving
<1> QED BY <1>1, <1>2, NoRestoreType, NoConfusion
       DEF Init, Fate, Pending, WholeBundles, Installed, KeptAside, Survives, Sound

\* Errors, strays and interruptions only add up, and some steps add none.
LEMMA UnhurtBefore ==
  ASSUME TypeOK, [Next]_vars
  PROVE  Unhurt' => Unhurt
<1>1. /\ count \in Counts /\ count.interrupted \in Nat /\ count.ignored \in Nat
      /\ count.strays \in Nat
  BY Shapes DEF Counts
<1>2. ASSUME NEW c \in {"commits", "starts", "restores", "faults", "files", "interrupted", "strays"},
             Counted(c)
      PROVE  Unhurt' => Unhurt
  BY <1>1, <1>2 DEF Counted, Counts, Unhurt
<1>3. UNCHANGED count => (Unhurt' => Unhurt)
  BY DEF Unhurt
<1>4. CASE Advance \/ Stop \/ UNCHANGED vars
  BY <1>3, <1>4 DEF Advance, Stop, vars
<1>5. CASE BootOpen
  <2>1. CASE OpenCreates
    BY <1>1, <2>1 DEF OpenCreates, Counts, Unhurt
  <2>2. CASE OpenReads \/ OpenGarbled
    BY <1>2, <2>2 DEF OpenReads, OpenGarbled
  <2> QED BY <1>5, <2>1, <2>2 DEF BootOpen
<1>6. CASE BootLock \/ Write \/ Migrate \/ Checkpoint \/ CommitAside
  BY <1>2, <1>3, <1>6 DEF BootLock, Write, Migrate, Commit, Checkpoint, CommitAside
<1>7. CASE Scheduler
  BY <1>2, <1>3, <1>7 DEF Scheduler, Fire, Vacuum, Fingerprint, Archive, Close, SnapshotFails, Prune
<1>8. CASE Begin \/ TakeLock \/ CheckSchema \/ Confirm \/ MoveAside \/ Create \/ Extract \/ Interrupt
  BY <1>2, <1>3, <1>8 DEF Begin, TakeLock, CheckSchema, Confirm, MoveAside, Create, Extract, Interrupt
<1>9. CASE ExtractFails
  BY <1>1, <1>9, FailureCases DEF Unhurt
<1>10. CASE CleanUp
  BY <1>1, <1>10, CleanUpCases DEF Unhurt
<1> QED BY <1>4, <1>5, <1>6, <1>7, <1>8, <1>9, <1>10 DEF Next, Command

\* Steps that touch neither the files nor the restore, nor what the server is connected to.
LEMMA FateFrame ==
  ASSUME Fate, UNCHANGED <<live, wal, bak, restore>>, Unhurt' => Unhurt,
         ~Serving' \/ (Serving /\ SameConnection),
         WholeBundles', restore.pc = "clean" => catalog' = catalog
  PROVE  Fate'
  BY DEF Fate, Pending, Installed, KeptAside, Survives, Sound, Logical, Connected, Attached,
     SameConnection, Serving

LEMMA SchedulerConnection ==
  ASSUME TypeOK, Scheduler
  PROVE  Serving /\ SameConnection
<1>1. server \in ServerState
  BY Shapes
<1> QED
  BY <1>1 DEF Scheduler, Fire, Vacuum, Fingerprint, Archive, Close, SnapshotFails, Prune, Task,
     Asleep, Serving, SameConnection, ServerState

\* Outside of the swap a restore is idle or has not looked yet.
LEMMA RestorePcs == TypeOK /\ restore.pc \notin Swapping => restore.pc \in {"idle", "lock"}
  BY Shapes DEF RestoreState, RestorePc, Swapping

LEMMA FateScheduler ==
  ASSUME Inv, Fate, Scheduler
  PROVE  Fate'
<1>1. restore.pc # "clean" /\ UNCHANGED <<live, wal, bak, restore>>
  BY DEF Inv, LockDiscipline, Scheduler, Fire, Vacuum, Fingerprint, Archive, Close, SnapshotFails,
     Prune, Task, Serving, Untouched, database, Swapping
<1>2. (Unhurt' => Unhurt) /\ Serving /\ SameConnection
  BY UnhurtBefore, SchedulerConnection DEF Inv, Next
<1>3. server.task.stage \in Content
  BY Shapes, ServerFields DEF Inv, TaskState
<1>4. WholeBundles'
  <2>0. WholeBundles
    BY DEF Fate
  <2>1. CASE Fire \/ Vacuum \/ Fingerprint \/ SnapshotFails \/ Prune
    <3>1. catalog' \subseteq catalog
      BY <2>1 DEF Fire, Vacuum, Fingerprint, SnapshotFails, Prune
    <3> QED BY <2>0, <3>1 DEF WholeBundles
  <2>2. CASE Archive
    BY <2>0, <2>2 DEF WholeBundles, Archive
  <2>3. CASE Close
    BY <1>3, <2>0, <2>3 DEF WholeBundles, Close
  <2> QED BY <2>1, <2>2, <2>3 DEF Scheduler
<1> QED BY <1>1, <1>2, <1>4, FateFrame

\* What a server does before it has the lock.
LEMMA FateBoot ==
  ASSUME Inv, Fate, BootOpen
  PROVE  Fate'
<1>0. TypeOK /\ restore \in RestoreState /\ count \in Counts
  BY Shapes DEF Inv
<1>1. /\ restore' = [restore EXCEPT !.disturbed = @ \/ lock = "restore",
                                   !.torn = @ \/ (restore.pc = "extract" /\ server'.pc = "open")]
      /\ UNCHANGED <<catalog, bak>>
  BY DEF BootOpen
<1>2. /\ restore'.pc = restore.pc /\ restore'.result = restore.result
      /\ restore'.bundle = restore.bundle /\ restore'.before = restore.before
      /\ restore'.disturbed = (restore.disturbed \/ lock = "restore")
      /\ restore.pc # "extract" => restore'.torn = restore.torn
  BY <1>0, <1>1, RestoreFields DEF RestoreState
<1>3. (Unhurt' => Unhurt) /\ ~Serving'
  BY <1>0, UnhurtBefore, BootType DEF Next, Serving
<1>4. Pending' /\ WholeBundles'
  BY <1>1, <1>2 DEF Fate, Pending, WholeBundles
<1>5. Installed'
  BY <1>1, <1>2, BootType DEF Inv, FileThere, Fate, Installed
<1>6. KeptAside'
  BY <1>2 DEF Inv, LockDiscipline, Swapping, KeptAside
<1>7. Survives'
  BY <1>1, <1>2, <1>3, BootType DEF Fate, Survives, Sound
<1> QED BY <1>4, <1>5, <1>6, <1>7 DEF Fate

\* A server that has the lock serves through its connection, or is a stray.
LEMMA FateLock ==
  ASSUME Inv, Fate, BootLock
  PROVE  Fate'
<1>0. server \in ServerState /\ count \in Counts /\ count.strays \in Nat /\ TypeOK
  BY Shapes DEF Inv, Counts
<1>1. UNCHANGED <<now, live, wal, bak, catalog, restore>>
  BY DEF BootLock, database
<1>2. Unhurt' => Unhurt
  BY <1>0, UnhurtBefore DEF Next
<1>3. Pending' /\ WholeBundles' /\ Installed' /\ KeptAside'
  BY <1>1 DEF Fate, Pending, WholeBundles, Installed, KeptAside, Logical
<1>4. Unhurt' /\ Serving' => Connected'
  <2>1. CASE server' = Down
    BY <2>1, DownType DEF Serving
  <2>2. CASE server' # Down
    <3>1. /\ server' = [server EXCEPT !.pc = "up", !.due = FirstDue]
          /\ IF Connected THEN UNCHANGED count ELSE Counted("strays")
      BY <2>2 DEF BootLock
    <3>2. ~Connected => ~Unhurt'
      BY <1>0, <3>1 DEF Counted, Counts, Unhurt
    <3>3. server'.file = server.file /\ server'.stale = server.stale
      BY <1>0, <3>1 DEF ServerState
    <3> QED BY <1>1, <3>2, <3>3 DEF Connected, Attached
  <2> QED BY <2>1, <2>2
<1>5. Survives'
  BY <1>1, <1>2, <1>4 DEF Fate, Survives, Sound
<1> QED BY <1>3, <1>5 DEF Fate

\* A commit or a checkpoint: no restore is past its first look.
LEMMA FateWrite ==
  ASSUME Inv, Fate, Write \/ Migrate \/ Checkpoint \/ CommitAside
  PROVE  Fate'
<1>0. /\ TypeOK /\ Serving /\ restore.pc \notin Swapping
      /\ live \in File \cup {None} /\ wal \in File \cup {None}
  BY Shapes DEF Inv, LockDiscipline, Write, Migrate, Checkpoint, CommitAside, Serving
<1>1. UNCHANGED <<restore, catalog, bak, server>>
  BY DEF Write, Migrate, Checkpoint, CommitAside, Commit
<1>2. Unhurt' => Unhurt
  BY <1>0, UnhurtBefore DEF Next
<1>3. Pending' /\ WholeBundles' /\ Installed' /\ KeptAside'
  BY <1>0, <1>1 DEF Fate, Pending, WholeBundles, Installed, KeptAside, Swapping
<1>4. Survives'
  <2>1. CASE Checkpoint
    <3>1. wal # None /\ live' = wal /\ wal' \in {wal, None} /\ Connected
      BY <2>1 DEF Checkpoint
    <3>2. Unhurt => wal.id = live.id /\ wal.content # Garbage
      BY <1>0, <3>1, RestorePcs DEF Fate, Survives, Sound
    <3>3. Unhurt => Connected'
      BY <1>0, <1>1, <3>1, <3>2 DEF Connected, Attached
    <3> QED BY <1>0, <1>1, <1>2, <3>1, <3>2, <3>3 DEF Survives, Sound, Swapping
  <2>2. CASE Write \/ Migrate
    <3>1. /\ live' = live /\ wal'.id = live.id /\ wal'.content # Garbage /\ Connected
      BY <1>0, <2>2, WritesCommit, CommitFile DEF Commit, Connected
    <3>2. Connected'
      BY <1>1, <3>1 DEF Connected, Attached
    <3> QED BY <1>0, <1>1, <1>2, <3>1, <3>2 DEF Fate, Survives, Sound, Swapping
  <2>3. CASE CommitAside
    <3>1. ~Unhurt
      BY <1>0, <2>3 DEF CommitAside, Fate, Survives
    <3> QED BY <1>2, <3>1 DEF Survives
  <2> QED BY <2>1, <2>2, <2>3
<1> QED BY <1>3, <1>4 DEF Fate

\* While a restore holds the lock no server is up, nor is one after its step.
LEMMA NoneServing ==
  ASSUME Inv, restore.pc \in Swapping
  PROVE  ~Serving /\ (server'.pc = server.pc => ~Serving')
  BY DEF Inv, LockDiscipline, Serving, TypeOK

\* The steps of the restore, one by one.
LEMMA FateCommand ==
  ASSUME Inv, Fate, Command
  PROVE  Fate'
<1> USE DEF Outside
<1>0. /\ TypeOK /\ restore \in RestoreState /\ count \in Counts /\ catalog' = catalog
      /\ live \in File \cup {None} /\ wal \in File \cup {None} /\ bak \in File \cup {None}
      /\ WholeBundles'
  BY Shapes DEF Inv, Fate, WholeBundles, Command, Begin, TakeLock, CheckSchema, Confirm, MoveAside,
     Create, Alone, Extract, ExtractFails, CleanUp, Interrupt
<1>h. Unhurt' => Unhurt
  BY <1>0, UnhurtBefore DEF Next
<1>g. ASSUME NEW step \in RestorePc, Goto(step)
      PROVE  /\ restore'.pc = step /\ restore'.result = restore.result
             /\ restore'.bundle = restore.bundle /\ restore'.before = restore.before
             /\ restore'.disturbed = restore.disturbed /\ restore'.torn = restore.torn
  BY <1>0, <1>g DEF Goto, RestoreState
<1>f. ASSUME NEW result \in Result, Finish(result)
      PROVE  Pending' /\ Installed' /\ KeptAside' /\ restore'.pc = "idle"
  BY <1>0, <1>f, FinishType DEF Pending, Installed, KeptAside
<1>s. ASSUME UNCHANGED <<live, server>>
      PROVE  (Serving => Connected) => (Serving' => Connected')
  BY <1>s DEF Serving, Connected, Attached
<1>1. CASE Begin
  <2>1. restore'.pc \in {"idle", "lock"} /\ Pending'
    <3>1. PICK b \in catalog :
            restore' = IF b.whole /\ live # None
                       THEN [NoRestore EXCEPT !.pc = "lock", !.bundle = b.id, !.meta = b.meta]
                       ELSE [NoRestore EXCEPT !.result = "refused"]
      BY <1>1 DEF Begin
    <3> QED BY <3>1 DEF NoRestore, Pending
  <2> QED BY <1>0, <1>1, <1>h, <1>s, <2>1
         DEF Begin, Step, database, Fate, Installed, KeptAside, Survives
<1>2. CASE TakeLock
  <2>1. CASE lock = "free"
    <3>1. restore'.pc = "check" /\ restore'.before = Logical /\ restore'.result = restore.result
      BY <1>0, <1>2, <2>1 DEF TakeLock, RestoreState
    <3> QED BY <1>0, <1>2, <1>h, <1>s, <2>1, <3>1
           DEF TakeLock, Step, database, Fate, Pending, Installed, KeptAside, Survives, Logical
  <2>2. CASE lock # "free"
    <3>1. Finish("refused")
      BY <1>2, <2>2 DEF TakeLock
    <3> QED BY <1>0, <1>2, <1>f, <1>h, <1>s, <3>1
           DEF TakeLock, Step, database, Fate, Survives, Result
  <2> QED BY <2>1, <2>2
<1>3. CASE CheckSchema \/ Confirm
  <2>1. /\ restore.pc \in {"check", "confirm"} /\ UNCHANGED <<live, wal, bak, count, server>>
    BY <1>3 DEF CheckSchema, Confirm, Step, database
  <2>2. CASE Goto("confirm") \/ Goto("move")
    BY <1>0, <1>g, <1>h, <1>s, <2>1, <2>2
       DEF RestorePc, Fate, Pending, Installed, KeptAside, Survives, Logical
  <2>3. CASE Finish("refused")
    BY <1>0, <1>f, <1>h, <1>s, <2>1, <2>3 DEF Fate, Survives, Result
  <2> QED BY <1>3, <2>2, <2>3 DEF CheckSchema, Confirm
<1>4. CASE MoveAside
  <2>1. live # None /\ ~Serving'
    BY <1>4, NoneServing DEF Inv, FileThere, MoveAside, Step, Swapping
  <2> QED BY <1>0, <1>4, <1>g, <1>h, <2>1
         DEF MoveAside, Step, RestorePc, Fate, Pending, Installed, KeptAside, Survives, Logical
<1>5. CASE Create
  <2>1. restore.pc = "create" /\ UNCHANGED <<wal, bak>> /\ Confuse
    BY <1>5 DEF Create, Step
  <2>2. /\ restore'.pc = "extract" /\ restore'.result = restore.result
        /\ restore'.before = restore.before /\ restore'.disturbed = restore.disturbed
    BY <1>0, <1>5 DEF Create, RestoreState
  <2>3. ~Serving'
    BY <1>0, <2>1, ConfuseType, NoneServing DEF Swapping
  <2> QED BY <1>0, <1>h, <2>1, <2>2, <2>3 DEF Fate, Pending, Installed, KeptAside, Survives
<1>6. CASE Extract
  <2>1. live \in File
    BY <1>0, <1>6 DEF Inv, FileThere, Extract, Step
  <2>2. PICK b \in catalog :
          /\ b.id = restore.bundle /\ b.whole
          /\ \E content \in {b.db} \cup (IF restore.torn THEN {Garbage} ELSE {}) :
               live' = [live EXCEPT !.content = content]
    BY <1>6 DEF Extract
  <2>3. ~restore.torn => live'.content = b.db
    BY <2>1, <2>2 DEF File
  <2>4. restore'.pc = "clean" /\ restore'.bundle = restore.bundle /\ restore'.result = restore.result
        /\ restore'.before = restore.before /\ restore'.disturbed = restore.disturbed
        /\ restore'.torn = restore.torn
    BY <1>6, <1>g DEF Extract, RestorePc
  <2>5. Installed'
    BY <1>0, <2>2, <2>3, <2>4 DEF Installed
  <2>6. restore.torn => ~Unhurt'
    <3>1. count.strays \in Nat
      BY <1>0 DEF Counts
    <3> QED BY <1>0, <1>6, <3>1 DEF Extract, Counted, Counts, Unhurt
  <2>7. ~Serving'
    BY <1>6, NoneServing DEF Extract, Step, Swapping
  <2> QED BY <1>0, <1>6, <1>h, <2>4, <2>5, <2>6, <2>7
         DEF Extract, Step, Fate, Pending, KeptAside, Survives
<1>7. CASE ExtractFails
  <2>1. /\ restore.pc \in {"create", "extract"} /\ Finish("rolledback") /\ wal' = wal
        /\ server' = server
        /\ \/ live' = bak /\ count'.ignored = count.ignored
           \/ count'.ignored = count.ignored + 1
    BY <1>0, <1>7, FailureCases
  <2>2. count'.ignored = count.ignored + 1 => ~Unhurt'
    <3>1. count.ignored \in Nat
      BY <1>0 DEF Counts
    <3> QED BY <3>1 DEF Unhurt
  <2>3. ~Serving'
    BY <2>1, NoneServing DEF Swapping
  <2> QED BY <1>0, <1>f, <1>h, <2>1, <2>2, <2>3 DEF Result, Fate, Survives
<1>8. CASE CleanUp
  <2>1. /\ restore.pc = "clean" /\ Finish("done") /\ live' = live /\ Confuse
        /\ \/ wal' = None
           \/ count'.ignored = count.ignored + 1
    BY <1>0, <1>8, CleanUpCases
  <2>2. count'.ignored = count.ignored + 1 => ~Unhurt'
    <3>1. count.ignored \in Nat
      BY <1>0 DEF Counts
    <3> QED BY <3>1 DEF Unhurt
  <2>3. ~Serving'
    BY <1>0, <2>1, ConfuseType, NoneServing DEF Swapping
  <2>4. Unhurt => live # None /\ live.content # Garbage
    BY <2>1, NoConfusion DEF Inv, FileThere, Fate, Installed, WholeBundles, Survives
  <2> QED BY <1>0, <1>f, <1>h, <2>1, <2>2, <2>3, <2>4 DEF Result, Fate, Survives, Sound
<1>9. CASE Interrupt
  <2>1. ~Unhurt'
    <3>1. count.interrupted \in Nat
      BY <1>0 DEF Counts
    <3> QED BY <1>0, <1>9, <3>1 DEF Interrupt, Counted, Counts, Unhurt
  <2> QED BY <1>0, <1>9, <1>f, <2>1 DEF Interrupt, Result, Fate, Survives
<1> QED BY <1>1, <1>2, <1>3, <1>4, <1>5, <1>6, <1>7, <1>8, <1>9 DEF Command

LEMMA FateStep == Inv /\ Fate /\ [Next]_vars => Fate'
<1> SUFFICES ASSUME Inv, Fate, [Next]_vars PROVE Fate'
  OBVIOUS
<1>1. CASE Advance \/ Stop \/ UNCHANGED vars
  <2>1. Unhurt' => Unhurt
    BY UnhurtBefore DEF Inv
  <2>2. UNCHANGED <<live, wal, bak, restore, catalog>> /\ (~Serving' \/ server' = server)
    BY <1>1, DownType DEF Advance, Stop, vars, database, Serving
  <2>3. WholeBundles'
    BY <2>2 DEF Fate, WholeBundles
  <2> QED BY <2>1, <2>2, <2>3, FateFrame DEF SameConnection, Serving
<1>6. CASE BootLock
  BY <1>6, FateLock
<1>2. CASE BootOpen
  BY <1>2, FateBoot
<1>3. CASE Write \/ Migrate \/ Checkpoint \/ CommitAside
  BY <1>3, FateWrite
<1>4. CASE Scheduler
  BY <1>4, FateScheduler
<1>5. CASE Command
  BY <1>5, FateCommand
<1> QED BY <1>1, <1>2, <1>3, <1>4, <1>5, <1>6 DEF Next

LEMMA FateHolds == Spec => [](Inv /\ Fate)
  BY InvInit, InvStep, FateInit, FateStep, PTL DEF Spec

\* Whatever servers are started and stopped, and wherever restores fail, the database of
\* an installation can be read when no restore is at work, if none was cut off, none
\* ignored an error (restore.go:233, restore.go:242), and no server came upon one.
THEOREM DatabaseReadableHolds == Spec => []DatabaseReadable
<1>1. Inv /\ Fate => DatabaseReadable
  BY DEF Fate, Survives, Unhurt, Sound, DatabaseReadable, Logical, Reads
<1> QED BY <1>1, FateHolds, PTL

\* A restore at work ends in one of four ways.
LEMMA Ending ==
  ASSUME Inv, Fate, Next, restore.pc \in Swapping, restore'.result \in {"done", "refused", "rolledback"}
  PROVE  \/ CleanUp /\ restore'.result = "done"
         \/ restore.pc \in {"check", "confirm"} /\ UNCHANGED <<live, wal>>
         \/ ExtractFails
<1>0. restore \in RestoreState /\ restore.result = "none" /\ restore.pc \notin {"idle", "lock"}
  BY Shapes DEF Inv, Fate, Pending, Swapping
<1>1. CASE \/ Advance \/ BootOpen \/ BootLock \/ Write \/ Migrate \/ Checkpoint \/ CommitAside
            \/ Stop \/ Scheduler
  <2>1. restore'.result = restore.result
    BY <1>0, <1>1 DEF Advance, BootOpen, BootLock, Write, Migrate, Commit, Checkpoint, CommitAside,
       Stop, Scheduler, Fire, Vacuum, Fingerprint, Archive, Close, SnapshotFails, Prune, Untouched,
       RestoreState
  <2> QED BY <1>0, <2>1
<1>2. CASE MoveAside \/ Create \/ Extract
  BY <1>0, <1>2 DEF MoveAside, Create, Extract, Goto, RestoreState
<1>3. CASE CheckSchema \/ Confirm
  BY <1>3 DEF CheckSchema, Confirm, Step, database
<1>4. CASE CleanUp
  BY <1>0, <1>4 DEF CleanUp, Finish, RestoreState
<1>5. CASE Interrupt
  BY <1>0, <1>5 DEF Interrupt, Finish, RestoreState
<1>6. CASE ExtractFails
  BY <1>6
<1> QED BY <1>0, <1>1, <1>2, <1>3, <1>4, <1>5, <1>6 DEF Next, Command, Begin, TakeLock, Step

\* A restore that says "done" leaves the database of the bundle it was given, if the -wal
\* file could be removed (restore.go:242) and no server had the new file open before it
\* was whole: servers that open the database at any other moment of the restore, also
\* between the extraction and the clean-up, do not matter.
THEOREM RestoreInstallsBundleHolds == Spec => RestoreInstallsBundle
<1> DEFINE Succeeds == /\ restore'.result = "done" /\ restore.pc = "clean"
                       /\ ~restore.torn /\ count'.ignored = count.ignored
           Leaves == \E b \in catalog : b.id = restore.bundle /\ Logical' = b.db
<1>1. Inv /\ Fate /\ [Next]_vars => [Succeeds => Leaves]_vars
  <2> SUFFICES ASSUME Inv, Fate, Next, Succeeds PROVE Leaves
    OBVIOUS
  <2>1. CleanUp
    BY Ending DEF Swapping, ExtractFails
  <2>2. live' = live /\ wal' = None
    <3>1. count.ignored \in Nat
      BY Shapes DEF Inv, Counts
    <3> QED BY <2>1, <3>1, CleanUpCases DEF Inv
  <2> QED BY <2>2 DEF Fate, Installed, Logical, Reads
<1> QED BY <1>1, FateHolds, PTL DEF Spec, RestoreInstallsBundle

\* A restore that is refused, or whose extraction fails, loses no commit, unless a
\* server was started under it or the old file could not be put back (restore.go:233).
THEOREM FailedRestoreKeepsDatabaseHolds == Spec => FailedRestoreKeepsDatabase
<1> DEFINE Fails == /\ restore.pc \notin {"idle", "lock"}
                    /\ restore'.result \in {"refused", "rolledback"}
                    /\ ~restore.disturbed /\ count'.ignored = count.ignored
           Kept == live' # None /\ Logical' = restore.before
<1>1. Inv /\ Fate /\ [Next]_vars => [Fails => Kept]_vars
  <2> SUFFICES ASSUME Inv, Fate, Next, Fails PROVE Kept
    OBVIOUS
  <2>1. restore.pc \in Swapping /\ restore \in RestoreState /\ count.ignored \in Nat
    BY Shapes DEF Inv, RestoreState, RestorePc, Swapping, Counts
  <2>2. CASE restore.pc \in {"check", "confirm"} /\ UNCHANGED <<live, wal>>
    BY <2>2 DEF Inv, FileThere, Fate, KeptAside, Logical
  <2>3. CASE ExtractFails
    <3>1. restore.pc \in {"create", "extract"} /\ live' = bak /\ wal' = wal
      BY <2>1, <2>3, FailureCases DEF Inv
    <3> QED BY <3>1 DEF Fate, KeptAside, Logical
  <2>4. ~CleanUp
    BY <2>1 DEF CleanUp, Finish, RestoreState
  <2> QED BY <2>1, <2>2, <2>3, <2>4, Ending
<1> QED BY <1>1, FateHolds, PTL DEF Spec, FailedRestoreKeepsDatabase

-----------------------------------------------------------------------------
(* What becomes of the backups *)

\* A backup is named after the time its snapshot began, and the next begins later than
\* every entry, also after a restart: so what is in the catalog under the name of the
\* snapshot at work is that snapshot, half written until it is closed.
Named ==
  /\ IsFiniteSet(catalog)
  /\ \A b \in catalog : b.id <= now
  /\ \A b, c \in catalog : b.id = c.id => b = c

TaskNamed ==
  LET task == server.task IN
  IF task.pc = "sleep" THEN \A b \in catalog : b.id < server.due
  ELSE /\ task.id <= now
       /\ \A b \in catalog : b.id <= task.id
       /\ task.pc \in {"vacuum", "fingerprint", "archive"} => \A b \in catalog : b.id # task.id
       /\ task.pc = "close" => \A b \in catalog : b.id = task.id => ~b.whole
       /\ task.pc = "prune" => \E b \in catalog : b.id = task.id /\ b.whole

CatalogInv ==
  /\ Named
  /\ IF Serving THEN TaskNamed ELSE server.task.pc = "sleep"

\* The first backup of a server comes after the newest entry, however that came about.
LEMMA FirstDueLater ==
  ASSUME TypeOK, Named
  PROVE  \A b \in catalog : b.id < FirstDue
<1>1. CASE catalog = {}
  BY <1>1
<1>2. CASE catalog # {}
  <2> DEFINE newest == Max({e.id : e \in catalog})
  <2>1. newest \in Time /\ \A b \in catalog : newest >= b.id
    BY <1>2, Shapes, NewestType
  <2>2. FirstDue = IF now - newest >= Interval THEN now ELSE newest + Interval
    BY <1>2 DEF FirstDue
  <2>3. now \in Nat /\ Interval \in Nat \ {0} /\ Time \subseteq Nat
    BY Shapes, BackupAssumption DEF Time
  <2>4. \A b \in catalog : b.id \in Nat
    BY <2>3, Shapes DEF Bundle
  <2> HIDE DEF newest
  <2> QED BY <2>1, <2>2, <2>3, <2>4
<1> QED BY <1>1, <1>2

\* An entry that has others after it is not the newest.
LEMMA PrunedIsOlder ==
  ASSUME TypeOK, NEW b \in catalog, \A c \in catalog : c.id <= b.id,
         NEW d \in catalog, Newer(d) = Keep
  PROVE  d # b
<1>1. SUFFICES ASSUME d = b PROVE FALSE
  OBVIOUS
<1>2. \A c \in catalog : c.id \in Time
  BY Shapes DEF Bundle
<1>3. Time \subseteq Nat
  BY BackupAssumption DEF Time
<1>4. \A e \in catalog : ~(e.id > d.id)
  <2>1. \A e \in catalog : e.id \in Nat /\ d.id \in Nat /\ e.id <= d.id
    BY <1>1, <1>2, <1>3
  <2> QED BY <2>1
<1>5. Newer(d) = 0
  <2>1. {e \in catalog : e.id > d.id} = {}
    BY <1>4
  <2> QED BY <2>1, FS_EmptySet DEF Newer
<1> QED BY <1>5, BackupAssumption

LEMMA CatalogInit == Init => CatalogInv
  BY FS_EmptySet DEF Init, CatalogInv, Named, Serving, Down, Resting

\* Entries that go leave the others well named; so does a new name.
LEMMA NamedSubset ==
  ASSUME TypeOK, Named, now' = now, catalog' \subseteq catalog
  PROVE  Named'
  BY FS_Subset DEF Named

LEMMA NamedNew ==
  ASSUME TypeOK, Named, now' = now, NEW e,
         e.id <= now, catalog' = {b \in catalog : b.id # e.id} \cup {e}
  PROVE  Named'
<1>1. IsFiniteSet({b \in catalog : b.id # e.id})
  BY FS_Subset DEF Named
<1>2. IsFiniteSet(catalog')
  BY <1>1, FS_AddElement
<1> QED BY <1>2 DEF Named

LEMMA Restarted ==
  /\ Resting.pc = "sleep" /\ Down.pc = "down" /\ Down.task = Resting
  /\ \A id, s : s = [Down EXCEPT !.pc = "open", !.file = id]
                => s.pc = "open" /\ s.task = Resting
  /\ \A id, s : s = [Down EXCEPT !.pc = "open", !.file = id, !.stale = TRUE]
                => s.pc = "open" /\ s.task = Resting
  BY DEF Resting, Down

LEMMA BootTask ==
  ASSUME BootOpen
  PROVE  server'.task = Resting \/ server' = server
<1>1. CASE OpenCreates
  BY <1>1, Restarted DEF OpenCreates
<1>2. CASE OpenReads
  BY <1>2, Restarted DEF OpenReads
<1>3. CASE OpenGarbled
  <2>1. CASE server' = [Down EXCEPT !.pc = "open", !.file = live.id, !.stale = TRUE]
    BY <2>1, Restarted
  <2> QED BY <1>3, <2>1 DEF OpenGarbled
<1> QED BY <1>1, <1>2, <1>3 DEF BootOpen

\* What the scheduler's steps make of its task.
LEMMA TaskSteps ==
  ASSUME TypeOK
  PROVE  /\ Fire => server'.task.pc = "vacuum" /\ server'.task.id = now
         /\ Vacuum => server'.task.pc = "fingerprint" /\ server'.task.id = server.task.id
         /\ Fingerprint => server'.task.pc = "archive" /\ server'.task.id = server.task.id
         /\ Archive => server'.task.pc = "close" /\ server'.task.id = server.task.id
         /\ Close => server'.task.pc = "prune" /\ server'.task.id = server.task.id
         /\ Asleep => server'.task.pc = "sleep" /\ server'.due = now + Interval
<1>1. server \in ServerState /\ server.task \in TaskState
  BY Shapes, ServerFields
<1>2. /\ Fire => server'.task.pc = "vacuum" /\ server'.task.id = now
      /\ Asleep => server'.task.pc = "sleep" /\ server'.due = now + Interval
  <2>1. ASSUME Fire
        PROVE  server'.task.pc = "vacuum" /\ server'.task.id = now
    <3> DEFINE t == [Resting EXCEPT !.pc = "vacuum", !.id = now]
    <3>1. t.pc = "vacuum" /\ t.id = now
      BY DEF Resting
    <3>2. server' = [server EXCEPT !.task = t]
      BY <2>1 DEF Fire
    <3> HIDE DEF t
    <3> QED BY <1>1, <3>1, <3>2 DEF ServerState
  <2>2. ASSUME Asleep
        PROVE  server'.task.pc = "sleep" /\ server'.due = now + Interval
    BY <1>1, <2>2, Restarted DEF Asleep, ServerState
  <2> QED BY <2>1, <2>2
<1>3. /\ Vacuum => server'.task = [server.task EXCEPT !.pc = "fingerprint", !.stage = Logical]
      /\ Fingerprint
           => server'.task = [server.task EXCEPT !.pc = "archive", !.meta = Logical.schema]
  <2>1. ASSUME Vacuum
        PROVE  server' = [server EXCEPT !.task =
                            [server.task EXCEPT !.pc = "fingerprint", !.stage = Logical]]
    BY <1>1, <2>1 DEF Vacuum, ServerState
  <2>2. ASSUME Fingerprint
        PROVE  server' = [server EXCEPT !.task =
                            [server.task EXCEPT !.pc = "archive", !.meta = Logical.schema]]
    BY <1>1, <2>2 DEF Fingerprint, ServerState
  <2> QED BY <1>1, <2>1, <2>2 DEF ServerState
<1>4. /\ Archive => server'.task.pc = "close" /\ server'.task.id = server.task.id
      /\ Close => server'.task.pc = "prune" /\ server'.task.id = server.task.id
  BY <1>1 DEF Archive, Close, ServerState, TaskState
<1> QED BY <1>1, <1>2, <1>3, <1>4 DEF TaskState

LEMMA SchedulerUp ==
  ASSUME TypeOK, Scheduler
  PROVE  Serving'
<1>1. server \in ServerState
  BY Shapes
<1> QED
  BY <1>1 DEF Scheduler, Fire, Vacuum, Fingerprint, Archive, Close, SnapshotFails, Prune, Task,
     Asleep, Serving, ServerState

LEMMA CatalogScheduler ==
  ASSUME TypeOK, CatalogInv, Scheduler
  PROVE  CatalogInv'
<1>0. /\ Named /\ Serving /\ TaskNamed
      /\ now \in Nat /\ server.due \in Nat /\ server.task.id \in Nat /\ Interval \in Nat \ {0}
      /\ now' = now /\ catalog \subseteq Bundle
      /\ \A b \in catalog : b.id \in Nat
  <2>1. server.due \in Nat /\ server.task.id \in Time
    BY Shapes, ServerFields, TaskFields
  <2>2. \A b \in catalog : b.id \in Time
    BY Shapes DEF Bundle
  <2>3. Time \subseteq Nat
    BY BackupAssumption DEF Time
  <2>4. Serving /\ now' = now
    BY DEF Scheduler, Fire, Vacuum, Fingerprint, Archive, Close, SnapshotFails, Prune, Task,
       Untouched
  <2> QED BY <2>1, <2>2, <2>3, <2>4, Shapes, BackupAssumption DEF CatalogInv
<1> USE <1>0
<1>a. Serving'
  BY SchedulerUp
<1>1. SUFFICES Named' /\ TaskNamed'
  BY <1>a DEF CatalogInv
<1>2. CASE Fire
  BY <1>2, TaskSteps, NamedSubset DEF Fire, Task, TaskNamed
<1>3. CASE Vacuum \/ Fingerprint
  <2>1. catalog' = catalog /\ server.task.pc \in {"vacuum", "fingerprint"}
    BY <1>3 DEF Vacuum, Fingerprint, Task
  <2> QED BY <1>3, <2>1, TaskSteps, NamedSubset DEF TaskNamed
<1>4. CASE Archive
  <2> DEFINE e == [id |-> server.task.id, whole |-> FALSE, db |-> Garbage, meta |-> 0]
  <2>1. e.id = server.task.id /\ ~e.whole /\ catalog' = {b \in catalog : b.id # e.id} \cup {e}
    BY <1>4 DEF Archive
  <2> HIDE DEF e
  <2>2. server.task.pc = "archive"
    BY <1>4 DEF Archive, Task
  <2>3. Named'
    BY <2>1, <2>2, NamedNew DEF TaskNamed
  <2> QED BY <1>4, <2>1, <2>2, <2>3, TaskSteps DEF TaskNamed
<1>5. CASE Close
  <2> DEFINE e == [id |-> server.task.id, whole |-> TRUE, db |-> server.task.stage,
                   meta |-> server.task.meta]
  <2>1. e.id = server.task.id /\ e.whole /\ catalog' = {b \in catalog : b.id # e.id} \cup {e}
    BY <1>5 DEF Close
  <2> HIDE DEF e
  <2>2. server.task.pc = "close"
    BY <1>5 DEF Close, Task
  <2>3. Named'
    BY <2>1, <2>2, NamedNew DEF TaskNamed
  <2> QED BY <1>5, <2>1, <2>2, <2>3, TaskSteps DEF TaskNamed
<1>6. CASE SnapshotFails
  <2>1. catalog' \subseteq catalog /\ Asleep
    BY <1>6 DEF SnapshotFails
  <2> QED BY <2>1, TaskSteps, NamedSubset DEF TaskNamed, Named
<1>7. CASE Prune
  <2>1. CASE \E d \in catalog : Newer(d) = Keep /\ catalog' = catalog \ {d} /\ server' = server
    <3>1. PICK d \in catalog : Newer(d) = Keep /\ catalog' = catalog \ {d} /\ server' = server
      BY <2>1
    <3>2. PICK c \in catalog : /\ c.id = server.task.id /\ c.whole
                               /\ \A b \in catalog : b.id <= c.id
      BY <1>7 DEF Prune, Task, TaskNamed
    <3>3. c \in catalog'
      BY <3>1, <3>2, PrunedIsOlder
    <3> QED BY <1>7, <3>1, <3>2, <3>3, NamedSubset DEF Prune, Task, TaskNamed
  <2>2. CASE catalog' = catalog /\ Asleep
    BY <2>2, TaskSteps, NamedSubset DEF TaskNamed, Named
  <2> QED BY <1>7, <2>1, <2>2 DEF Prune
<1> QED BY <1>2, <1>3, <1>4, <1>5, <1>6, <1>7 DEF Scheduler

LEMMA CatalogStep == Inv /\ CatalogInv /\ [Next]_vars => CatalogInv'
<1> SUFFICES ASSUME Inv, CatalogInv, [Next]_vars PROVE CatalogInv'
  OBVIOUS
<1>0. TypeOK /\ now \in Nat /\ \A b \in catalog : b.id \in Nat
  <2>1. \A b \in catalog : b.id \in Time
    BY Shapes DEF Bundle, Inv
  <2> QED BY <2>1, Shapes, BackupAssumption DEF Inv, Time
<1>1. CASE Scheduler
  BY <1>0, <1>1, CatalogScheduler
<1>2. ASSUME UNCHANGED <<now, catalog>>, server'.pc = server.pc, server'.task = server.task,
             server'.due = server.due
      PROVE  CatalogInv'
  BY <1>2 DEF CatalogInv, Named, TaskNamed, Serving
<1>3. CASE Advance
  <2>1. now' = now + 1 /\ UNCHANGED <<server, catalog>>
    BY <1>3 DEF Advance
  <2>2. Named'
    BY <1>0, <2>1 DEF CatalogInv, Named
  <2>3. server.task.id \in Nat
    <3>1. server.task.id \in Time
      BY <1>0, Shapes, ServerFields, TaskFields
    <3> QED BY <3>1, BackupAssumption DEF Time
  <2> QED BY <1>0, <2>1, <2>2, <2>3 DEF CatalogInv, TaskNamed, Serving
<1>4. CASE BootOpen \/ Stop
  <2>1. UNCHANGED <<now, catalog>>
    BY <1>4 DEF BootOpen, Stop
  <2>2. ~Serving'
    BY <1>4, BootType, Restarted DEF Stop, Serving
  <2>3. server'.task.pc = "sleep"
    <3>1. CASE Stop
      BY <3>1, Restarted DEF Stop
    <3>2. CASE BootOpen
      <4>1. server.task.pc = "sleep"
        BY <3>2 DEF BootOpen, CatalogInv, Serving
      <4>2. server'.task = Resting \/ server' = server
        BY <3>2, BootTask
      <4> QED BY <4>1, <4>2, Restarted
    <3> QED BY <1>4, <3>1, <3>2
  <2> QED BY <2>1, <2>2, <2>3 DEF CatalogInv, Named
<1>5. CASE BootLock
  <2>1. UNCHANGED <<now, catalog>>
    BY <1>5 DEF BootLock
  <2>2. Named'
    BY <2>1 DEF CatalogInv, Named
  <2>3. CASE server' = Down
    BY <2>2, <2>3 DEF CatalogInv, Serving, Down, Resting
  <2>4. CASE server' = [server EXCEPT !.pc = "up", !.due = FirstDue]
    <3>1. server'.due = FirstDue /\ server'.task = server.task
      BY <1>0, <2>4, Shapes DEF ServerState
    <3>2. server.task.pc = "sleep"
      BY <1>5 DEF BootLock, CatalogInv, Serving
    <3> QED BY <1>0, <2>1, <2>2, <3>1, <3>2, FirstDueLater DEF CatalogInv, TaskNamed
  <2> QED BY <1>5, <2>3, <2>4 DEF BootLock
<1>6. CASE Create \/ CleanUp
  BY <1>0, <1>2, <1>6, ConfuseType DEF Create, CleanUp, Alone
<1>7. CASE \/ Write \/ Migrate \/ Checkpoint \/ CommitAside \/ UNCHANGED vars
           \/ Command /\ ~(Create \/ CleanUp)
  BY <1>2, <1>7 DEF Write, Migrate, Commit, Checkpoint, CommitAside, Command, Begin, TakeLock,
     CheckSchema, Confirm, MoveAside, Extract, ExtractFails, Interrupt, Outside, vars
<1> QED BY <1>1, <1>3, <1>4, <1>5, <1>6, <1>7 DEF Next, Command

\* Under the names of the snapshot at work nothing complete is lost, and entries go only
\* while a newer one is complete: a crash, a failure or a restart never leaves the
\* catalog with only older backups than it had.
THEOREM NewestBackupStaysHolds == Spec => NewestBackupStays
<1> DEFINE Stays == \A b \in catalog : b.whole => \E c \in catalog' : c.id >= b.id /\ c.whole
<1>1. Inv /\ CatalogInv /\ [Next]_vars => [Stays]_vars
  <2> SUFFICES ASSUME Inv, CatalogInv, Next, NEW b \in catalog, b.whole
               PROVE  \E c \in catalog' : c.id >= b.id /\ c.whole
    OBVIOUS
  <2>0. TypeOK /\ \A c \in catalog : c.id \in Nat
    <3>1. \A c \in catalog : c.id \in Time
      BY Shapes DEF Bundle, Inv
    <3> QED BY <3>1, BackupAssumption DEF Inv, Time
  <2>1. CASE b \in catalog'
    BY <2>0, <2>1
  <2>2. CASE Archive
    BY <2>1, <2>2 DEF Archive, Task, CatalogInv, TaskNamed
  <2>3. CASE Close
    BY <2>1, <2>3 DEF Close, Task, CatalogInv, TaskNamed
  <2>4. CASE SnapshotFails
    BY <2>1, <2>4 DEF SnapshotFails, CatalogInv, TaskNamed
  <2>5. CASE Prune
    <3>1. CASE \E d \in catalog : Newer(d) = Keep /\ catalog' = catalog \ {d}
      <4>1. PICK c \in catalog : /\ c.id = server.task.id /\ c.whole
                                 /\ \A d \in catalog : d.id <= c.id
        BY <2>5 DEF Prune, Task, CatalogInv, TaskNamed
      <4>2. c \in catalog'
        BY <2>0, <3>1, <4>1, PrunedIsOlder
      <4> QED BY <2>0, <4>1, <4>2
    <3>2. CASE catalog' = catalog
      BY <2>1, <3>2
    <3> QED BY <2>5, <3>1, <3>2 DEF Prune
  <2>6. Archive \/ Close \/ SnapshotFails \/ Prune \/ catalog' = catalog
    BY DEF Next, Scheduler, Fire, Vacuum, Fingerprint, Advance, BootOpen, BootLock, Write,
       Migrate, Commit, Checkpoint, CommitAside, Stop, Command, Begin, TakeLock, CheckSchema,
       Confirm, MoveAside, Create, Extract, ExtractFails, CleanUp, Interrupt, Outside, Alone
  <2> QED BY <2>1, <2>2, <2>3, <2>4, <2>5, <2>6
<1> QED
  BY <1>1, CatalogInit, CatalogStep, Invariance, PTL DEF Spec, NewestBackupStays

-----------------------------------------------------------------------------
(* What an application is promised of all this *)

\* From the rename of the old file to the end of the clean-up, the database is the file
\* moved aside with the WAL left behind.
Halfway == restore.pc \in {"create", "extract", "clean"}

\* The copies: the complete backups, and the one the scheduler is making.
Staged == IF server.task.pc \in {"fingerprint", "archive", "close"} THEN {server.task.stage} ELSE {}
Copies == {b.db : b \in {c \in catalog : c.whole}} \cup Staged

Contents == IF Halfway THEN Reads(bak, wal) ELSE Logical

Durable == INSTANCE DurableDatabase WITH
  db <- Contents,
  copies <- Copies,
  last <- count.commits

\* In that time the restore is interrupted, or a server that is started deletes the WAL; a
\* restore ignores an error; or a server comes upon one, before the new file is whole or
\* with a connection the restore left behind.
CutShort == \/ Halfway /\ (Interrupt \/ (BootOpen /\ wal' # wal))
            \/ count'.ignored # count.ignored
            \/ count'.strays # count.strays

\* A main file, and a WAL of its own if there is one, both with a committed content.
Proper(file, log) ==
  /\ file # None /\ file.content \in Content
  /\ log # None => log.id = file.id /\ log.content \in Content

Whole ==
  /\ Pending /\ WholeBundles /\ Installed
  /\ restore.pc = "clean" => ~restore.torn
  /\ Serving => Connected
  /\ IF Halfway THEN Proper(bak, wal) ELSE Proper(live, wal)

DurableInv == Inv /\ CatalogInv /\ Whole

LEMMA DurableInit == Init => Durable!Init /\ DurableInv
<1> SUFFICES ASSUME Init PROVE Durable!Init /\ DurableInv
  OBVIOUS
<1>1. live \in File /\ live.content \in Content /\ live # None
  BY BackupAssumption, NoConfusion DEF Init, File, Content
<1>2. ~Halfway /\ Staged = {} /\ Copies = {}
  BY NoRestoreType DEF Init, Halfway, Staged, Copies, Down, Resting
<1>3. Whole
  BY <1>1, <1>2, FateInit, NoRestoreType, DownType DEF Init, Fate, Whole, Proper, Serving
<1>4. Logical = [data |-> 0, schema |-> 1] /\ count.commits = 0
  BY DEF Init, Logical, Reads
<1> QED BY <1>2, <1>3, <1>4, InvInit, CatalogInit DEF Durable!Init, DurableInv, Contents

\* A database that is read is the committed content of its file or of its WAL.
LEMMA ProperReads ==
  ASSUME NEW file, NEW log, Proper(file, log)
  PROVE  Reads(file, log) \in Content /\ Reads(file, log) # Garbage
  BY NoConfusion DEF Proper, Reads

\* A server that is up and a restore halfway exclude each other.
LEMMA ServingWhole ==
  ASSUME Inv, Whole, Serving
  PROVE  /\ ~Halfway /\ restore.pc # "clean" /\ Contents = Logical /\ Proper(live, wal)
         /\ Connected
  BY DEF Inv, LockDiscipline, Swapping, Halfway, Serving, Contents, Whole

\* Steps that touch neither the files, the commits nor the restore, and end or drop copies.
LEMMA DurableFrame ==
  ASSUME Whole, UNCHANGED <<live, wal, bak, restore, catalog>>, count'.commits = count.commits,
         Staged' \subseteq Staged, Serving' => Connected'
  PROVE  Whole' /\ Durable!Forget
  BY DEF Whole, Pending, WholeBundles, Installed, Proper, Halfway, Durable!Forget, Contents, Logical,
     Copies

LEMMA CommitsSame ==
  ASSUME TypeOK, NEW c \in {"starts", "restores", "faults", "files", "interrupted", "strays"},
         Counted(c)
  PROVE  count'.commits = count.commits
  BY Shapes DEF Counted, Counts

LEMMA DurableScheduler ==
  ASSUME Inv, CatalogInv, Whole, Scheduler
  PROVE  Whole' /\ (Durable!Copy \/ Durable!Forget)
<1>1. Serving /\ UNCHANGED <<live, wal, bak, restore>>
  BY DEF Scheduler, Fire, Vacuum, Fingerprint, Archive, Close, SnapshotFails, Prune, Task,
     Untouched, database
<1>2. /\ TypeOK /\ server \in ServerState /\ server.task \in TaskState
      /\ server.task.stage \in Content
  BY Shapes, ServerFields, TaskFields DEF Inv
<1>3. count'.commits = count.commits
  BY <1>2, CommitsSame DEF Scheduler, Fire, Vacuum, Fingerprint, Archive, Close, SnapshotFails, Prune
<1>4. UNCHANGED <<Contents, Logical>> /\ Contents = Logical
  BY <1>1, ServingWhole DEF Contents, Halfway, Logical
<1>c. Connected'
  BY <1>1, <1>2, ServingWhole, SchedulerConnection DEF Connected, Attached, SameConnection
<1>5. ASSUME WholeBundles' PROVE Whole'
  BY <1>1, <1>c, <1>5, ServingWhole DEF Whole, Pending, Installed, Proper, Halfway
<1>6. WholeBundles
  BY DEF Whole
<1>7. CASE Fire \/ Fingerprint
  <2>1. catalog' = catalog /\ Staged' = Staged
    <3>1. CASE Fire
      BY <1>2, <1>7, <3>1, TaskSteps DEF Fire, Task, Staged
    <3>2. CASE Fingerprint
      <4>1. server' = [server EXCEPT !.task =
                         [server.task EXCEPT !.pc = "archive", !.meta = Logical.schema]]
        BY <1>2, <3>2 DEF Fingerprint, ServerState
      <4>2. server'.task.pc = "archive" /\ server'.task.stage = server.task.stage
        BY <1>2, <4>1 DEF ServerState, TaskState
      <4> QED BY <3>2, <4>2 DEF Fingerprint, Task, Staged
    <3> QED BY <1>7, <3>1, <3>2
  <2> QED BY <1>1, <1>3, <1>c, <2>1, DurableFrame
<1>8. CASE Vacuum
  <2>1. server' = [server EXCEPT !.task =
                     [server.task EXCEPT !.pc = "fingerprint", !.stage = Logical]]
    BY <1>2, <1>8 DEF Vacuum, ServerState
  <2>2. server'.task.pc = "fingerprint" /\ server'.task.stage = Logical
    BY <1>2, <2>1 DEF ServerState, TaskState
  <2>3. catalog' = catalog /\ Staged = {} /\ Staged' = {Logical}
    BY <1>8, <2>2 DEF Vacuum, Task, Staged
  <2>4. Whole'
    BY <1>5, <1>6, <2>3 DEF WholeBundles
  <2> QED BY <1>3, <1>4, <2>3, <2>4 DEF Durable!Copy, Copies
<1>9. CASE Archive
  <2>1. WholeBundles'
    BY <1>6, <1>9 DEF WholeBundles, Archive
  <2>2. server'.task.pc = "close" /\ server'.task.stage = server.task.stage
    BY <1>2, <1>9 DEF Archive, ServerState, TaskState
  <2>3. Copies' \subseteq Copies
    BY <1>9, <2>2 DEF Archive, Task, Copies, Staged
  <2> QED BY <1>3, <1>4, <1>5, <2>1, <2>3 DEF Durable!Forget
<1>10. CASE Close
  <2>1. WholeBundles'
    BY <1>2, <1>6, <1>10 DEF WholeBundles, Close
  <2>2. Staged' = {} /\ Staged = {server.task.stage}
    BY <1>2, <1>10, TaskSteps DEF Close, Task, Staged
  <2>3. Copies' \subseteq Copies
    BY <1>10, <2>2 DEF Close, Copies
  <2> QED BY <1>3, <1>4, <1>5, <2>1, <2>3 DEF Durable!Forget
<1>11. CASE SnapshotFails \/ Prune
  <2>1. catalog' \subseteq catalog /\ (server' = server \/ server'.task.pc = "sleep")
    BY <1>2, <1>11, TaskSteps DEF SnapshotFails, Prune
  <2>2. WholeBundles' /\ Copies' \subseteq Copies
    BY <1>6, <2>1 DEF WholeBundles, Copies, Staged
  <2> QED BY <1>3, <1>4, <1>5, <2>2 DEF Durable!Forget
<1> QED BY <1>7, <1>8, <1>9, <1>10, <1>11 DEF Scheduler

\* A server that is started, and not halfway through a restore that still needs the WAL.
LEMMA DurableBoot ==
  ASSUME Inv, CatalogInv, Whole, BootOpen, ~(Halfway /\ wal' # wal)
  PROVE  Whole' /\ Durable!Forget
<1>0. TypeOK /\ restore \in RestoreState /\ count \in Counts
  BY Shapes DEF Inv
<1>1. /\ restore'.pc = restore.pc /\ restore'.result = restore.result
      /\ restore'.bundle = restore.bundle /\ UNCHANGED <<catalog, bak>>
      /\ restore.pc # "extract" => restore'.torn = restore.torn
  BY <1>0, RestoreFields DEF BootOpen, RestoreState
<1>2. count'.commits = count.commits
  BY <1>0, CommitsSame DEF BootOpen, OpenCreates, OpenReads, OpenGarbled, Counts
<1>3. server'.task.pc = "sleep" \/ server' = server
  BY BootTask, Restarted
<1>4. Copies' \subseteq Copies
  BY <1>1, <1>3 DEF Copies, Staged
<1>5. Pending' /\ WholeBundles' /\ Installed'
  BY <1>1, BootType DEF Inv, FileThere, Whole, Pending, WholeBundles, Installed
<1>s. ~Serving'
  BY BootType DEF Serving
<1>6. CASE Halfway
  BY <1>1, <1>2, <1>4, <1>5, <1>6, <1>s DEF Whole, Halfway, Contents, Durable!Forget
<1>7. CASE ~Halfway
  <2>1. live # None /\ live.content # Garbage
    BY <1>7, NoConfusion DEF Whole, Proper
  <2>2. UNCHANGED <<live, wal>>
    BY <2>1, BootType
  <2> QED BY <1>1, <1>2, <1>4, <1>5, <1>7, <1>s, <2>2
         DEF Whole, Halfway, Contents, Logical, Durable!Forget
<1> QED BY <1>6, <1>7

\* A server that gets the lock and is no stray.
LEMMA DurableLock ==
  ASSUME Inv, Whole, BootLock, count'.strays = count.strays
  PROVE  Whole' /\ Durable!Forget
<1>0. server \in ServerState /\ count \in Counts /\ count.strays \in Nat
  BY Shapes DEF Inv, Counts
<1>1. UNCHANGED <<live, wal, bak, restore, catalog>>
  BY DEF BootLock, database
<1>2. CASE server' = Down
  <2>1. ~Serving' /\ Staged' = {}
    BY <1>2, Restarted DEF Serving, Staged
  <2>2. count'.commits = count.commits
    BY <1>0, CommitsSame DEF BootLock, Inv
  <2> QED BY <1>1, <2>1, <2>2, DurableFrame
<1>3. CASE server' # Down
  <2>1. /\ server' = [server EXCEPT !.pc = "up", !.due = FirstDue]
        /\ IF Connected THEN UNCHANGED count ELSE Counted("strays")
    BY <1>3 DEF BootLock
  <2>2. Connected
    BY <1>0, <2>1 DEF Counted, Counts
  <2>3. server'.file = server.file /\ server'.stale = server.stale /\ server'.task = server.task
    BY <1>0, <2>1 DEF ServerState
  <2>4. Connected' /\ Staged' = Staged
    BY <1>1, <2>2, <2>3 DEF Connected, Attached, Staged
  <2> QED BY <1>1, <2>1, <2>2, <2>4, DurableFrame
<1> QED BY <1>2, <1>3

LEMMA DurableWrite ==
  ASSUME Inv, Whole, Write \/ Migrate \/ Checkpoint
  PROVE  Whole' /\ (Durable!Commit \/ Durable!Forget)
<1>0. TypeOK /\ Serving /\ Connected /\ Attached /\ UNCHANGED <<bak, server, catalog, restore>>
  BY DEF Inv, Write, Migrate, Checkpoint, Commit, Connected
<1>1. /\ ~Halfway /\ ~Halfway' /\ Contents = Logical /\ Contents' = Logical' /\ Proper(live, wal)
      /\ Copies' = Copies
  BY <1>0, ServingWhole DEF Halfway, Contents, Copies, Staged
<1>2. ASSUME Proper(live', wal'), live'.id = live.id PROVE Whole'
  <2>1. Connected'
    BY <1>0, <1>2 DEF Connected, Attached, Proper
  <2> QED BY <1>0, <1>1, <1>2, <2>1, ServingWhole
         DEF Whole, Pending, WholeBundles, Installed, Halfway
<1>3. CASE Checkpoint
  <2>1. /\ Proper(live', wal') /\ Logical' = Logical /\ count' = count
        /\ live'.id = live.id
    BY <1>1, <1>3, Shapes, NoConfusion DEF Checkpoint, Proper, Logical, Reads, Inv
  <2> QED BY <1>1, <1>2, <2>1 DEF Durable!Forget
<1>4. CASE Write \/ Migrate
  <2>1. PICK schema \in {Logical.schema, Logical.schema + 1} \cap (0 .. MaxSchema) : Commit(schema)
    <3>1. Logical \in Content /\ MaxSchema \in Nat
      BY <1>1, ProperReads, BackupAssumption DEF Logical
    <3>2. Logical.schema \in 0 .. MaxSchema
      BY <3>1 DEF Content
    <3>3. CASE Write
      BY <3>2, <3>3 DEF Write
    <3>4. CASE Migrate
      BY <3>1, <3>2, <3>4 DEF Migrate
    <3> QED BY <1>4, <3>3, <3>4
  <2>2. wal' # None /\ wal'.id = live.id /\ wal'.content \in Content
    BY <1>0, <2>1, CommitFile
  <2>3. /\ live' = live /\ wal'.content = [data |-> count.commits + 1, schema |-> schema]
        /\ count'.commits = count.commits + 1
    BY <1>0, <2>1, Shapes DEF Commit, Counted, Counts
  <2>4. Proper(live', wal') /\ Logical' = [data |-> count.commits + 1, schema |-> schema]
    BY <1>1, <2>2, <2>3, NoConfusion DEF Proper, Logical, Reads
  <2> QED BY <1>1, <1>2, <2>1, <2>3, <2>4 DEF Durable!Commit
<1> QED BY <1>3, <1>4

LEMMA DurableCommand ==
  ASSUME Inv, Whole, Command, ~(Halfway /\ Interrupt), count'.ignored = count.ignored,
         count'.strays = count.strays
  PROVE  Whole' /\ (Durable!Restore \/ Durable!Forget)
<1> USE DEF Outside
<1>0. /\ TypeOK /\ restore \in RestoreState /\ count \in Counts
      /\ Copies' = Copies /\ UNCHANGED catalog /\ WholeBundles'
      /\ live \in File \cup {None} /\ wal \in File \cup {None} /\ bak \in File \cup {None}
  <2>1. UNCHANGED catalog
    BY DEF Command, Begin, TakeLock, CheckSchema, Confirm, MoveAside, Create, Extract,
       ExtractFails, CleanUp, Interrupt, Alone
  <2>2. server'.task = server.task
    BY ConfuseType DEF Inv, Command, Begin, TakeLock, CheckSchema, Confirm, MoveAside, Create,
       Extract, ExtractFails, CleanUp, Interrupt
  <2> QED BY <2>1, <2>2, Shapes DEF Inv, Copies, Staged, Whole, WholeBundles
<1>1. count'.commits = count.commits
  <2>1. CASE ExtractFails \/ CleanUp
    BY <1>0, <2>1, FailureCases, CleanUpCases
  <2>2. CASE ~(ExtractFails \/ CleanUp)
    BY <1>0, <2>2, CommitsSame DEF Command, Begin, TakeLock, CheckSchema, Confirm, MoveAside,
       Create, Extract, Interrupt, database
  <2> QED BY <2>1, <2>2
<1>s. ASSUME restore.pc \in Swapping, server'.pc = server.pc
      PROVE  ~Serving /\ ~Serving'
  BY <1>s, NoneServing
<1>c. ASSUME UNCHANGED <<live, server>>
      PROVE  Serving' => Connected'
  BY <1>c DEF Whole, Serving, Connected, Attached
<1>2. ASSUME NEW step \in RestorePc, Goto(step)
      PROVE  /\ restore'.pc = step /\ restore'.result = restore.result
             /\ restore'.bundle = restore.bundle /\ restore'.torn = restore.torn
  BY <1>0, <1>2 DEF Goto, RestoreState
<1>3. ASSUME NEW result \in Result, Finish(result)
      PROVE  restore'.pc = "idle" /\ Pending' /\ Installed'
  BY <1>0, <1>3, FinishType DEF Pending, Installed
<1>4. ASSUME ~Halfway, ~Halfway', Pending', UNCHANGED <<live, wal, server>>
      PROVE  Whole' /\ Durable!Forget
  BY <1>0, <1>1, <1>4, <1>c DEF Whole, Installed, Halfway, Contents, Logical, Durable!Forget
<1>5. CASE Begin
  <2>1. restore'.pc \in {"idle", "lock"} /\ Pending'
    <3>1. PICK b \in catalog :
            restore' = IF b.whole /\ live # None
                       THEN [NoRestore EXCEPT !.pc = "lock", !.bundle = b.id, !.meta = b.meta]
                       ELSE [NoRestore EXCEPT !.result = "refused"]
      BY <1>5 DEF Begin
    <3> QED BY <3>1 DEF NoRestore, Pending
  <2> QED BY <1>4, <1>5, <2>1 DEF Begin, Step, database, Halfway
<1>6. CASE TakeLock
  <2>1. CASE lock = "free"
    <3>1. restore'.pc = "check" /\ restore'.result = restore.result
      BY <1>0, <1>6, <2>1 DEF TakeLock, RestoreState
    <3> QED BY <1>4, <1>6, <2>1, <3>1 DEF TakeLock, Step, database, Halfway, Whole, Pending
  <2>2. CASE lock # "free"
    <3>1. Finish("refused")
      BY <1>6, <2>2 DEF TakeLock
    <3> QED BY <1>3, <1>4, <1>6, <3>1 DEF TakeLock, Step, database, Halfway, Result
  <2> QED BY <2>1, <2>2
<1>7. CASE CheckSchema \/ Confirm
  <2>1. restore.pc \in {"check", "confirm"} /\ UNCHANGED <<live, wal, server>>
    BY <1>7 DEF CheckSchema, Confirm, Step, database
  <2>2. CASE Goto("confirm") \/ Goto("move")
    BY <1>2, <1>4, <2>1, <2>2 DEF RestorePc, Halfway, Whole, Pending
  <2>3. CASE Finish("refused")
    BY <1>3, <1>4, <2>1, <2>3 DEF Result, Halfway
  <2> QED BY <1>7, <2>2, <2>3 DEF CheckSchema, Confirm
<1>8. CASE MoveAside
  <2>1. restore.pc = "move" /\ restore'.pc = "create" /\ restore'.result = restore.result
    BY <1>2, <1>8 DEF MoveAside, Step, RestorePc
  <2>2. ~Serving'
    BY <1>8, <1>s, <2>1 DEF MoveAside, Swapping
  <2> QED BY <1>0, <1>1, <1>8, <2>1, <2>2 DEF MoveAside, Whole, Pending, Installed, Proper, Halfway,
             Contents, Logical, Durable!Forget
<1>9. CASE Create
  <2>1. restore.pc = "create" /\ restore'.pc = "extract" /\ restore'.result = restore.result
    BY <1>0, <1>9 DEF Create, Step, RestoreState
  <2>2. ~Serving'
    BY <1>0, <1>9, <1>s, <2>1, ConfuseType DEF Create, Swapping
  <2> QED BY <1>0, <1>1, <1>9, <2>1, <2>2 DEF Create, Whole, Pending, Installed, Proper, Halfway,
             Contents, Durable!Forget
<1>10. CASE Extract
  <2>0. ~restore.torn
    <3>1. count.strays \in Nat
      BY <1>0 DEF Counts
    <3> QED BY <1>0, <1>10, <3>1 DEF Extract, Counted, Counts
  <2>1. PICK b \in catalog :
          b.id = restore.bundle /\ b.whole /\ live' = [live EXCEPT !.content = b.db]
    BY <1>10, <2>0 DEF Extract
  <2>2. live' # None /\ live'.content = b.db
    <3>1. live \in File /\ b.db \in Content \cup {Garbage}
      BY <1>0, <1>10, <2>1, Shapes DEF Inv, FileThere, Extract, Step, Bundle
    <3>2. live' \in File /\ live'.content = b.db
      BY <2>1, <3>1 DEF File
    <3> QED BY <3>2, NoConfusion
  <2>3. /\ restore.pc = "extract" /\ restore'.pc = "clean" /\ restore'.result = restore.result
        /\ restore'.bundle = restore.bundle /\ ~restore'.torn
    BY <1>2, <1>10, <2>0 DEF Extract, Step, RestorePc
  <2>4. Installed'
    BY <1>0, <2>1, <2>2, <2>3 DEF Installed
  <2>5. ~Serving'
    BY <1>10, <1>s, <2>3 DEF Extract, Swapping
  <2> QED BY <1>0, <1>1, <1>10, <2>3, <2>4, <2>5 DEF Extract, Whole, Pending, Proper, Halfway,
             Contents, Durable!Forget
<1>11. CASE ExtractFails
  <2>0. count.ignored \in Nat
    BY <1>0 DEF Counts
  <2>1. /\ restore.pc \in {"create", "extract"} /\ Finish("rolledback")
        /\ live' = bak /\ wal' = wal /\ server' = server
    BY <1>0, <1>11, <2>0, FailureCases
  <2>2. Halfway /\ ~Halfway' /\ Pending' /\ Installed' /\ restore'.pc = "idle" /\ ~Serving'
    BY <1>3, <1>s, <2>1 DEF Halfway, Result, Swapping
  <2> QED BY <1>0, <1>1, <2>1, <2>2 DEF Whole, Proper, Contents, Logical, Durable!Forget
<1>12. CASE CleanUp
  <2>0. count.ignored \in Nat
    BY <1>0 DEF Counts
  <2>1. restore.pc = "clean" /\ Finish("done") /\ live' = live /\ wal' = None /\ Confuse
    BY <1>0, <1>12, <2>0, CleanUpCases
  <2>2. Halfway /\ ~Halfway' /\ Pending' /\ Installed' /\ restore'.pc = "idle" /\ ~Serving'
    BY <1>0, <1>3, <1>s, <2>1, ConfuseType DEF Halfway, Result, Swapping
  <2>3. PICK b \in catalog : b.whole /\ live.content = b.db
    BY <2>1 DEF Whole, Installed
  <2>4. live # None /\ live.content \in Content /\ Logical' = live.content /\ b.db \in Copies
    BY <2>1, <2>3 DEF Inv, FileThere, Whole, WholeBundles, Logical, Reads, Copies
  <2> QED BY <1>0, <1>1, <2>1, <2>2, <2>3, <2>4 DEF Whole, Proper, Contents, Durable!Restore
<1>13. CASE Interrupt
  <2>1. ~Halfway /\ ~Halfway' /\ Pending' /\ UNCHANGED <<live, wal, server>>
    BY <1>3, <1>13 DEF Interrupt, database, Halfway, Result
  <2> QED BY <1>4, <2>1
<1> QED BY <1>5, <1>6, <1>7, <1>8, <1>9, <1>10, <1>11, <1>12, <1>13 DEF Command

LEMMA DurableStep ==
  ASSUME DurableInv, [Next]_vars, [~CutShort]_vars
  PROVE  DurableInv' /\ [Durable!Next]_<<Contents, Copies, count.commits>>
<1>0. Inv /\ CatalogInv /\ Whole /\ Inv' /\ CatalogInv'
  BY InvStep, CatalogStep DEF DurableInv
<1>k. count'.ignored = count.ignored /\ count'.strays = count.strays
  BY DEF CutShort, vars
<1>1. CASE Scheduler
  BY <1>0, <1>1, DurableScheduler DEF DurableInv, Durable!Next
<1>2. CASE BootOpen
  <2>1. ~(Halfway /\ wal' # wal)
    BY <1>2 DEF CutShort, vars
  <2> QED BY <1>0, <1>2, <2>1, DurableBoot DEF DurableInv, Durable!Next
<1>3. CASE Write \/ Migrate \/ Checkpoint
  BY <1>0, <1>3, DurableWrite DEF DurableInv, Durable!Next
<1>4. CASE Command
  <2>1. Interrupt => count' # count
    <3>1. count.interrupted \in Nat /\ count \in Counts
      BY <1>0, Shapes DEF Inv, Counts
    <3> QED BY <3>1 DEF Interrupt, Counted, Counts
  <2>2. ~(Halfway /\ Interrupt)
    BY <2>1 DEF CutShort, vars
  <2> QED BY <1>0, <1>4, <1>k, <2>2, DurableCommand DEF DurableInv, Durable!Next
<1>5. CASE BootLock
  BY <1>0, <1>5, <1>k, DurableLock DEF DurableInv, Durable!Next
<1>6. CASE CommitAside
  BY <1>0, <1>6 DEF CommitAside, Whole
<1>7. CASE Advance \/ Stop \/ UNCHANGED vars
  <2>1. UNCHANGED <<live, wal, bak, restore, catalog, count>> /\ (server' = Down \/ server' = server)
    BY <1>7 DEF Advance, Stop, vars, database
  <2>2. Staged' \subseteq Staged
    BY <2>1, Restarted DEF Staged
  <2>3. Serving' => Connected'
    BY <1>0, <2>1, Restarted DEF Whole, Serving, Connected, Attached
  <2> QED BY <1>0, <2>1, <2>2, <2>3, DurableFrame DEF DurableInv, Durable!Next
<1> QED BY <1>1, <1>2, <1>3, <1>4, <1>5, <1>6, <1>7 DEF Next

\* Two processes, three files, an advisory lock and a catalog behave together as one
\* database: commits apply in order to what was there, a backup is one state it had, and
\* a restore puts such a state back as a whole or changes nothing.  That is so as long as
\* nobody interrupts the restore, or starts a server that deletes the WAL, between the
\* rename of the old file and the end of the clean-up (restore.go:227 to restore.go:243);
\* no rename and no removal fails whose error the restore ignores (restore.go:233,
\* restore.go:242); and no server has the new file open before it is whole, or goes on
\* to serve with a connection the restore left behind (main.go:392).  Each is needed.
THEOREM ImplementsDurableDatabase == Spec /\ [][~CutShort]_vars => Durable!Spec
<1>1. Init => Durable!Init /\ DurableInv
  BY DurableInit
<1>2. DurableInv /\ [Next]_vars /\ [~CutShort]_vars
      => DurableInv' /\ [Durable!Next]_<<Contents, Copies, count.commits>>
  BY DurableStep
<1> QED BY <1>1, <1>2, PTL DEF Spec, Durable!Spec
=============================================================================
