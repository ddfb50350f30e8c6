---------------------------- MODULE PagesDeploy ----------------------------
(***************************************************************************)
(* `mar deploy` to Cloudflare Pages: processes that build into the same    *)
(* dist/, upload what the asset store lacks, commit the assets to the      *)
(* project and create a deployment whose manifest names them.  Every call  *)
(* may succeed, fail before it has any effect, or fail after.              *)
(***************************************************************************)
EXTENDS Naturals, FiniteSets, FiniteSetsExt, Functions

CONSTANTS
  Process,
  None,
  Versions,   \* what the source builds to: functions from path to content key
  BatchSize,  \* cfUploadBatchSize
  MaxRuns     \* bound: commands started

VARIABLES
  source,       \* the version on disk
  dist,         \* the directory of the last builds: path to content key
  project,      \* the Pages project exists
  store,        \* keys in the asset store
  committed,    \* keys upserted into the project
  deployments,  \* the manifests of its deployments
  runs,
  proc          \* each process

remote == <<project, store, committed, deployments>>
vars == <<source, dist, remote, runs, proc>>

\* Observers: built, the version this process built; alone, no other command ran since it
\* started.
Blank == [pc |-> "idle", exit |-> None, tty |-> FALSE, files |-> <<>>, missing |-> {},
          built |-> None, alone |-> TRUE]

Active == {i \in Process : proc[i].pc \notin {"idle", "done"}}
Exit(q, code) == [q EXCEPT !.pc = "done", !.exit = code]
Ends(i, q) == proc' = [proc EXCEPT ![i] = q]
Goto(i, pc) == Ends(i, [proc[i] EXCEPT !.pc = pc])
Fails(i) == Ends(i, Exit(proc[i], 1))

Init ==
  /\ source \in Versions
  /\ dist = <<>>
  /\ project = FALSE /\ store = {} /\ committed = {} /\ deployments = {}
  /\ runs = 0
  /\ proc = [i \in Process |-> Blank]

Edit ==
  /\ source' \in Versions \ {source}
  /\ UNCHANGED <<dist, remote, runs, proc>>

\* mar.json, the token's variable and the topology are checked before the first call.
Start(i) ==
  /\ proc[i].pc \in {"idle", "done"}
  /\ runs < MaxRuns
  /\ runs' = runs + 1
  /\ \E tty \in BOOLEAN, ok \in BOOLEAN :
       LET q == [Blank EXCEPT !.tty = tty, !.alone = Active = {}] IN
       proc' = [j \in Process |-> IF j = i THEN IF ok THEN [q EXCEPT !.pc = "project"] ELSE Exit(q, 1)
                                  ELSE [proc[j] EXCEPT !.alone = @ /\ j \notin Active]]
  /\ UNCHANGED <<source, dist, remote>>

\* Without a terminal a missing project is reported, and the command ends with 0.
CheckProject(i) ==
  /\ proc[i].pc = "project"
  /\ \/ Goto(i, IF project THEN "build" ELSE "create")
     \/ Fails(i)
  /\ UNCHANGED <<source, dist, remote, runs>>

Decline(i) ==
  /\ proc[i].pc = "create"
  /\ Ends(i, Exit(proc[i], 0))
  /\ UNCHANGED <<source, dist, remote, runs>>

CreateProject(i) ==
  /\ proc[i].pc = "create" /\ proc[i].tty
  /\ \/ ~project /\ project' = TRUE /\ Goto(i, "build")
     \/ project' \in {project, TRUE} /\ Fails(i)
  /\ UNCHANGED <<source, dist, store, committed, deployments, runs>>

\* A build writes its files over what is there and removes nothing.
Written(files, dir) ==
  [path \in DOMAIN files \cup DOMAIN dir |->
     IF path \in DOMAIN files THEN files[path] ELSE dir[path]]

Build(i) ==
  /\ proc[i].pc = "build"
  /\ \/ /\ dist' = Written(source, dist)
        /\ Ends(i, [proc[i] EXCEPT !.pc = "collect", !.built = source])
     \/ Fails(i) /\ UNCHANGED dist
  /\ UNCHANGED <<source, remote, runs>>

\* The contents are held in memory from here on.
CollectDistAssets(i) ==
  /\ proc[i].pc = "collect"
  /\ \/ Ends(i, [proc[i] EXCEPT !.pc = "missing", !.files = dist])
     \/ Fails(i)
  /\ UNCHANGED <<source, dist, remote, runs>>

\* Mutant: When the store has everything there is nothing to commit.
CheckMissing_SkipsUpsert(i) ==
  /\ proc[i].pc = "missing"
  /\ \/ LET lacks == Range(proc[i].files) \ store IN
        Ends(i, [proc[i] EXCEPT !.pc = IF lacks = {} THEN "deployment" ELSE "upload",
                                !.missing = lacks])
     \/ Fails(i)
  /\ UNCHANGED <<source, dist, remote, runs>>

\* With the upload token, which any process that gets this far is given.
CheckMissing(i) ==
  /\ proc[i].pc = "missing"
  /\ \/ LET lacks == Range(proc[i].files) \ store IN
        Ends(i, [proc[i] EXCEPT !.pc = IF lacks = {} THEN "upsert" ELSE "upload", !.missing = lacks])
     \/ Fails(i)
  /\ UNCHANGED <<source, dist, remote, runs>>

\* One batch a call, in some order; the last may be smaller.
Batches(s) == {b \in SUBSET s : Cardinality(b) = Min({BatchSize, Cardinality(s)})}

UploadMissing(i) ==
  /\ proc[i].pc = "upload"
  /\ \E b \in Batches(proc[i].missing) :
       LET rest == proc[i].missing \ b IN
       \/ /\ store' = store \cup b
          /\ \/ Ends(i, [proc[i] EXCEPT !.missing = rest, !.pc = IF rest = {} THEN "upsert" ELSE "upload"])
             \/ Fails(i)
       \/ Fails(i) /\ UNCHANGED store
  /\ UNCHANGED <<source, dist, project, committed, deployments, runs>>

\* The store keeps what it is told to commit only if it has it.
Commit(keys) == committed' = committed \cup (keys \cap store)

UpsertHashes(i) ==
  /\ proc[i].pc = "upsert"
  /\ \/ Commit(Range(proc[i].files)) /\ (Goto(i, "deployment") \/ Fails(i))
     \/ Fails(i) /\ UNCHANGED committed
  /\ UNCHANGED <<source, dist, project, store, deployments, runs>>

\* Waiting for the address to serve the bundle, and opening it, decides nothing.
CreateDeployment(i) ==
  /\ proc[i].pc = "deployment"
  /\ \/ /\ project /\ deployments' = deployments \cup {proc[i].files}
        /\ Ends(i, Exit(proc[i], 0)) \/ Fails(i)
     \/ Fails(i) /\ UNCHANGED deployments
  /\ UNCHANGED <<source, dist, project, store, committed, runs>>

Next ==
  \/ Edit
  \/ \E i \in Process :
       \/ Start(i) \/ CheckProject(i) \/ Decline(i) \/ CreateProject(i) \/ Build(i)
       \/ CollectDistAssets(i) \/ CheckMissing(i) \/ UploadMissing(i) \/ UpsertHashes(i)
       \/ CreateDeployment(i)

Spec == Init /\ [][Next]_vars

-----------------------------------------------------------------------------
TypeOK ==
  /\ source \in Versions
  /\ committed \subseteq store
  /\ \A i \in Process : DOMAIN proc[i] = DOMAIN Blank

\* No deployment names an asset that is not uploaded and committed to the project, whatever
\* failed and was run again before, and whoever uploaded it; and what a process deployed
\* while no other ran is what it built, and no older file under one of its paths
\* (runCloudflarePagesDeploy).
DeploymentsServable ==
  /\ \A d \in deployments : Range(d) \subseteq store \cap committed
  /\ \A i \in Process : proc[i].exit = 0 /\ proc[i].files # <<>> =>
       /\ proc[i].files \in deployments
       /\ proc[i].alone => \A path \in DOMAIN proc[i].built : proc[i].files[path] = proc[i].built[path]
=============================================================================
