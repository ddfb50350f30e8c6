----------------------------- MODULE FlyDeploy -----------------------------
(***************************************************************************)
(* `mar deploy` to Fly, `mar fly destroy` and `mar fly secrets set/unset`: *)
(* processes on operators' machines that change one Fly app by calls to    *)
(* the fly command.  Every call may succeed, fail before it has any        *)
(* effect, or fail after; two processes may run at once; mar.json may be   *)
(* edited while a deploy, which reads it four times, runs.                 *)
(***************************************************************************)
EXTENDS Manifest, FiniteSets

CONSTANTS
  Process,   \* the processes, each one command
  None,
  Sources,   \* project directories as an edit can leave them
  MaxRuns    \* bound: commands started

\* The values of a secret are classes: generated, of 32 bytes (auth.Token), or typed by the
\* operator, long enough for a session secret or "short".
ASSUME FlyDeployAssumption ==
  /\ MaxRuns \in Nat
  /\ None \notin Sources /\ None \notin Nat
  /\ "random" \in Long
  /\ \A p \in Sources : Fields \subseteq DOMAIN p.manifest

Volume == [v \in {"MAR_DATABASE_PATH"} |-> "/data"]

VARIABLES
  file,     \* the project on disk
  app,      \* the Fly app exists
  volumes,  \* its volumes of the canonical name
  secrets,  \* its secrets: who generated the value, or what the operator typed
  release,  \* the project its machine runs, or None
  runs,
  proc      \* each process

cloud == <<app, volumes, secrets, release>>
vars == <<file, cloud, runs, proc>>

\* artifact: the project that was built.  Observers: clean, no call of this command failed,
\* no prompt was refused, no other command ran meanwhile, nobody edited the project and the
\* operator had not given the server a session secret it refuses; alone, no other command ran since it
\* started; blind, `fly volumes list` failed.
Blank == [pc |-> "idle", exit |-> None, tty |-> FALSE, source |-> None,
          missing |-> {}, artifact |-> None, serves |-> FALSE,
          clean |-> TRUE, alone |-> TRUE, blind |-> FALSE]

Active == {i \in Process : proc[i].pc \notin {"idle", "done"}}
Server(p) == p.topology = "server"
\* What is left of a command that was disturbed is its exit code.
Ended(code) == [Blank EXCEPT !.pc = "done", !.exit = code, !.clean = FALSE]
Exit(q, code) == IF q.clean THEN [Ended(code) EXCEPT !.clean = TRUE, !.tty = q.tty, !.source = q.source]
                 ELSE Ended(code)
Goto(i, pc) == proc' = [proc EXCEPT ![i].pc = pc]
Ends(i, q) == proc' = [proc EXCEPT ![i] = q]
Serves(p, s) == p # None /\ (Server(p) => Boots(p, Over(s, Volume)))

Init ==
  /\ file \in Sources
  /\ app = FALSE /\ volumes = 0 /\ secrets = <<>> /\ release = None
  /\ runs = 0
  /\ proc = [i \in Process |-> Blank]

\* Two commands that run at once disturb each other.
Begin(i, q) ==
  /\ proc[i].pc \in {"idle", "done"}
  /\ runs < MaxRuns
  /\ runs' = runs + 1
  /\ proc' = [j \in Process |->
       IF j = i THEN [q EXCEPT !.clean = Active = {}, !.alone = Active = {}]
       ELSE IF j \in Active THEN [proc[j] EXCEPT !.clean = FALSE, !.alone = FALSE]
       ELSE proc[j]]
  /\ UNCHANGED <<file, cloud>>

Edit(p) ==
  /\ p # file
  /\ file' = p
  /\ proc' = [j \in Process |-> IF j \in Active THEN [proc[j] EXCEPT !.clean = FALSE] ELSE proc[j]]
  /\ UNCHANGED <<cloud, runs>>

-----------------------------------------------------------------------------
\* mar deploy.  Everything that can be found out without Fly is, before the first call.

Accepts(p) ==
  /\ Load(p.manifest, "structure", <<>>) # Error
  /\ ValidateDeployFly(p.manifest)
  /\ p.topology # None
  /\ Server(p) => ValidateProductionConfig(p)

Deploy(i) ==
  \E tty \in BOOLEAN :
    LET q == [Blank EXCEPT !.tty = tty, !.source = file] IN
    Begin(i, IF Accepts(file) THEN [q EXCEPT !.pc = "auth"] ELSE Exit(q, 1))

\* Not logged in, and `fly auth login` fails.
Auth(i) ==
  /\ proc[i].pc = "auth"
  /\ Goto(i, "probe") \/ Ends(i, Ended(1))
  /\ UNCHANGED <<file, cloud, runs>>

\* Any failure of `fly status` reads as: there is no such app.
Probe(i) ==
  /\ proc[i].pc = "probe"
  /\ \E failed \in BOOLEAN :
       Ends(i, [proc[i] EXCEPT !.pc = IF app /\ ~failed THEN "volumes" ELSE "create",
                               !.clean = @ /\ ~failed])
  /\ UNCHANGED <<file, cloud, runs>>

Decline(i) ==
  /\ proc[i].pc = "create" /\ proc[i].tty
  /\ Ends(i, Ended(0))
  /\ UNCHANGED <<file, cloud, runs>>

\* The name may be taken, also by this account's own app.
Create(i) ==
  /\ proc[i].pc = "create"
  /\ LET free == ~app /\ ~IsRef(proc[i].source.manifest.flyApp) IN
     \/ /\ free /\ app' = TRUE
        /\ Goto(i, "volumes") \/ Ends(i, Ended(1))
     \/ /\ Ends(i, IF free THEN Ended(1) ELSE Exit(proc[i], 1))
        /\ UNCHANGED app
  /\ UNCHANGED <<file, volumes, secrets, release, runs>>

\* A listing that fails reads as: there is no volume.
ListVolumes(i) ==
  /\ proc[i].pc = "volumes"
  /\ IF ~Server(proc[i].source) THEN Goto(i, "secrets")
     ELSE \E failed \in BOOLEAN :
            Ends(i, [proc[i] EXCEPT
              !.pc = IF failed \/ ~app \/ volumes = 0 THEN "newVolume" ELSE "secrets",
              !.blind = failed, !.clean = @ /\ ~failed])
  /\ UNCHANGED <<file, cloud, runs>>

CreateVolume(i) ==
  /\ proc[i].pc = "newVolume"
  /\ \/ /\ app /\ volumes' = volumes + 1
        /\ Goto(i, "secrets") \/ Ends(i, Ended(1))
     \/ Ends(i, Ended(1)) /\ UNCHANGED volumes
  /\ UNCHANGED <<file, app, secrets, release, runs>>

\* Mutant: A listing that fails reads as: everything is missing.
MissingSecrets_All(i, listed) == EnvRefs(file.manifest) \ (IF listed THEN DOMAIN secrets ELSE {})

\* A listing that fails reads as: nothing is missing.
MissingSecrets(i, listed) == IF listed THEN EnvRefs(file.manifest) \ DOMAIN secrets ELSE {}

ListSecrets(i) ==
  /\ proc[i].pc = "secrets"
  /\ \E listed \in BOOLEAN :
       LET q == [proc[i] EXCEPT !.missing = MissingSecrets(i, listed /\ app),
                                !.clean = @ /\ listed] IN
       Ends(i, IF q.missing = {} THEN [q EXCEPT !.pc = "build"]
               ELSE IF q.tty THEN [q EXCEPT !.pc = "prompt"]
               ELSE Exit(q, 1))
  /\ UNCHANGED <<file, cloud, runs>>

\* A fresh random session secret, and for the rest what the operator types, of any length.
Prompted(i) ==
  {s \in [proc[i].missing -> {"random", "typed", "short"}] :
     \A v \in proc[i].missing :
       s[v] = "random" <=> proc[i].source.manifest.sessionSecret = Env(v)}

SetMissing(i) ==
  /\ proc[i].pc = "prompt"
  /\ \/ /\ app /\ \E s \in Prompted(i) : secrets' = Over(s, secrets)  \* one call sets all
        /\ Goto(i, "build") \/ Ends(i, Ended(1))
     \/ Ends(i, Ended(1)) /\ UNCHANGED secrets  \* the call fails, or five empty answers
  /\ UNCHANGED <<file, app, volumes, release, runs>>

\* Build validates again what it is about to package, and packages what is there now.
Build(i) ==
  /\ proc[i].pc = "build"
  /\ \/ /\ Load(file.manifest, "structure", <<>>) # Error /\ file.topology # None
        /\ Server(proc[i].source) /\ Server(file) => ValidateProductionConfig(file)
        /\ Ends(i, [proc[i] EXCEPT !.pc = "push", !.artifact = file])
     \/ Ends(i, Ended(1))
  /\ UNCHANGED <<file, cloud, runs>>

\* `fly deploy`: the mount needs a volume, the Dockerfile the name of the binary, which is
\* the manifest's; a project edited to the other topology has left no such file.
Packaged(q) ==
  /\ Server(q.artifact) = Server(q.source)
  /\ Server(q.source) => q.source.manifest.name # "" /\ q.source.manifest.name = q.artifact.manifest.name

Push(i) ==
  /\ proc[i].pc = "push"
  /\ LET fits == app /\ Packaged(proc[i]) /\ (Server(proc[i].source) => volumes > 0) IN
     \/ /\ fits /\ release' = proc[i].artifact
        /\ Goto(i, "health") \/ Ends(i, Ended(1))
     \/ /\ Ends(i, IF fits THEN Ended(1) ELSE Exit(proc[i], 1))
        /\ UNCHANGED release
  /\ UNCHANGED <<file, app, volumes, secrets, runs>>

\* The server was given a session secret by the operator, and refuses it for its length.
Refused ==
  /\ release # None
  /\ LET f == release.manifest.sessionSecret IN
     IsRef(f) /\ f[2] \in DOMAIN secrets /\ secrets[f[2]] \notin Long \cup {"random"}

\* Any answer below 500 is healthy; one that never comes is a failure.
Health(i) ==
  /\ proc[i].pc = "health"
  /\ LET up == app /\ Serves(release, secrets) IN
     \/ up /\ Ends(i, [Exit(proc[i], 0) EXCEPT !.serves = release = proc[i].artifact])
     \/ ~up /\ Ends(i, IF Refused THEN Ended(1) ELSE Exit(proc[i], 1))
     \/ Ends(i, Ended(1))
  /\ UNCHANGED <<file, cloud, runs>>

-----------------------------------------------------------------------------
\* The other commands.  Prompts refused, bad manifests and failed logins end them before
\* they do anything; what is left is one call.
Once(i, command) == Begin(i, [Blank EXCEPT !.pc = command])

Destroy(i) ==
  /\ proc[i].pc = "destroy"
  /\ app
  /\ app' = FALSE /\ volumes' = 0 /\ secrets' = <<>> /\ release' = None
  /\ \E code \in {0, 1} : Ends(i, Exit(proc[i], code))
  /\ UNCHANGED <<file, runs>>

\* The operator's own value; a session secret may turn out too short for the server.
SecretsSet(i) ==
  /\ proc[i].pc = "set"
  /\ \E v \in EnvRefs(file.manifest), value \in {"typed", "short"} :
       app /\ secrets' = Over([w \in {v} |-> value], secrets)
  /\ \E code \in {0, 1} : Ends(i, Exit(proc[i], code))
  /\ UNCHANGED <<file, app, volumes, release, runs>>

SecretsUnset(i) ==
  /\ proc[i].pc = "unset"
  /\ \E v \in DOMAIN secrets : secrets' = [w \in DOMAIN secrets \ {v} |-> secrets[w]]
  /\ \E code \in {0, 1} : Ends(i, Exit(proc[i], code))
  /\ UNCHANGED <<file, app, volumes, release, runs>>

NoEffect(i) ==
  /\ proc[i].pc \in {"destroy", "set", "unset"}
  /\ Ends(i, Exit(proc[i], 1))
  /\ UNCHANGED <<file, cloud, runs>>

DeployStep(i) ==
  \/ Auth(i) \/ Probe(i) \/ Decline(i) \/ Create(i) \/ ListVolumes(i) \/ CreateVolume(i)
  \/ ListSecrets(i) \/ SetMissing(i) \/ Build(i) \/ Push(i) \/ Health(i)

Command(i) ==
  \/ Deploy(i) \/ \E c \in {"destroy", "set", "unset"} : Once(i, c)
  \/ DeployStep(i) \/ Destroy(i) \/ SecretsSet(i) \/ SecretsUnset(i) \/ NoEffect(i)

Next == (\E p \in Sources : Edit(p)) \/ (\E i \in Process : Command(i))

Spec == Init /\ [][Next]_vars

-----------------------------------------------------------------------------
TypeOK ==
  /\ file \in Sources /\ release \in Sources \cup {None}
  /\ app \in BOOLEAN /\ volumes \in Nat /\ runs \in 0 .. MaxRuns
  /\ \A i \in Process : DOMAIN proc[i] = DOMAIN Blank

\* The gaps the pre-flight leaves: a name for the binary, an app name written out, no file
\* in public/ under a name the server reserves, references the regular expression finds.
Gapless(p) ==
  LET m == p.manifest IN
  /\ ~IsRef(m.flyApp)
  /\ Server(p) => m.name # "" /\ p.public = "clean" /\ Refs(m) \subseteq Upper

\* Up to those gaps the pre-flight is enough: a deploy it accepts that nothing disturbs,
\* with an operator to answer it, ends with its own program
\* serving, on a volume, with every reference resolved (runFlyDeploy 2b).
CleanDeployServes ==
  \A i \in Process :
    LET q == proc[i] IN
    q.pc = "done" /\ q.clean /\ q.tty /\ Accepts(q.source) /\ Gapless(q.source)
    => q.exit = 0 /\ q.serves

\* A deploy that runs alone keeps what the app already has: its session secret, on which
\* every session hangs, and its one volume, unless Fly would not list the volumes
\* (ensureFlyVolume, missingFlySecrets).
RedeployKeepsState ==
  [][\A i \in Process : DeployStep(i) /\ proc[i].alone =>
       /\ \A v \in DOMAIN secrets : v \in DOMAIN secrets' /\ secrets'[v] = secrets[v]
       /\ volumes' > volumes => volumes = 0 \/ proc[i].blind
       /\ app => app']_vars
=============================================================================
