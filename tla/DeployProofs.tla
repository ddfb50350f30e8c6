---------------------------- MODULE DeployProofs ----------------------------
(***************************************************************************)
(* The deploys, for every project and any number of processes and          *)
(* commands, whatever call fails.                                          *)
(*                                                                         *)
(* Fly: what a command has found out stays true while it runs alone.  The  *)
(* invariant says for each step of a deploy what the earlier steps have    *)
(* established: for a command that is alone, what the app lacks; for one   *)
(* that nothing has disturbed, that the project is still the one it        *)
(* checked, and that the app, its volume and its secrets are there.  What  *)
(* remains is a fact about manifests: up to its gaps, what the pre-flight  *)
(* accepts loads at boot, once the references it finds are set.            *)
(*                                                                         *)
(* Pages: the asset store only grows, so what a process has seen in it or  *)
(* put there is still there when it commits, and what it has committed     *)
(* when it deploys, whoever else deploys.  The directory is another        *)
(* matter: it is what was built only as long as nobody else builds.        *)
(***************************************************************************)
EXTENDS Deploys, TLAPS

Kinds == {"random", "typed", "short"}
Others == {"destroy", "set", "unset"}
Phases == {"idle", "done", "auth", "probe", "create", "volumes", "newVolume", "secrets",
           "prompt", "build", "push", "health"} \cup Others

ProcState ==
  [pc : Phases, exit : {None, 0, 1}, tty : BOOLEAN, source : Sources \cup {None},
   missing : SUBSET Upper, artifact : Sources \cup {None}, serves : BOOLEAN,
   clean : BOOLEAN, alone : BOOLEAN, blind : BOOLEAN]

CloudOK(a, n, s, r) ==
  /\ a \in BOOLEAN /\ n \in Nat /\ r \in Sources \cup {None}
  /\ s \in UNION {[D -> Kinds] : D \in SUBSET Upper}
  /\ ~a => n = 0

Working(q) == q.pc \notin {"idle", "done"}

\* What a command that is alone has found missing still is.
Lacking(q, n, s) ==
  /\ q.pc = "newVolume" => n = 0 \/ q.blind
  /\ q.pc = "prompt" => q.missing \cap DOMAIN s = {}

\* What a deploy that nothing has disturbed has seen or made is still there.
Ready(q, f, a, n, s, r) ==
  LET refs == EnvRefs(f.manifest) IN
  /\ q.source = f /\ Accepts(f)
  /\ q.pc = "create" => ~a
  /\ q.pc \in {"volumes", "newVolume", "secrets", "prompt", "build", "push", "health"} => a
  /\ q.pc \in {"secrets", "prompt", "build", "push"} => (Server(f) => n > 0)
  /\ q.pc = "prompt" => refs \subseteq q.missing \cup DOMAIN s
  /\ q.pc \in {"build", "push", "health"} => refs \subseteq DOMAIN s
  /\ q.pc \in {"push", "health"} => q.artifact = f
  /\ q.pc = "health" => r = f

Served(q) ==
  q.pc = "done" /\ q.clean /\ q.tty /\ Accepts(q.source) /\ Gapless(q.source)
    => q.exit = 0 /\ q.serves

Work(q, f, a, n, s, r) ==
  /\ Working(q) /\ q.clean => q.alone
  /\ Working(q) /\ q.alone => Lacking(q, n, s)
  /\ Working(q) /\ q.clean /\ q.pc \notin Others => Ready(q, f, a, n, s, r)
  /\ q.pc \in Others => ~q.tty
  /\ Served(q)

OnlyOne == \A i, j \in Process : Working(proc[i]) /\ Working(proc[j]) /\ proc[i].alone => i = j

FlyInv ==
  /\ file \in Sources /\ proc \in [Process -> ProcState]
  /\ CloudOK(app, volumes, secrets, release)
  /\ OnlyOne
  /\ \A i \in Process : Work(proc[i], file, app, volumes, secrets, release)
-----------------------------------------------------------------------------
\* Manifests.

LEMMA LiteralIsNoRef == ~IsRef(Empty)
  <1>1. Empty[1] = "lit"
    BY DEF Empty, Lit
  <1>2. QED
    BY <1>1 DEF IsRef

\* A setting in which no reference is resolved, or whose value is a literal, is what it was.
LEMMA ResolvedFields ==
  ASSUME NEW m, NEW env, NEW r, r = ResolveEnvRefs(m, env), Fields \subseteq DOMAIN m
  PROVE  /\ DOMAIN r = DOMAIN m
         /\ \A f \in Fields : ~IsRef(m[f]) \/ f \notin Resolved => r[f] = m[f]
         /\ \A f \in Resolved : IsRef(m[f]) /\ m[f][2] \in DOMAIN env => r[f] = Lit(env[m[f][2]])
  <1>1. Resolved \subseteq Fields
    BY DEF Resolved, Secrets, Fields
  <1>2. QED
    BY <1>1 DEF ResolveEnvRefs, Resolve

LEMMA ResolvedValid ==
  ASSUME NEW m, NEW env, NEW r, r = ResolveEnvRefs(m, env), Fields \subseteq DOMAIN m,
         Validate(m), IsRef(m.smtpUsername) =>
           m.smtpUsername[2] \in DOMAIN env /\ env[m.smtpUsername[2]] # "..."
  PROVE  Validate(r)
  <1>1. /\ \A f \in Fields : ~IsRef(m[f]) \/ f \notin Resolved => r[f] = m[f]
        /\ IsRef(m.smtpUsername) => r.smtpUsername = Lit(env[m.smtpUsername[2]])
    BY ResolvedFields DEF Resolved, Secrets
  <1>2. /\ r.admins = m.admins /\ r.recentRequests = m.recentRequests
        /\ r.interval = m.interval /\ r.retention = m.retention /\ r.iosUrl = m.iosUrl
        /\ r.from = m.from /\ r.smtpPort = m.smtpPort /\ r.perMinute = m.perMinute
        /\ r.burst = m.burst /\ r.body = m.body /\ r.proxies = m.proxies
        /\ r.color = m.color /\ r.locale = m.locale
    BY <1>1 DEF Fields, Resolved, Secrets
  <1>3. ValidateMail(m)
    BY DEF Validate
  <1>4. r.smtpHost = m.smtpHost
    <2>1. ~IsRef(m.smtpHost)
      BY <1>3, LiteralIsNoRef DEF ValidateMail, Shape
    <2>2. QED
      BY <1>1, <2>1 DEF Fields
  <1>5. r.smtpUsername # Lit("...")
    <2>1. CASE IsRef(m.smtpUsername)
      BY <1>1, <2>1 DEF Lit
    <2>2. CASE ~IsRef(m.smtpUsername)
      BY <1>1, <1>3, <2>2 DEF Fields, ValidateMail
    <2>3. QED
      BY <2>1, <2>2
  <1>6. ValidateMail(r)
    BY <1>2, <1>3, <1>4, <1>5 DEF ValidateMail
  <1>7. QED
    BY <1>2, <1>6 DEF Validate, ValidateAdmins, ValidateAdminPanel, ValidateAutoBackup,
                      ValidateIOS, ValidateRateLimit, ValidateServer, ValidatePWA, ValidateLocale

\* What the pre-flight looks at is, up to its gaps, all the server asks when it boots with
\* the variables that the pre-flight found.
THEOREM PreflightIsEnough ==
  ASSUME NEW p \in Sources, Accepts(p), Gapless(p), Server(p),
         NEW s, EnvRefs(p.manifest) \subseteq DOMAIN s,
         \A v \in DOMAIN s : s[v] \in Kinds,
         IsRef(p.manifest.sessionSecret) => s[p.manifest.sessionSecret[2]] \in Long
  PROVE  Boots(p, Over(s, Volume))
  <1> DEFINE m == p.manifest
             env == Over(s, Volume)
             r == ResolveEnvRefs(m, env)
  <1>1. Fields \subseteq DOMAIN m
    BY FlyDeployAssumption
  <1>2. m.json = "ok" /\ CheckSecrets(m) /\ Validate(m)
    BY DEF Accepts, Load
  <1>3. Refs(m) \subseteq DOMAIN s /\ p.public = "clean"
    BY DEF Gapless, EnvRefs, Refs
  <1>4. DOMAIN s \subseteq DOMAIN env /\ \A v \in DOMAIN s : env[v] = s[v]
    BY DEF Over
  <1> HIDE DEF env
  <1>5. ASSUME NEW f \in Resolved, IsRef(m[f])
        PROVE  /\ m[f][2] \in DOMAIN env /\ env[m[f][2]] = s[m[f][2]]
               /\ env[m[f][2]] # "..." /\ r[f] = Lit(env[m[f][2]])
    <2>1. m[f][2] \in Refs(m)
      BY <1>5 DEF Refs
    <2>2. QED
      BY <1>1, <1>3, <1>4, <1>5, <2>1, ResolvedFields DEF Kinds
  <1>6. Validate(r)
    <2>1. "smtpUsername" \in Resolved
      BY DEF Resolved
    <2>2. QED
      BY <1>1, <1>2, <1>5, <2>1, ResolvedValid
  <1>7. r.sessionSecret = Empty \/ r.sessionSecret[2] \in Long
    <2>1. "sessionSecret" \in Secrets /\ Secrets \subseteq Resolved /\ Resolved \subseteq Fields
      BY DEF Secrets, Resolved, Fields
    <2>2. CASE IsRef(m.sessionSecret)
      BY <1>1, <1>5, <2>1, <2>2 DEF Lit
    <2>3. CASE ~IsRef(m.sessionSecret)
      BY <1>1, <1>2, <2>1, <2>3, ResolvedFields DEF CheckSecrets
    <2>4. QED
      BY <2>2, <2>3
  <1>8. Load(m, "strict", env) = r
    BY <1>2, <1>3, <1>4, <1>6, <1>7 DEF Load
  <1>9. r # Error
    <2>1. "json" \in DOMAIN r
      BY <1>1, ResolvedFields DEF Fields
    <2>2. "json" \notin DOMAIN Error
      BY DEF Error
    <2>3. QED
      BY <2>1, <2>2
  <1>10. QED
    BY <1>3, <1>8, <1>9 DEF Boots, env
-----------------------------------------------------------------------------
\* Steps of Fly's processes.

LEMMA Exits ==
  ASSUME NEW q \in ProcState, NEW code \in {0, 1}
  PROVE  /\ Ended(code) \in ProcState /\ Ended(code).pc = "done" /\ ~Ended(code).clean
         /\ Exit(q, code) \in ProcState /\ Exit(q, code).pc = "done"
         /\ Exit(q, code).clean = q.clean
         /\ q.clean => /\ Exit(q, code).tty = q.tty /\ Exit(q, code).source = q.source
                       /\ Exit(q, code).exit = code
  <1>1. Blank \in ProcState
    BY DEF Blank, ProcState, Phases
  <1>2. Ended(code) \in ProcState /\ Ended(code).pc = "done" /\ ~Ended(code).clean
        /\ Ended(code).exit = code
    BY <1>1 DEF Ended, ProcState, Phases
  <1>3. CASE q.clean
    <2> DEFINE e == Ended(code)
               x == [e EXCEPT !.clean = TRUE, !.tty = q.tty, !.source = q.source]
    <2>1. Exit(q, code) = x
      BY <1>3 DEF Exit
    <2> HIDE DEF e
    <2>2. e \in ProcState /\ e.pc = "done" /\ e.exit = code
      BY <1>2 DEF e
    <2>3. x \in ProcState /\ x.pc = "done" /\ x.clean = TRUE /\ x.tty = q.tty /\ x.source = q.source
          /\ x.exit = code
      BY <2>2 DEF ProcState
    <2>4. q.clean = TRUE
      BY <1>3 DEF ProcState
    <2>5. QED
      BY <1>2, <2>1, <2>3, <2>4
  <1>4. CASE ~q.clean
    <2>1. q.clean = FALSE /\ Ended(code).clean = FALSE
      BY <1>2, <1>4 DEF ProcState
    <2>2. Exit(q, code) = Ended(code)
      BY <1>4 DEF Exit
    <2>3. QED
      BY <1>2, <1>4, <2>1, <2>2
  <1>5. QED
    BY <1>3, <1>4

\* A step of one process, which leaves the project alone: the others, if they work, are not
\* alone, so what they have seen is not claimed.
LEMMA Moves ==
  ASSUME FlyInv, NEW i \in Process, Working(proc[i]), NEW q \in ProcState, Ends(i, q),
         file' = file, CloudOK(app, volumes, secrets, release)',
         Working(q) /\ q.alone => proc[i].alone,
         Work(q, file, app', volumes', secrets', release')
  PROVE  FlyInv'
  <1>1. proc' = [proc EXCEPT ![i] = q] /\ proc \in [Process -> ProcState]
    BY DEF FlyInv, Ends
  <1>2. OnlyOne'
    BY <1>1 DEF FlyInv, OnlyOne
  <1>3. ASSUME NEW j \in Process
        PROVE  Work(proc[j], file, app, volumes, secrets, release)'
    <2>1. CASE j = i
      BY <1>1, <2>1
    <2>2. CASE j # i
      <3>1. proc'[j] = proc[j] /\ Work(proc[j], file, app, volumes, secrets, release)
        BY <1>1, <2>2 DEF FlyInv
      <3>2. ~(Working(proc[j]) /\ proc[j].alone)
        BY <2>2 DEF FlyInv, OnlyOne
      <3>3. QED
        BY <3>1, <3>2 DEF Work
    <2>3. QED
      BY <2>1, <2>2
  <1>4. QED
    BY <1>1, <1>2, <1>3 DEF FlyInv

\* A process that ends in a way that claims nothing.
LEMMA Stops ==
  ASSUME FlyInv, NEW i \in Process, Working(proc[i]), NEW q \in ProcState, Ends(i, q),
         file' = file, CloudOK(app, volumes, secrets, release)', q.pc = "done",
         Served(q)
  PROVE  FlyInv'
  <1>1. ~Working(q) /\ q.pc \notin Others
    BY DEF Working, Others
  <1>2. Work(q, file, app', volumes', secrets', release')
    BY <1>1 DEF Work
  <1>3. QED
    BY <1>1, <1>2, Moves

LEMMA Breaks ==
  ASSUME FlyInv, NEW i \in Process, Working(proc[i]), NEW code \in {0, 1}, Ends(i, Ended(code)),
         file' = file, CloudOK(app, volumes, secrets, release)'
  PROVE  FlyInv'
  <1>1. proc[i] \in ProcState
    BY DEF FlyInv
  <1>2. Ended(code) \in ProcState /\ Ended(code).pc = "done" /\ ~Ended(code).clean
    BY <1>1, Exits
  <1>3. Served(Ended(code))
    BY <1>2 DEF Served
  <1>4. QED
    BY <1>2, <1>3, Stops

\* What a step that only moves the process on has to show.
LEMMA Continues ==
  ASSUME FlyInv, NEW i \in Process, Working(proc[i]), NEW pc \in Phases \ Others, Goto(i, pc),
         pc \notin {"idle", "done"}, proc[i].pc \notin Others,
         file' = file, CloudOK(app, volumes, secrets, release)',
         LET q == [proc[i] EXCEPT !.pc = pc] IN
         /\ q.alone => Lacking(q, volumes', secrets')
         /\ q.clean => Ready(q, file, app', volumes', secrets', release')
  PROVE  FlyInv'
  <1> DEFINE q == [proc[i] EXCEPT !.pc = pc]
  <1>1. proc[i] \in ProcState
    BY DEF FlyInv
  <1>2. /\ q \in ProcState /\ q.pc = pc
        /\ q.alone = proc[i].alone /\ q.clean = proc[i].clean
    BY <1>1 DEF ProcState
  <1>3. Ends(i, q)
    BY DEF Goto, Ends, FlyInv
  <1>4. q.alone => Lacking(q, volumes', secrets')
    OBVIOUS
  <1>5. q.clean => Ready(q, file, app', volumes', secrets', release')
    OBVIOUS
  <1>6. Work(proc[i], file, app, volumes, secrets, release)
    BY DEF FlyInv
  <1> HIDE DEF q
  <1>7. q.clean => q.alone
    BY <1>2, <1>6 DEF Work
  <1>8. Work(q, file, app', volumes', secrets', release')
    BY <1>2, <1>4, <1>5, <1>7 DEF Work, Served
  <1>9. QED
    BY <1>2, <1>3, <1>8, Moves

LEMMA FlyInitInv ==
  ASSUME Init
  PROVE  FlyInv
  <1>1. Blank \in ProcState /\ Blank.pc = "idle"
    BY DEF Blank, ProcState, Phases
  <1>2. secrets \in [{} -> Kinds]
    BY DEF Init
  <1>3. CloudOK(app, volumes, secrets, release)
    BY <1>2 DEF Init, CloudOK
  <1>4. ASSUME NEW i \in Process PROVE proc[i] = Blank /\ ~Working(proc[i]) /\ proc[i].pc # "done"
    BY <1>1 DEF Init, Working
  <1>5. OnlyOne
    BY <1>4 DEF OnlyOne
  <1>6. ASSUME NEW i \in Process PROVE Work(proc[i], file, app, volumes, secrets, release)
    BY <1>1, <1>4 DEF Work, Served, Others
  <1>7. QED
    BY <1>1, <1>3, <1>5, <1>6 DEF Init, FlyInv

\* A command that begins beside others disturbs them and is disturbed.
LEMMA Begins ==
  ASSUME FlyInv, NEW i \in Process, NEW q \in ProcState, Begin(i, q),
         q.pc \in Others => ~q.tty,
         Working(q) => /\ q.pc \in {"auth"} \cup Others
                       /\ q.pc \notin Others => q.source = file /\ Accepts(file),
         ~Working(q) => q.pc = "done" /\ (q.tty => ~Accepts(q.source))
  PROVE  FlyInv'
  <1> DEFINE first == Active = {}
             n == [q EXCEPT !.clean = first, !.alone = first]
             beside(j) == [proc[j] EXCEPT !.clean = FALSE, !.alone = FALSE]
  <1>1. /\ proc \in [Process -> ProcState] /\ first \in BOOLEAN
        /\ proc' = [j \in Process |->
             IF j = i THEN n ELSE IF j \in Active THEN beside(j) ELSE proc[j]]
        /\ UNCHANGED <<file, app, volumes, secrets, release>>
    BY DEF FlyInv, Begin, cloud
  <1>2. /\ n \in ProcState /\ n.pc = q.pc /\ n.tty = q.tty /\ n.source = q.source
        /\ n.clean = first /\ n.alone = first
    BY <1>1 DEF ProcState
  <1>3. ASSUME NEW j \in Process
        PROVE  /\ beside(j) \in ProcState /\ beside(j).pc = proc[j].pc
               /\ beside(j).clean = FALSE /\ beside(j).alone = FALSE /\ beside(j).tty = proc[j].tty
    BY <1>1 DEF ProcState
  <1>4. \A j \in Process : j \in Active <=> Working(proc[j])
    BY DEF Active, Working
  <1> HIDE DEF n, first, beside
  <1>5. proc' \in [Process -> ProcState]
    BY <1>1, <1>2, <1>3
  <1>6. OnlyOne'
    <2> SUFFICES ASSUME NEW j \in Process, NEW k \in Process,
                        Working(proc'[j]), Working(proc'[k]), proc'[j].alone
                 PROVE  j = k
      BY DEF OnlyOne
    <2>1. CASE j = i
      <3>1. Active = {}
        BY <1>1, <1>2, <2>1 DEF first
      <3>2. QED
        BY <1>1, <1>4, <2>1, <3>1
    <2>2. CASE j # i
      BY <1>1, <1>3, <1>4, <2>2
    <2>3. QED
      BY <2>1, <2>2
  <1>7. ASSUME NEW j \in Process
        PROVE  Work(proc'[j], file, app, volumes, secrets, release)
    <2>1. CASE j = i
      <3>1. proc'[j] = n
        BY <1>1, <2>1
      <3>2. Working(n) => Working(q) /\ n.pc = q.pc
        BY <1>2 DEF Working
      <3>3. Working(n) => Lacking(n, volumes, secrets)
        BY <3>2 DEF Lacking, Others
      <3>4. Working(n) /\ n.pc \notin Others => Ready(n, file, app, volumes, secrets, release)
        BY <1>2, <3>2 DEF Ready
      <3>5. Served(n)
        BY <1>2 DEF Served, Working
      <3>6. QED
        BY <1>2, <3>1, <3>3, <3>4, <3>5 DEF Work
    <2>2. CASE j # i /\ j \in Active
      <3>1. proc'[j] = beside(j) /\ Work(proc[j], file, app, volumes, secrets, release)
        BY <1>1, <2>2 DEF FlyInv
      <3>2. QED
        BY <1>3, <3>1 DEF Work, Served
    <2>3. CASE j # i /\ j \notin Active
      <3>1. proc'[j] = proc[j]
        BY <1>1, <2>3
      <3>2. QED
        BY <3>1 DEF FlyInv
    <2>4. QED
      BY <2>1, <2>2, <2>3
  <1>8. QED
    BY <1>1, <1>5, <1>6, <1>7 DEF FlyInv

LEMMA EditStep ==
  ASSUME FlyInv, NEW p \in Sources, Edit(p)
  PROVE  FlyInv'
  <1> DEFINE beside(j) == [proc[j] EXCEPT !.clean = FALSE]
  <1>1. /\ proc \in [Process -> ProcState] /\ file' \in Sources
        /\ proc' = [j \in Process |-> IF j \in Active THEN beside(j) ELSE proc[j]]
        /\ UNCHANGED <<app, volumes, secrets, release>>
    BY DEF FlyInv, Edit, cloud
  <1>2. ASSUME NEW j \in Process
        PROVE  /\ beside(j) \in ProcState /\ beside(j).pc = proc[j].pc
               /\ beside(j).clean = FALSE /\ beside(j).alone = proc[j].alone
               /\ beside(j).tty = proc[j].tty /\ beside(j).blind = proc[j].blind
               /\ beside(j).missing = proc[j].missing
    BY <1>1 DEF ProcState
  <1> HIDE DEF beside
  <1>3. \A j \in Process : j \in Active <=> Working(proc[j])
    BY DEF Active, Working
  <1>4. ASSUME NEW j \in Process
        PROVE  /\ Working(proc'[j]) <=> Working(proc[j])
               /\ proc'[j].alone = proc[j].alone
    BY <1>1, <1>2 DEF Working
  <1>5. OnlyOne'
    BY <1>4 DEF FlyInv, OnlyOne
  <1>6. ASSUME NEW j \in Process
        PROVE  Work(proc'[j], file', app, volumes, secrets, release)
    <2>1. Work(proc[j], file, app, volumes, secrets, release)
      BY DEF FlyInv
    <2>2. CASE j \in Active
      <3>1. proc'[j] = beside(j)
        BY <1>1, <2>2
      <3>2. QED
        BY <1>2, <1>4, <2>1, <3>1 DEF Work, Served, Lacking
    <2>3. CASE j \notin Active
      <3>1. proc'[j] = proc[j] /\ ~Working(proc[j])
        BY <1>1, <1>3, <2>3
      <3>2. QED
        BY <2>1, <3>1 DEF Work
    <2>4. QED
      BY <2>2, <2>3
  <1>7. proc' \in [Process -> ProcState]
    BY <1>1, <1>2
  <1>8. QED
    BY <1>1, <1>5, <1>6, <1>7 DEF FlyInv, CloudOK

LEMMA DeployBegins ==
  ASSUME FlyInv, NEW i \in Process, Deploy(i)
  PROVE  FlyInv'
  <1>1. PICK tty \in BOOLEAN :
          Begin(i, IF Accepts(file) THEN [Blank EXCEPT !.tty = tty, !.source = file, !.pc = "auth"]
                   ELSE Exit([Blank EXCEPT !.tty = tty, !.source = file], 1))
    BY DEF Deploy
  <1>2. Blank \in ProcState /\ Blank.clean = TRUE /\ file \in Sources
    BY DEF Blank, ProcState, Phases, FlyInv
  <1> DEFINE a == [Blank EXCEPT !.tty = tty, !.source = file, !.pc = "auth"]
             b == [Blank EXCEPT !.tty = tty, !.source = file]
  <1>3. a \in ProcState /\ a.pc = "auth" /\ a.source = file
    BY <1>2 DEF ProcState, Phases
  <1>4. b \in ProcState /\ b.clean = TRUE /\ b.source = file
    BY <1>2 DEF ProcState
  <1> HIDE DEF a, b
  <1>5. CASE Accepts(file)
    <2>1. Begin(i, a)
      BY <1>1, <1>5 DEF a
    <2>2. Working(a) /\ a.pc \notin Others
      BY <1>3 DEF Working, Others
    <2>3. QED
      BY <1>3, <1>5, <2>1, <2>2, Begins
  <1>6. CASE ~Accepts(file)
    <2>1. Begin(i, Exit(b, 1))
      BY <1>1, <1>6 DEF b
    <2>2. /\ Exit(b, 1) \in ProcState /\ Exit(b, 1).pc = "done" /\ Exit(b, 1).source = file
      BY <1>4, Exits
    <2>3. ~Working(Exit(b, 1)) /\ Exit(b, 1).pc \notin Others
      BY <2>2 DEF Working, Others
    <2>4. QED
      BY <1>6, <2>1, <2>2, <2>3, Begins
  <1>7. QED
    BY <1>5, <1>6

LEMMA OtherBegins ==
  ASSUME FlyInv, NEW i \in Process, NEW c \in Others, Once(i, c)
  PROVE  FlyInv'
  <1> DEFINE q == [Blank EXCEPT !.pc = c]
  <1>1. q \in ProcState /\ q.pc = c /\ q.tty = FALSE
    BY DEF Blank, ProcState, Phases
  <1>2. Begin(i, q)
    BY DEF Once
  <1> HIDE DEF q
  <1>3. QED
    BY <1>1, <1>2, Begins DEF Working, Others

\* What the invariant says of a process at work.
LEMMA Standing ==
  ASSUME FlyInv, NEW i \in Process, proc[i].pc \notin {"idle", "done"}
  PROVE  /\ Working(proc[i]) /\ proc[i] \in ProcState
         /\ file \in Sources /\ CloudOK(app, volumes, secrets, release)
         /\ proc[i].clean => proc[i].alone
         /\ proc[i].alone => Lacking(proc[i], volumes, secrets)
         /\ proc[i].clean /\ proc[i].pc \notin Others
              => Ready(proc[i], file, app, volumes, secrets, release)
  BY DEF FlyInv, Work, Working

LEMMA SameCloud ==
  ASSUME FlyInv, UNCHANGED cloud
  PROVE  CloudOK(app, volumes, secrets, release)'
  BY DEF FlyInv, CloudOK, cloud

LEMMA AuthStep ==
  ASSUME FlyInv, NEW i \in Process, Auth(i)
  PROVE  FlyInv'
  <1>1. /\ proc[i].pc = "auth" /\ UNCHANGED <<file, cloud>>
        /\ Goto(i, "probe") \/ Ends(i, Ended(1))
    BY DEF Auth
  <1>2. Working(proc[i]) /\ CloudOK(app, volumes, secrets, release)'
    BY <1>1, Standing, SameCloud
  <1>3. CASE Goto(i, "probe")
    <2> DEFINE q == [proc[i] EXCEPT !.pc = "probe"]
    <2>1. proc[i] \in ProcState /\ proc[i].pc \notin Others
          /\ (proc[i].clean => Ready(proc[i], file, app, volumes, secrets, release))
      BY <1>1, Standing DEF Others
    <2>2. q.pc = "probe" /\ q.clean = proc[i].clean /\ q.source = proc[i].source
      BY <2>1 DEF ProcState
    <2> HIDE DEF q
    <2>3. Lacking(q, volumes', secrets')
      BY <2>2 DEF Lacking
    <2>4. q.clean => Ready(q, file, app', volumes', secrets', release')
      BY <2>1, <2>2 DEF Ready
    <2>5. "probe" \in Phases \ Others
      BY DEF Phases, Others
    <2>6. QED
      BY <1>1, <1>2, <1>3, <2>1, <2>3, <2>4, <2>5, Continues DEF q
  <1>4. CASE Ends(i, Ended(1))
    BY <1>1, <1>2, <1>4, Breaks
  <1>5. QED
    BY <1>1, <1>3, <1>4

LEMMA ProbeStep ==
  ASSUME FlyInv, NEW i \in Process, Probe(i)
  PROVE  FlyInv'
  <1>1. PICK failed \in BOOLEAN :
          /\ proc[i].pc = "probe" /\ UNCHANGED <<file, cloud>>
          /\ Ends(i, [proc[i] EXCEPT !.pc = IF app /\ ~failed THEN "volumes" ELSE "create",
                                     !.clean = @ /\ ~failed])
    BY DEF Probe
  <1>2. /\ Working(proc[i]) /\ proc[i] \in ProcState /\ CloudOK(app, volumes, secrets, release)'
        /\ proc[i].clean => proc[i].alone
        /\ proc[i].clean => Ready(proc[i], file, app, volumes, secrets, release)
    BY <1>1, Standing, SameCloud DEF Others
  <1> DEFINE q == [proc[i] EXCEPT !.pc = IF app /\ ~failed THEN "volumes" ELSE "create",
                                  !.clean = @ /\ ~failed]
  <1>3. /\ q \in ProcState /\ q.pc = IF app /\ ~failed THEN "volumes" ELSE "create"
        /\ q.clean = (proc[i].clean /\ ~failed) /\ q.source = proc[i].source
        /\ q.alone = proc[i].alone
    BY <1>2 DEF ProcState, Phases
  <1>4. Ends(i, q)
    BY <1>1
  <1> HIDE DEF q
  <1>5. Lacking(q, volumes', secrets')
    BY <1>3 DEF Lacking
  <1>6. q.clean => Ready(q, file, app', volumes', secrets', release')
    BY <1>1, <1>2, <1>3 DEF Ready, cloud
  <1>7. Served(q) /\ q.pc \notin Others
    BY <1>3 DEF Served, Others
  <1>8. Work(q, file, app', volumes', secrets', release')
    BY <1>2, <1>3, <1>5, <1>6, <1>7 DEF Work
  <1>9. QED
    BY <1>1, <1>2, <1>3, <1>4, <1>8, Moves

LEMMA DeclineStep ==
  ASSUME FlyInv, NEW i \in Process, Decline(i)
  PROVE  FlyInv'
  <1>1. proc[i].pc = "create" /\ Ends(i, Ended(0)) /\ UNCHANGED <<file, cloud>>
    BY DEF Decline
  <1>2. QED
    BY <1>1, Standing, SameCloud, Breaks

LEMMA CreateStep ==
  ASSUME FlyInv, NEW i \in Process, Create(i)
  PROVE  FlyInv'
  <1> DEFINE free == ~app /\ ~IsRef(proc[i].source.manifest.flyApp)
  <1>1. /\ proc[i].pc = "create" /\ UNCHANGED <<file, volumes, secrets, release>>
        /\ \/ /\ free /\ app' = TRUE
              /\ Goto(i, "volumes") \/ Ends(i, Ended(1))
           \/ /\ Ends(i, IF free THEN Ended(1) ELSE Exit(proc[i], 1))
              /\ UNCHANGED app
    BY DEF Create
  <1> HIDE DEF free
  <1>2. /\ Working(proc[i]) /\ proc[i] \in ProcState /\ CloudOK(app, volumes, secrets, release)
        /\ proc[i].clean => Ready(proc[i], file, app, volumes, secrets, release)
    BY <1>1, Standing DEF Others
  <1>3. CloudOK(app, volumes, secrets, release)'
    BY <1>1, <1>2 DEF CloudOK
  <1>4. CASE app' = TRUE /\ Goto(i, "volumes")
    <2> DEFINE q == [proc[i] EXCEPT !.pc = "volumes"]
    <2>1. q.pc = "volumes" /\ q.clean = proc[i].clean /\ q.source = proc[i].source
      BY <1>2 DEF ProcState
    <2> HIDE DEF q
    <2>2. Lacking(q, volumes', secrets')
      BY <2>1 DEF Lacking
    <2>3. q.clean => Ready(q, file, app', volumes', secrets', release')
      BY <1>2, <1>4, <2>1 DEF Ready
    <2>4. "volumes" \in Phases \ Others /\ proc[i].pc \notin Others
      BY <1>1 DEF Phases, Others
    <2>5. QED
      BY <1>1, <1>2, <1>3, <1>4, <2>2, <2>3, <2>4, Continues DEF q
  <1>5. CASE Ends(i, Ended(1))
    BY <1>1, <1>2, <1>3, <1>5, Breaks
  <1>6. CASE ~free /\ Ends(i, Exit(proc[i], 1))
    <2> DEFINE q == Exit(proc[i], 1)
    <2>1. /\ q \in ProcState /\ q.pc = "done" /\ q.clean = proc[i].clean
          /\ proc[i].clean => q.source = proc[i].source
      BY <1>2, Exits
    <2> HIDE DEF q
    <2>2. q.clean => ~Gapless(q.source)
      BY <1>1, <1>2, <1>6, <2>1 DEF Ready, Gapless, free
    <2>3. Served(q)
      BY <2>2 DEF Served
    <2>4. QED
      BY <1>1, <1>2, <1>3, <1>6, <2>1, <2>3, Stops DEF q
  <1>7. QED
    BY <1>1, <1>4, <1>5, <1>6

LEMMA ListVolumesStep ==
  ASSUME FlyInv, NEW i \in Process, ListVolumes(i)
  PROVE  FlyInv'
  <1>1. proc[i].pc = "volumes" /\ UNCHANGED <<file, cloud>>
    BY DEF ListVolumes
  <1>2. /\ Working(proc[i]) /\ proc[i] \in ProcState /\ CloudOK(app, volumes, secrets, release)
        /\ CloudOK(app, volumes, secrets, release)'
        /\ proc[i].clean => proc[i].alone
        /\ proc[i].clean => Ready(proc[i], file, app, volumes, secrets, release)
        /\ proc[i].pc \notin Others
    BY <1>1, Standing, SameCloud DEF Others
  <1>3. CASE ~Server(proc[i].source)
    <2> DEFINE q == [proc[i] EXCEPT !.pc = "secrets"]
    <2>1. Goto(i, "secrets")
      BY <1>3 DEF ListVolumes
    <2>2. q.pc = "secrets" /\ q.clean = proc[i].clean /\ q.source = proc[i].source
      BY <1>2 DEF ProcState
    <2> HIDE DEF q
    <2>3. Lacking(q, volumes', secrets')
      BY <2>2 DEF Lacking
    <2>4. q.clean => Ready(q, file, app', volumes', secrets', release')
      BY <1>1, <1>2, <1>3, <2>2 DEF Ready, cloud
    <2>5. "secrets" \in Phases \ Others
      BY DEF Phases, Others
    <2>6. QED
      BY <1>1, <1>2, <2>1, <2>3, <2>4, <2>5, Continues DEF q
  <1>4. CASE Server(proc[i].source)
    <2>1. PICK failed \in BOOLEAN :
            Ends(i, [proc[i] EXCEPT
              !.pc = IF failed \/ ~app \/ volumes = 0 THEN "newVolume" ELSE "secrets",
              !.blind = failed, !.clean = @ /\ ~failed])
      BY <1>4 DEF ListVolumes
    <2> DEFINE q == [proc[i] EXCEPT
                      !.pc = IF failed \/ ~app \/ volumes = 0 THEN "newVolume" ELSE "secrets",
                      !.blind = failed, !.clean = @ /\ ~failed]
    <2>2. /\ q \in ProcState
          /\ q.pc = IF failed \/ ~app \/ volumes = 0 THEN "newVolume" ELSE "secrets"
          /\ q.clean = (proc[i].clean /\ ~failed) /\ q.source = proc[i].source
          /\ q.alone = proc[i].alone /\ q.blind = failed
      BY <1>2 DEF ProcState, Phases
    <2>3. Ends(i, q)
      BY <2>1
    <2> HIDE DEF q
    <2>4. Lacking(q, volumes', secrets')
      BY <1>1, <1>2, <2>2 DEF Lacking, CloudOK, cloud
    <2>5. ASSUME q.clean PROVE Ready(q, file, app', volumes', secrets', release')
      <3>1. Ready(proc[i], file, app, volumes, secrets, release) /\ ~failed
        BY <1>2, <2>2, <2>5
      <3>2. app /\ app' = app /\ volumes' = volumes
        BY <1>1, <3>1 DEF Ready, cloud
      <3>3. q.pc = IF volumes = 0 THEN "newVolume" ELSE "secrets"
        BY <2>2, <3>1, <3>2
      <3>4. volumes # 0 => volumes > 0
        BY <1>2 DEF CloudOK
      <3>5. QED
        BY <2>2, <3>1, <3>2, <3>3, <3>4 DEF Ready
    <2>6. Served(q) /\ q.pc \notin Others
      BY <2>2 DEF Served, Others
    <2>7. Work(q, file, app', volumes', secrets', release')
      BY <1>2, <2>2, <2>4, <2>5, <2>6 DEF Work
    <2>8. QED
      BY <1>1, <1>2, <2>2, <2>3, <2>7, Moves
  <1>5. QED
    BY <1>3, <1>4

LEMMA CreateVolumeStep ==
  ASSUME FlyInv, NEW i \in Process, CreateVolume(i)
  PROVE  FlyInv'
  <1>1. /\ proc[i].pc = "newVolume" /\ UNCHANGED <<file, app, secrets, release>>
        /\ \/ /\ app /\ volumes' = volumes + 1
              /\ Goto(i, "secrets") \/ Ends(i, Ended(1))
           \/ Ends(i, Ended(1)) /\ UNCHANGED volumes
    BY DEF CreateVolume
  <1>2. /\ Working(proc[i]) /\ proc[i] \in ProcState /\ CloudOK(app, volumes, secrets, release)
        /\ proc[i].clean => Ready(proc[i], file, app, volumes, secrets, release)
        /\ proc[i].pc \notin Others
    BY <1>1, Standing DEF Others
  <1>3. CloudOK(app, volumes, secrets, release)'
    BY <1>1, <1>2 DEF CloudOK
  <1>4. CASE volumes' = volumes + 1 /\ Goto(i, "secrets")
    <2> DEFINE q == [proc[i] EXCEPT !.pc = "secrets"]
    <2>1. q.pc = "secrets" /\ q.clean = proc[i].clean /\ q.source = proc[i].source
      BY <1>2 DEF ProcState
    <2> HIDE DEF q
    <2>2. Lacking(q, volumes', secrets')
      BY <2>1 DEF Lacking
    <2>3. volumes' > 0
      BY <1>2, <1>4 DEF CloudOK
    <2>4. q.clean => Ready(q, file, app', volumes', secrets', release')
      BY <1>1, <1>2, <1>4, <2>1, <2>3 DEF Ready
    <2>5. "secrets" \in Phases \ Others
      BY DEF Phases, Others
    <2>6. QED
      BY <1>1, <1>2, <1>3, <1>4, <2>2, <2>4, <2>5, Continues DEF q
  <1>5. CASE Ends(i, Ended(1))
    BY <1>1, <1>2, <1>3, <1>5, Breaks
  <1>6. QED
    BY <1>1, <1>4, <1>5

LEMMA Found ==
  ASSUME NEW i \in Process, NEW listed
  PROVE  /\ MissingSecrets(i, listed) \subseteq Upper
         /\ MissingSecrets(i, listed) \cap DOMAIN secrets = {}
         /\ listed => EnvRefs(file.manifest) \subseteq MissingSecrets(i, listed) \cup DOMAIN secrets
  BY DEF MissingSecrets, EnvRefs

LEMMA ListSecretsStep ==
  ASSUME FlyInv, NEW i \in Process, ListSecrets(i)
  PROVE  FlyInv'
  <1>1. PICK listed \in BOOLEAN :
          LET q == [proc[i] EXCEPT !.missing = MissingSecrets(i, listed /\ app),
                                   !.clean = @ /\ listed] IN
          Ends(i, IF q.missing = {} THEN [q EXCEPT !.pc = "build"]
                  ELSE IF q.tty THEN [q EXCEPT !.pc = "prompt"]
                  ELSE Exit(q, 1))
    BY DEF ListSecrets
  <1>2. proc[i].pc = "secrets" /\ UNCHANGED <<file, cloud>>
    BY DEF ListSecrets
  <1>3. /\ Working(proc[i]) /\ proc[i] \in ProcState /\ CloudOK(app, volumes, secrets, release)
        /\ CloudOK(app, volumes, secrets, release)'
        /\ proc[i].clean => proc[i].alone
        /\ proc[i].clean => Ready(proc[i], file, app, volumes, secrets, release)
    BY <1>2, Standing, SameCloud DEF Others
  <1> DEFINE lacks == MissingSecrets(i, listed /\ app)
             q == [proc[i] EXCEPT !.missing = lacks, !.clean = @ /\ listed]
             p == [q EXCEPT !.pc = IF lacks = {} THEN "build" ELSE "prompt"]
  <1>4. lacks \subseteq Upper /\ lacks \cap DOMAIN secrets = {}
        /\ (listed /\ app => EnvRefs(file.manifest) \subseteq lacks \cup DOMAIN secrets)
    BY Found
  <1>5. Ends(i, IF q.missing = {} THEN [q EXCEPT !.pc = "build"]
                ELSE IF q.tty THEN [q EXCEPT !.pc = "prompt"]
                ELSE Exit(q, 1))
    BY <1>1
  <1> HIDE DEF lacks
  <1>6. /\ q \in ProcState /\ q.missing = lacks /\ q.clean = (proc[i].clean /\ listed)
        /\ q.tty = proc[i].tty /\ q.source = proc[i].source /\ q.alone = proc[i].alone
    BY <1>3, <1>4 DEF ProcState
  <1> HIDE DEF q
  <1>7. CASE lacks = {} \/ q.tty
    <2>1. Ends(i, p)
      BY <1>5, <1>6, <1>7
    <2>2. /\ p \in ProcState /\ p.pc = IF lacks = {} THEN "build" ELSE "prompt"
          /\ p.missing = lacks /\ p.clean = (proc[i].clean /\ listed)
          /\ p.source = proc[i].source /\ p.alone = proc[i].alone
      BY <1>6 DEF ProcState, Phases
    <2> HIDE DEF p
    <2>3. Lacking(p, volumes', secrets')
      BY <1>2, <1>4, <2>2 DEF Lacking, cloud
    <2>4. ASSUME p.clean PROVE Ready(p, file, app', volumes', secrets', release')
      <3>1. Ready(proc[i], file, app, volumes, secrets, release) /\ listed
        BY <1>3, <2>2, <2>4
      <3>2. app /\ app' = app /\ volumes' = volumes /\ secrets' = secrets
        BY <1>2, <3>1 DEF Ready, cloud
      <3>3. QED
        BY <1>2, <1>4, <2>2, <3>1, <3>2 DEF Ready
    <2>5. Served(p) /\ p.pc \notin Others
      BY <2>2 DEF Served, Others
    <2>6. Work(p, file, app', volumes', secrets', release')
      BY <1>3, <2>2, <2>3, <2>4, <2>5 DEF Work
    <2>7. QED
      BY <1>2, <1>3, <2>1, <2>2, <2>6, Moves
  <1>8. CASE lacks # {} /\ ~q.tty
    <2>1. Ends(i, Exit(q, 1))
      BY <1>5, <1>6, <1>8
    <2>2. /\ Exit(q, 1) \in ProcState /\ Exit(q, 1).pc = "done" /\ Exit(q, 1).clean = q.clean
          /\ q.clean => Exit(q, 1).tty = q.tty
      BY <1>6, Exits
    <2>3. Served(Exit(q, 1))
      BY <1>8, <2>2 DEF Served
    <2>4. QED
      BY <1>2, <1>3, <2>1, <2>2, <2>3, Stops
  <1>9. QED
    BY <1>7, <1>8

LEMMA OverTyped ==
  ASSUME NEW D \in SUBSET Upper, NEW x \in [D -> Kinds],
         NEW s \in UNION {[E -> Kinds] : E \in SUBSET Upper}
  PROVE  /\ Over(x, s) \in UNION {[E -> Kinds] : E \in SUBSET Upper}
         /\ DOMAIN Over(x, s) = D \cup DOMAIN s
         /\ \A v \in DOMAIN s \ D : Over(x, s)[v] = s[v]
  <1>1. PICK E \in SUBSET Upper : s \in [E -> Kinds]
    OBVIOUS
  <1>2. Over(x, s) \in [D \cup E -> Kinds]
    BY <1>1 DEF Over
  <1>3. D \cup E \in SUBSET Upper
    OBVIOUS
  <1>4. QED
    BY <1>1, <1>2, <1>3 DEF Over

LEMMA SetMissingStep ==
  ASSUME FlyInv, NEW i \in Process, SetMissing(i)
  PROVE  FlyInv'
  <1>1. /\ proc[i].pc = "prompt" /\ UNCHANGED <<file, app, volumes, release>>
        /\ \/ /\ app /\ \E s \in Prompted(i) : secrets' = Over(s, secrets)
              /\ Goto(i, "build") \/ Ends(i, Ended(1))
           \/ Ends(i, Ended(1)) /\ UNCHANGED secrets
    BY DEF SetMissing
  <1>2. /\ Working(proc[i]) /\ proc[i] \in ProcState /\ CloudOK(app, volumes, secrets, release)
        /\ proc[i].clean => Ready(proc[i], file, app, volumes, secrets, release)
        /\ proc[i].pc \notin Others
    BY <1>1, Standing DEF Others
  <1>3. ASSUME app, NEW x \in Prompted(i), secrets' = Over(x, secrets),
               Goto(i, "build") \/ Ends(i, Ended(1))
        PROVE  FlyInv'
    <2>1. proc[i].missing \in SUBSET Upper /\ x \in [proc[i].missing -> Kinds]
      BY <1>2, <1>3 DEF ProcState, Prompted, Kinds
    <2>2. /\ secrets' \in UNION {[E -> Kinds] : E \in SUBSET Upper}
          /\ DOMAIN secrets' = proc[i].missing \cup DOMAIN secrets
      <3>1. secrets \in UNION {[E -> Kinds] : E \in SUBSET Upper}
        BY <1>2 DEF CloudOK
      <3> DEFINE D == proc[i].missing
      <3>2. D \in SUBSET Upper /\ x \in [D -> Kinds] /\ secrets' = Over(x, secrets)
        BY <1>3, <2>1
      <3> HIDE DEF D
      <3>3. /\ Over(x, secrets) \in UNION {[E -> Kinds] : E \in SUBSET Upper}
            /\ DOMAIN Over(x, secrets) = D \cup DOMAIN secrets
        BY <3>1, <3>2, OverTyped
      <3>4. QED
        BY <3>2, <3>3 DEF D
    <2>3. CloudOK(app, volumes, secrets, release)'
      BY <1>1, <1>2, <2>2 DEF CloudOK
    <2>4. CASE Goto(i, "build")
      <3> DEFINE q == [proc[i] EXCEPT !.pc = "build"]
      <3>1. q.pc = "build" /\ q.clean = proc[i].clean /\ q.source = proc[i].source
        BY <1>2 DEF ProcState
      <3> HIDE DEF q
      <3>2. Lacking(q, volumes', secrets')
        BY <3>1 DEF Lacking
      <3>3. q.clean => Ready(q, file, app', volumes', secrets', release')
        BY <1>1, <1>2, <2>2, <3>1 DEF Ready
      <3>4. "build" \in Phases \ Others
        BY DEF Phases, Others
      <3>5. QED
        BY <1>1, <1>2, <2>3, <2>4, <3>2, <3>3, <3>4, Continues DEF q
    <2>5. CASE Ends(i, Ended(1))
      BY <1>1, <1>2, <2>3, <2>5, Breaks
    <2>6. QED
      BY <1>1, <2>4, <2>5
  <1>4. CASE Ends(i, Ended(1)) /\ UNCHANGED secrets
    <2>1. CloudOK(app, volumes, secrets, release)'
      BY <1>1, <1>2, <1>4 DEF CloudOK
    <2>2. QED
      BY <1>1, <1>2, <1>4, <2>1, Breaks
  <1>5. QED
    BY <1>1, <1>3, <1>4

LEMMA BuildStep ==
  ASSUME FlyInv, NEW i \in Process, Build(i)
  PROVE  FlyInv'
  <1>1. /\ proc[i].pc = "build" /\ UNCHANGED <<file, cloud>>
        /\ \/ Ends(i, [proc[i] EXCEPT !.pc = "push", !.artifact = file])
           \/ Ends(i, Ended(1))
    BY DEF Build
  <1>2. /\ Working(proc[i]) /\ proc[i] \in ProcState /\ CloudOK(app, volumes, secrets, release)
        /\ CloudOK(app, volumes, secrets, release)' /\ file \in Sources
        /\ proc[i].clean => proc[i].alone
        /\ proc[i].clean => Ready(proc[i], file, app, volumes, secrets, release)
    BY <1>1, Standing, SameCloud DEF Others
  <1>3. CASE Ends(i, [proc[i] EXCEPT !.pc = "push", !.artifact = file])
    <2> DEFINE q == [proc[i] EXCEPT !.pc = "push", !.artifact = file]
    <2>1. /\ q \in ProcState /\ q.pc = "push" /\ q.clean = proc[i].clean
          /\ q.source = proc[i].source /\ q.artifact = file /\ q.alone = proc[i].alone
      BY <1>2 DEF ProcState, Phases
    <2> HIDE DEF q
    <2>2. Lacking(q, volumes', secrets')
      BY <2>1 DEF Lacking
    <2>3. q.clean => Ready(q, file, app', volumes', secrets', release')
      BY <1>1, <1>2, <2>1 DEF Ready, cloud
    <2>4. Served(q) /\ q.pc \notin Others
      BY <2>1 DEF Served, Others
    <2>5. Work(q, file, app', volumes', secrets', release')
      BY <1>2, <2>1, <2>2, <2>3, <2>4 DEF Work
    <2>6. QED
      BY <1>1, <1>2, <1>3, <2>1, <2>5, Moves DEF q
  <1>4. CASE Ends(i, Ended(1))
    BY <1>1, <1>2, <1>4, Breaks
  <1>5. QED
    BY <1>1, <1>3, <1>4

\* What a pre-flight without gaps accepted is packaged, and there is a volume to mount.
LEMMA PushStep ==
  ASSUME FlyInv, NEW i \in Process, Push(i)
  PROVE  FlyInv'
  <1> DEFINE fits == app /\ Packaged(proc[i]) /\ (Server(proc[i].source) => volumes > 0)
  <1>1. /\ proc[i].pc = "push" /\ UNCHANGED <<file, app, volumes, secrets>>
        /\ \/ /\ release' = proc[i].artifact
              /\ Goto(i, "health") \/ Ends(i, Ended(1))
           \/ /\ Ends(i, IF fits THEN Ended(1) ELSE Exit(proc[i], 1))
              /\ UNCHANGED release
    BY DEF Push
  <1> HIDE DEF fits
  <1>2. /\ Working(proc[i]) /\ proc[i] \in ProcState /\ CloudOK(app, volumes, secrets, release)
        /\ proc[i].clean => Ready(proc[i], file, app, volumes, secrets, release)
        /\ proc[i].pc \notin Others
    BY <1>1, Standing DEF Others
  <1>3. CloudOK(app, volumes, secrets, release)'
    BY <1>1, <1>2 DEF CloudOK, ProcState
  <1>4. CASE release' = proc[i].artifact /\ Goto(i, "health")
    <2> DEFINE q == [proc[i] EXCEPT !.pc = "health"]
    <2>1. /\ q.pc = "health" /\ q.clean = proc[i].clean /\ q.source = proc[i].source
          /\ q.artifact = proc[i].artifact
      BY <1>2 DEF ProcState
    <2> HIDE DEF q
    <2>2. Lacking(q, volumes', secrets')
      BY <2>1 DEF Lacking
    <2>3. q.clean => Ready(q, file, app', volumes', secrets', release')
      BY <1>1, <1>2, <1>4, <2>1 DEF Ready
    <2>4. "health" \in Phases \ Others
      BY DEF Phases, Others
    <2>5. QED
      BY <1>1, <1>2, <1>3, <1>4, <2>2, <2>3, <2>4, Continues DEF q
  <1>5. CASE Ends(i, Ended(1))
    BY <1>1, <1>2, <1>3, <1>5, Breaks
  <1>6. CASE ~fits /\ Ends(i, Exit(proc[i], 1))
    <2> DEFINE q == Exit(proc[i], 1)
    <2>1. /\ q \in ProcState /\ q.pc = "done" /\ q.clean = proc[i].clean
          /\ proc[i].clean => q.source = proc[i].source
      BY <1>2, Exits
    <2> HIDE DEF q
    <2>2. ASSUME q.clean PROVE ~Gapless(q.source)
      <3>1. Ready(proc[i], file, app, volumes, secrets, release) /\ q.source = proc[i].source
        BY <1>2, <2>1, <2>2
      <3>2. /\ app /\ proc[i].artifact = proc[i].source
            /\ Server(proc[i].source) => volumes > 0
        BY <1>1, <3>1 DEF Ready
      <3>3. ~Packaged(proc[i])
        BY <1>6, <3>2 DEF fits
      <3>4. QED
        BY <3>1, <3>2, <3>3 DEF Packaged, Gapless
    <2>3. Served(q)
      BY <2>2 DEF Served
    <2>4. QED
      BY <1>1, <1>2, <1>3, <1>6, <2>1, <2>3, Stops DEF q
  <1>7. QED
    BY <1>1, <1>4, <1>5, <1>6

\* A release of a project without gaps, with its references set to what a server takes,
\* serves.
LEMMA HealthStep ==
  ASSUME FlyInv, NEW i \in Process, Health(i)
  PROVE  FlyInv'
  <1> DEFINE up == app /\ Serves(release, secrets)
             happy == [Exit(proc[i], 0) EXCEPT !.serves = release = proc[i].artifact]
  <1>1. /\ proc[i].pc = "health" /\ UNCHANGED <<file, cloud>>
        /\ \/ up /\ Ends(i, happy)
           \/ ~up /\ Ends(i, IF Refused THEN Ended(1) ELSE Exit(proc[i], 1))
           \/ Ends(i, Ended(1))
    BY DEF Health
  <1> HIDE DEF up
  <1>2. /\ Working(proc[i]) /\ proc[i] \in ProcState /\ CloudOK(app, volumes, secrets, release)
        /\ CloudOK(app, volumes, secrets, release)' /\ file \in Sources
        /\ proc[i].clean => Ready(proc[i], file, app, volumes, secrets, release)
    BY <1>1, Standing, SameCloud DEF Others
  <1>3. CASE Ends(i, happy)
    <2>1. LET e == Exit(proc[i], 0) IN
          /\ e \in ProcState /\ e.pc = "done" /\ e.clean = proc[i].clean
          /\ proc[i].clean => e.exit = 0
      BY <1>2, Exits
    <2>2. /\ happy \in ProcState /\ happy.pc = "done" /\ happy.clean = proc[i].clean
          /\ proc[i].clean => happy.exit = 0
          /\ happy.serves = (release = proc[i].artifact)
      BY <2>1 DEF ProcState
    <2> HIDE DEF happy
    <2>3. happy.clean => happy.exit = 0 /\ happy.serves
      BY <1>1, <1>2, <2>2 DEF Ready
    <2>4. Served(happy)
      BY <2>3 DEF Served
    <2>5. QED
      BY <1>1, <1>2, <1>3, <2>2, <2>4, Stops
  <1>4. CASE Ends(i, Ended(1))
    BY <1>1, <1>2, <1>4, Breaks
  <1>5. CASE ~up /\ ~Refused /\ Ends(i, Exit(proc[i], 1))
    <2> DEFINE q == Exit(proc[i], 1)
    <2>1. /\ q \in ProcState /\ q.pc = "done" /\ q.clean = proc[i].clean
          /\ proc[i].clean => q.source = proc[i].source
      BY <1>2, Exits
    <2> HIDE DEF q
    <2>2. ASSUME q.clean, Accepts(q.source), Gapless(q.source) PROVE FALSE
      <3>1. Ready(proc[i], file, app, volumes, secrets, release) /\ q.source = proc[i].source
        BY <1>2, <2>1, <2>2
      <3>2. /\ app /\ release = file /\ q.source = file
            /\ EnvRefs(file.manifest) \subseteq DOMAIN secrets
        BY <1>1, <3>1 DEF Ready
      <3>3. /\ \A v \in DOMAIN secrets : secrets[v] \in Kinds
            /\ Server(file) /\ IsRef(file.manifest.sessionSecret)
                 => secrets[file.manifest.sessionSecret[2]] \in Long
        <4>1. PICK D \in SUBSET Upper : secrets \in [D -> Kinds]
          BY <1>2 DEF CloudOK
        <4>2. ASSUME Server(file), IsRef(file.manifest.sessionSecret)
              PROVE  file.manifest.sessionSecret[2] \in DOMAIN secrets
          BY <2>2, <3>2, <4>2 DEF Gapless, EnvRefs, Refs, Resolved, Secrets
        <4>3. file # None /\ "random" \in Long
          BY <1>2, FlyDeployAssumption
        <4>4. QED
          BY <1>5, <3>2, <4>1, <4>2, <4>3 DEF Refused
      <3>4. Server(file) => Boots(file, Over(secrets, Volume))
        BY <1>2, <2>2, <3>2, <3>3, PreflightIsEnough
      <3>5. file # None
        BY <1>2, FlyDeployAssumption
      <3>6. QED
        BY <1>5, <3>2, <3>4, <3>5 DEF up, Serves
    <2>3. Served(q)
      BY <2>2 DEF Served
    <2>4. QED
      BY <1>1, <1>2, <1>5, <2>1, <2>3, Stops DEF q
  <1>6. QED
    BY <1>1, <1>3, <1>4, <1>5

\* The other commands are answered by no operator in the sense of Served.
LEMMA OtherEnds ==
  ASSUME FlyInv, NEW i \in Process, proc[i].pc \in Others, NEW code \in {0, 1},
         Ends(i, Exit(proc[i], code)), file' = file, CloudOK(app, volumes, secrets, release)'
  PROVE  FlyInv'
  <1>1. proc[i].pc \notin {"idle", "done"}
    BY DEF Others
  <1>2. Working(proc[i]) /\ proc[i] \in ProcState /\ ~proc[i].tty
    BY <1>1, Standing DEF FlyInv, Work
  <1> DEFINE q == Exit(proc[i], code)
  <1>3. /\ q \in ProcState /\ q.pc = "done" /\ q.clean = proc[i].clean
        /\ proc[i].clean => q.tty = proc[i].tty
    BY <1>2, Exits
  <1> HIDE DEF q
  <1>4. Served(q)
    BY <1>2, <1>3 DEF Served
  <1>5. QED
    BY <1>2, <1>3, <1>4, Stops DEF q

LEMMA OtherStep ==
  ASSUME FlyInv, NEW i \in Process,
         Destroy(i) \/ SecretsSet(i) \/ SecretsUnset(i) \/ NoEffect(i)
  PROVE  FlyInv'
  <1>1. CloudOK(app, volumes, secrets, release)
    BY DEF FlyInv
  <1>2. PICK D \in SUBSET Upper : secrets \in [D -> Kinds]
    BY <1>1 DEF CloudOK
  <1>3. CASE Destroy(i)
    <2>1. /\ proc[i].pc \in Others /\ file' = file
          /\ app' = FALSE /\ volumes' = 0 /\ secrets' = <<>> /\ release' = None
          /\ \E code \in {0, 1} : Ends(i, Exit(proc[i], code))
      BY <1>3 DEF Destroy, Others
    <2>2. secrets' \in [{} -> Kinds]
      BY <2>1
    <2>3. CloudOK(app, volumes, secrets, release)'
      BY <2>1, <2>2 DEF CloudOK
    <2>4. QED
      BY <2>1, <2>3, OtherEnds
  <1>4. CASE SecretsSet(i)
    <2>1. /\ proc[i].pc \in Others /\ UNCHANGED <<file, app, volumes, release>>
          /\ \E code \in {0, 1} : Ends(i, Exit(proc[i], code))
      BY <1>4 DEF SecretsSet, Others
    <2>2. PICK v \in EnvRefs(file.manifest), value \in {"typed", "short"} :
            secrets' = Over([w \in {v} |-> value], secrets)
      BY <1>4 DEF SecretsSet
    <2>3. {v} \in SUBSET Upper /\ [w \in {v} |-> value] \in [{v} -> Kinds]
          /\ secrets \in UNION {[E -> Kinds] : E \in SUBSET Upper}
      BY <1>2, <2>2 DEF EnvRefs, Kinds
    <2>4. secrets' \in UNION {[E -> Kinds] : E \in SUBSET Upper}
      BY <2>2, <2>3, OverTyped
    <2>5. CloudOK(app, volumes, secrets, release)'
      BY <1>1, <2>1, <2>4 DEF CloudOK
    <2>6. QED
      BY <2>1, <2>5, OtherEnds
  <1>5. CASE SecretsUnset(i)
    <2>1. /\ proc[i].pc \in Others /\ UNCHANGED <<file, app, volumes, release>>
          /\ \E code \in {0, 1} : Ends(i, Exit(proc[i], code))
      BY <1>5 DEF SecretsUnset, Others
    <2>2. PICK v \in DOMAIN secrets : secrets' = [w \in DOMAIN secrets \ {v} |-> secrets[w]]
      BY <1>5 DEF SecretsUnset
    <2>3. secrets' \in [D \ {v} -> Kinds] /\ D \ {v} \in SUBSET Upper
      BY <1>2, <2>2
    <2>4. CloudOK(app, volumes, secrets, release)'
      BY <1>1, <2>1, <2>3 DEF CloudOK
    <2>5. QED
      BY <2>1, <2>4, OtherEnds
  <1>6. CASE NoEffect(i)
    <2>1. /\ proc[i].pc \in Others /\ UNCHANGED <<file, cloud>> /\ Ends(i, Exit(proc[i], 1))
      BY <1>6 DEF NoEffect, Others
    <2>2. QED
      BY <2>1, SameCloud, OtherEnds
  <1>7. QED
    BY <1>3, <1>4, <1>5, <1>6

LEMMA FlyInductive == Spec => []FlyInv
  <1>1. Init => FlyInv
    BY FlyInitInv
  <1>2. FlyInv /\ [Next]_vars => FlyInv'
    <2> SUFFICES ASSUME FlyInv, [Next]_vars PROVE FlyInv'
      OBVIOUS
    <2>1. ASSUME NEW p \in Sources, Edit(p) PROVE FlyInv'
      BY <2>1, EditStep
    <2>2. ASSUME NEW i \in Process, Command(i) PROVE FlyInv'
      <3>1. CASE Deploy(i)
        BY <3>1, DeployBegins
      <3>2. CASE \E c \in {"destroy", "set", "unset"} : Once(i, c)
        BY <3>2, OtherBegins DEF Others
      <3>3. CASE DeployStep(i)
        BY <3>3, AuthStep, ProbeStep, DeclineStep, CreateStep, ListVolumesStep, CreateVolumeStep,
           ListSecretsStep, SetMissingStep, BuildStep, PushStep, HealthStep DEF DeployStep
      <3>4. CASE Destroy(i) \/ SecretsSet(i) \/ SecretsUnset(i) \/ NoEffect(i)
        BY <3>4, OtherStep
      <3>5. QED
        BY <2>2, <3>1, <3>2, <3>3, <3>4 DEF Command
    <2>3. CASE UNCHANGED vars
      BY <2>3 DEF vars, cloud, FlyInv, OnlyOne
    <2>4. QED
      BY <2>1, <2>2, <2>3 DEF Next
  <1>3. QED
    BY <1>1, <1>2, PTL DEF Spec

\* Up to the gaps the pre-flight leaves, a deploy it accepts that nothing disturbs ends with
\* its own program serving, whatever the app went through before (runFlyDeploy).
THEOREM CleanDeployServesHolds == Spec => []CleanDeployServes
  <1>1. FlyInv => CleanDeployServes
    BY DEF FlyInv, Work, Served, CleanDeployServes
  <1>2. QED
    BY <1>1, FlyInductive, PTL

\* A deploy that runs alone sets only secrets that the app lacks, and makes a volume only
\* when it has none or would not list it (ensureFlyVolume, missingFlySecrets).
THEOREM RedeployKeepsStateHolds == Spec => RedeployKeepsState
  <1> DEFINE Keeps(i) ==
        DeployStep(i) /\ proc[i].alone =>
          /\ \A v \in DOMAIN secrets : v \in DOMAIN secrets' /\ secrets'[v] = secrets[v]
          /\ volumes' > volumes => volumes = 0 \/ proc[i].blind
          /\ app => app'
  <1>1. ASSUME FlyInv, NEW i \in Process PROVE Keeps(i)
    <2> SUFFICES ASSUME DeployStep(i), proc[i].alone
                 PROVE  /\ \A v \in DOMAIN secrets :
                             v \in DOMAIN secrets' /\ secrets'[v] = secrets[v]
                        /\ volumes' > volumes => volumes = 0 \/ proc[i].blind
                        /\ app => app'
      OBVIOUS
    <2>0. CloudOK(app, volumes, secrets, release)
      BY <1>1 DEF FlyInv
    <2>1. CASE SetMissing(i)
      <3>0. secrets' = secrets \/ \E s \in Prompted(i) : secrets' = Over(s, secrets)
        BY <2>1 DEF SetMissing
      <3>1. proc[i].pc = "prompt" /\ app' = app /\ volumes' = volumes
        BY <2>1 DEF SetMissing
      <3>2. proc[i].missing \cap DOMAIN secrets = {}
        BY <1>1, <3>1, Standing DEF Lacking
      <3>3. \A s \in Prompted(i) : DOMAIN s = proc[i].missing
        BY DEF Prompted
      <3>4. ASSUME NEW s \in Prompted(i), secrets' = Over(s, secrets)
            PROVE  \A v \in DOMAIN secrets : v \in DOMAIN secrets' /\ secrets'[v] = secrets[v]
        <4>1. DOMAIN s \cap DOMAIN secrets = {}
          BY <3>2, <3>3
        <4>2. QED
          BY <3>4, <4>1 DEF Over
      <3>5. \A v \in DOMAIN secrets : v \in DOMAIN secrets' /\ secrets'[v] = secrets[v]
        <4>1. CASE secrets' = secrets
          BY <4>1
        <4>2. QED
          BY <3>0, <3>4, <4>1
      <3>6. QED
        BY <2>0, <3>1, <3>5 DEF CloudOK
    <2>2. CASE CreateVolume(i)
      <3>1. proc[i].pc = "newVolume" /\ UNCHANGED <<app, secrets>>
        BY <2>2 DEF CreateVolume
      <3>2. volumes = 0 \/ proc[i].blind
        BY <1>1, <3>1, Standing DEF Lacking
      <3>3. QED
        BY <3>1, <3>2
    <2>3. CASE Create(i)
      BY <2>0, <2>3 DEF Create, CloudOK
    <2>4. CASE \/ Auth(i) \/ Probe(i) \/ Decline(i) \/ ListVolumes(i) \/ ListSecrets(i)
               \/ Build(i) \/ Push(i) \/ Health(i)
      <3>1. UNCHANGED <<app, volumes, secrets>>
        BY <2>4 DEF Auth, Probe, Decline, ListVolumes, ListSecrets, Build, Push, Health, cloud
      <3>2. QED
        BY <2>0, <3>1 DEF CloudOK
    <2>5. QED
      BY <2>1, <2>2, <2>3, <2>4 DEF DeployStep
  <1>2. FlyInv => \A i \in Process : Keeps(i)
    BY <1>1
  <1>3. QED
    BY <1>2, FlyInductive, PTL DEF RedeployKeepsState
-----------------------------------------------------------------------------
\* Pages.

Keys == UNION {Pages!Range(v) : v \in Versions}
Dirs == UNION {[paths -> Keys] : paths \in SUBSET UNION {DOMAIN v : v \in Versions}}
PagesPhases == {"idle", "done", "project", "create", "build", "collect", "missing", "upload",
                "upsert", "deployment"}

PagesState ==
  [pc : PagesPhases, exit : {None, 0, 1}, tty : BOOLEAN, files : Dirs, missing : SUBSET Keys,
   built : Versions \cup {None}, alone : BOOLEAN]

Agrees(dir, built) == \A path \in DOMAIN built : dir[path] = built[path]

\* What a process that deploys has seen in the store, put there or committed, and, if it is
\* alone, that it deploys what it built.
Task(q, d, st, co, de) ==
  /\ q.pc \in {"idle", "project", "create", "build", "collect"} => q.files = <<>>
  /\ q.pc = "upload" => Pages!Range(q.files) \subseteq st \cup q.missing
  /\ q.pc = "upsert" => Pages!Range(q.files) \subseteq st
  /\ q.pc = "deployment" => Pages!Range(q.files) \subseteq st \cap co
  /\ q.alone /\ q.pc = "collect" => Agrees(d, q.built)
  /\ q.alone /\ q.pc \in {"missing", "upload", "upsert", "deployment"} => Agrees(q.files, q.built)
  /\ q.exit = 0 => /\ q.pc = "done"
                   /\ q.files # <<>> => /\ q.files \in de
                                        /\ q.alone => Agrees(q.files, q.built)

PagesOnlyOne ==
  \A i, j \in Process :
    Working(pagesProc[i]) /\ Working(pagesProc[j]) /\ pagesProc[i].alone => i = j

PagesInv ==
  /\ source \in Versions /\ dist \in Dirs /\ pagesProc \in [Process -> PagesState]
  /\ \A d \in deployments : Pages!Range(d) \subseteq store \cap committed
  /\ PagesOnlyOne
  /\ \A i \in Process : Task(pagesProc[i], dist, store, committed, deployments)

LEMMA PagesMoves ==
  ASSUME PagesInv, NEW i \in Process, Working(pagesProc[i]), NEW q \in PagesState,
         Pages!Ends(i, q), source' = source, dist' \in Dirs,
         store \subseteq store', committed \subseteq committed', deployments \subseteq deployments',
         \A d \in deployments' : Pages!Range(d) \subseteq store' \cap committed',
         Working(q) /\ q.alone => pagesProc[i].alone,
         Task(q, dist', store', committed', deployments')
  PROVE  PagesInv'
  <1>1. pagesProc' = [pagesProc EXCEPT ![i] = q] /\ pagesProc \in [Process -> PagesState]
    BY DEF PagesInv, Pages!Ends
  <1>2. PagesOnlyOne'
    BY <1>1 DEF PagesInv, PagesOnlyOne
  <1>3. ASSUME NEW j \in Process
        PROVE  Task(pagesProc'[j], dist', store', committed', deployments')
    <2>1. CASE j = i
      BY <1>1, <2>1
    <2>2. CASE j # i
      <3>1. pagesProc'[j] = pagesProc[j] /\ Task(pagesProc[j], dist, store, committed, deployments)
        BY <1>1, <2>2 DEF PagesInv
      <3>2. pagesProc[j].alone => pagesProc[j].pc # "collect"
        BY <2>2 DEF PagesInv, PagesOnlyOne, Working
      <3>3. QED
        BY <3>1, <3>2 DEF Task
    <2>3. QED
      BY <2>1, <2>2
  <1>4. QED
    BY <1>1, <1>2, <1>3 DEF PagesInv

LEMMA PagesStanding ==
  ASSUME PagesInv, NEW i \in Process, pagesProc[i].pc \notin {"idle", "done"}
  PROVE  /\ Working(pagesProc[i]) /\ pagesProc[i] \in PagesState
         /\ Task(pagesProc[i], dist, store, committed, deployments)
         /\ pagesProc[i].exit # 0
         /\ source \in Versions /\ dist \in Dirs
         /\ \A d \in deployments : Pages!Range(d) \subseteq store \cap committed
  BY DEF PagesInv, Task, Working

\* A failure claims nothing, and what it leaves in the store and the project does no harm.
LEMMA PagesFails ==
  ASSUME PagesInv, NEW i \in Process, Working(pagesProc[i]), Pages!Fails(i),
         source' = source, dist' \in Dirs,
         store \subseteq store', committed \subseteq committed', deployments \subseteq deployments',
         \A d \in deployments' : Pages!Range(d) \subseteq store' \cap committed'
  PROVE  PagesInv'
  <1> DEFINE q == [pagesProc[i] EXCEPT !.pc = "done", !.exit = 1]
  <1>1. pagesProc[i] \in PagesState
    BY DEF PagesInv
  <1>2. q \in PagesState /\ q.pc = "done" /\ q.exit = 1
    BY <1>1 DEF PagesState, PagesPhases
  <1>3. Pages!Ends(i, q)
    BY DEF Pages!Fails, Pages!Exit
  <1> HIDE DEF q
  <1>4. ~Working(q) /\ Task(q, dist', store', committed', deployments')
    BY <1>2 DEF Working, Task
  <1>5. QED
    BY <1>2, <1>3, <1>4, PagesMoves

\* A step that leaves the directory and the remote side alone.
LEMMA PagesLocal ==
  ASSUME PagesInv, NEW i \in Process, Working(pagesProc[i]), NEW q \in PagesState,
         Pages!Ends(i, q), UNCHANGED <<source, dist, store, committed, deployments>>,
         q.alone => pagesProc[i].alone,
         Task(q, dist, store, committed, deployments)
  PROVE  PagesInv'
  <1>1. dist \in Dirs /\ \A d \in deployments : Pages!Range(d) \subseteq store \cap committed
    BY DEF PagesInv
  <1>2. QED
    BY <1>1, PagesMoves

LEMMA PagesLocalFails ==
  ASSUME PagesInv, NEW i \in Process, Working(pagesProc[i]), Pages!Fails(i),
         UNCHANGED <<source, dist, store, committed, deployments>>
  PROVE  PagesInv'
  <1>1. dist \in Dirs /\ \A d \in deployments : Pages!Range(d) \subseteq store \cap committed
    BY DEF PagesInv
  <1>2. QED
    BY <1>1, PagesFails

\* The build does not begin before the project is there, or was asked about.
LEMMA PagesAdvances ==
  ASSUME PagesInv, NEW i \in Process, pagesProc[i].pc \in {"project", "create"},
         NEW pc \in {"create", "build"}, Pages!Goto(i, pc),
         UNCHANGED <<source, dist, store, committed, deployments>>
  PROVE  PagesInv'
  <1>1. /\ Working(pagesProc[i]) /\ pagesProc[i] \in PagesState /\ pagesProc[i].exit # 0
        /\ pagesProc[i].files = <<>>
    BY PagesStanding DEF Task
  <1> DEFINE q == [pagesProc[i] EXCEPT !.pc = pc]
  <1>2. /\ q \in PagesState /\ q.pc = pc /\ q.files = <<>> /\ q.exit # 0
        /\ q.alone = pagesProc[i].alone
    BY <1>1 DEF PagesState, PagesPhases
  <1>3. Pages!Ends(i, q)
    BY DEF Pages!Goto
  <1> HIDE DEF q
  <1>4. Task(q, dist, store, committed, deployments)
    BY <1>2 DEF Task
  <1>5. QED
    BY <1>1, <1>2, <1>3, <1>4, PagesLocal

LEMMA PagesProjectStep ==
  ASSUME PagesInv, NEW i \in Process,
         Pages!CheckProject(i) \/ Pages!Decline(i) \/ Pages!CreateProject(i)
  PROVE  PagesInv'
  <1>1. /\ pagesProc[i].pc \in {"project", "create"}
        /\ UNCHANGED <<source, dist, store, committed, deployments>>
        /\ \/ \E pc \in {"create", "build"} : Pages!Goto(i, pc)
           \/ Pages!Fails(i)
           \/ pagesProc[i].pc = "create" /\ Pages!Ends(i, Pages!Exit(pagesProc[i], 0))
    BY DEF Pages!CheckProject, Pages!Decline, Pages!CreateProject, Pages!remote
  <1>2. /\ Working(pagesProc[i]) /\ pagesProc[i] \in PagesState
        /\ pagesProc[i].files = <<>>
    BY <1>1, PagesStanding DEF Task
  <1>3. CASE \E pc \in {"create", "build"} : Pages!Goto(i, pc)
    BY <1>1, <1>3, PagesAdvances
  <1>4. CASE Pages!Fails(i)
    BY <1>1, <1>2, <1>4, PagesLocalFails
  <1>5. CASE Pages!Ends(i, Pages!Exit(pagesProc[i], 0))
    <2> DEFINE q == Pages!Exit(pagesProc[i], 0)
    <2>1. /\ q \in PagesState /\ q.pc = "done" /\ q.files = <<>>
          /\ q.alone = pagesProc[i].alone
      BY <1>2 DEF PagesState, PagesPhases, Pages!Exit
    <2> HIDE DEF q
    <2>2. Task(q, dist, store, committed, deployments)
      BY <2>1 DEF Task
    <2>3. QED
      BY <1>1, <1>2, <1>5, <2>1, <2>2, PagesLocal DEF q
  <1>6. QED
    BY <1>1, <1>3, <1>4, <1>5

LEMMA WrittenDir ==
  ASSUME NEW built \in Versions, NEW d \in Dirs
  PROVE  Pages!Written(built, d) \in Dirs /\ Agrees(Pages!Written(built, d), built)
  <1> DEFINE w == Pages!Written(built, d)
             all == UNION {DOMAIN v : v \in Versions}
  <1>1. PICK paths \in SUBSET all : d \in [paths -> Keys]
    BY DEF Dirs
  <1>2. DOMAIN built \subseteq all /\ \A path \in DOMAIN built : built[path] \in Keys
    BY DEF Keys, Pages!Range
  <1>3. w \in [DOMAIN built \cup paths -> Keys]
    BY <1>1, <1>2 DEF Pages!Written
  <1>4. DOMAIN built \cup paths \in SUBSET all
    BY <1>1, <1>2
  <1>5. w \in Dirs
    BY <1>3, <1>4 DEF Dirs
  <1>6. Agrees(w, built)
    BY DEF Agrees, Pages!Written
  <1>7. QED
    BY <1>5, <1>6

LEMMA PagesBuildStep ==
  ASSUME PagesInv, NEW i \in Process, Pages!Build(i)
  PROVE  PagesInv'
  <1>1. /\ pagesProc[i].pc = "build"
        /\ UNCHANGED <<source, store, committed, deployments>>
        /\ \/ /\ dist' = Pages!Written(source, dist)
              /\ Pages!Ends(i, [pagesProc[i] EXCEPT !.pc = "collect", !.built = source])
           \/ Pages!Fails(i) /\ UNCHANGED dist
    BY DEF Pages!Build, Pages!remote
  <1>2. /\ Working(pagesProc[i]) /\ pagesProc[i] \in PagesState /\ pagesProc[i].exit # 0
        /\ pagesProc[i].files = <<>> /\ source \in Versions /\ dist \in Dirs
        /\ \A d \in deployments : Pages!Range(d) \subseteq store \cap committed
    BY <1>1, PagesStanding DEF Task
  <1>3. CASE Pages!Fails(i) /\ UNCHANGED dist
    BY <1>1, <1>2, <1>3, PagesLocalFails
  <1>4. CASE /\ dist' = Pages!Written(source, dist)
             /\ Pages!Ends(i, [pagesProc[i] EXCEPT !.pc = "collect", !.built = source])
    <2> DEFINE q == [pagesProc[i] EXCEPT !.pc = "collect", !.built = source]
    <2>1. /\ q \in PagesState /\ q.pc = "collect" /\ q.built = source /\ q.files = <<>>
          /\ q.exit # 0 /\ q.alone = pagesProc[i].alone
      BY <1>2 DEF PagesState, PagesPhases
    <2>2. Pages!Ends(i, q)
      BY <1>4
    <2> HIDE DEF q
    <2>3. dist' \in Dirs /\ Agrees(dist', source)
      BY <1>2, <1>4, WrittenDir
    <2>4. Task(q, dist', store', committed', deployments')
      BY <2>1, <2>3 DEF Task
    <2>5. QED
      BY <1>1, <1>2, <2>1, <2>2, <2>3, <2>4, PagesMoves
  <1>5. QED
    BY <1>1, <1>3, <1>4

LEMMA PagesCollectStep ==
  ASSUME PagesInv, NEW i \in Process, Pages!CollectDistAssets(i)
  PROVE  PagesInv'
  <1>1. /\ pagesProc[i].pc = "collect"
        /\ UNCHANGED <<source, dist, store, committed, deployments>>
        /\ \/ Pages!Ends(i, [pagesProc[i] EXCEPT !.pc = "missing", !.files = dist])
           \/ Pages!Fails(i)
    BY DEF Pages!CollectDistAssets, Pages!remote
  <1>2. /\ Working(pagesProc[i]) /\ pagesProc[i] \in PagesState /\ pagesProc[i].exit # 0
        /\ Task(pagesProc[i], dist, store, committed, deployments) /\ dist \in Dirs
    BY <1>1, PagesStanding
  <1>3. CASE Pages!Ends(i, [pagesProc[i] EXCEPT !.pc = "missing", !.files = dist])
    <2> DEFINE q == [pagesProc[i] EXCEPT !.pc = "missing", !.files = dist]
    <2>1. /\ q \in PagesState /\ q.pc = "missing" /\ q.files = dist /\ q.exit # 0
          /\ q.alone = pagesProc[i].alone /\ q.built = pagesProc[i].built
      BY <1>2 DEF PagesState, PagesPhases
    <2> HIDE DEF q
    <2>2. Task(q, dist, store, committed, deployments)
      BY <1>1, <1>2, <2>1 DEF Task
    <2>3. QED
      BY <1>1, <1>2, <1>3, <2>1, <2>2, PagesLocal DEF q
  <1>4. CASE Pages!Fails(i)
    BY <1>1, <1>2, <1>4, PagesLocalFails
  <1>5. QED
    BY <1>1, <1>3, <1>4

LEMMA PagesMissingStep ==
  ASSUME PagesInv, NEW i \in Process, Pages!CheckMissing(i)
  PROVE  PagesInv'
  <1> DEFINE lacks == Pages!Range(pagesProc[i].files) \ store
             q == [pagesProc[i] EXCEPT !.pc = IF lacks = {} THEN "upsert" ELSE "upload",
                                       !.missing = lacks]
  <1>1. /\ pagesProc[i].pc = "missing"
        /\ UNCHANGED <<source, dist, store, committed, deployments>>
        /\ Pages!Ends(i, q) \/ Pages!Fails(i)
    BY DEF Pages!CheckMissing, Pages!remote
  <1>2. /\ Working(pagesProc[i]) /\ pagesProc[i] \in PagesState /\ pagesProc[i].exit # 0
        /\ Task(pagesProc[i], dist, store, committed, deployments)
    BY <1>1, PagesStanding
  <1>3. CASE Pages!Ends(i, q)
    <2>1. lacks \subseteq Keys
      BY <1>2 DEF PagesState, Dirs, Pages!Range
    <2> HIDE DEF lacks
    <2>2. /\ q \in PagesState /\ q.pc = IF lacks = {} THEN "upsert" ELSE "upload"
          /\ q.missing = lacks /\ q.exit # 0 /\ q.files = pagesProc[i].files
          /\ q.alone = pagesProc[i].alone /\ q.built = pagesProc[i].built
      BY <1>2, <2>1 DEF PagesState, PagesPhases
    <2> HIDE DEF q
    <2>3. Pages!Range(q.files) \subseteq store \cup lacks
      BY <2>2 DEF lacks
    <2>4. Task(q, dist, store, committed, deployments)
      BY <1>1, <1>2, <2>2, <2>3 DEF Task
    <2>5. QED
      BY <1>1, <1>2, <1>3, <2>2, <2>4, PagesLocal
  <1>4. CASE Pages!Fails(i)
    BY <1>1, <1>2, <1>4, PagesLocalFails
  <1>5. QED
    BY <1>1, <1>3, <1>4

LEMMA PagesUploadStep ==
  ASSUME PagesInv, NEW i \in Process, Pages!UploadMissing(i)
  PROVE  PagesInv'
  <1>1. PICK b \in Pages!Batches(pagesProc[i].missing) :
          LET rest == pagesProc[i].missing \ b IN
          \/ /\ store' = store \cup b
             /\ \/ Pages!Ends(i, [pagesProc[i] EXCEPT !.missing = rest,
                                    !.pc = IF rest = {} THEN "upsert" ELSE "upload"])
                \/ Pages!Fails(i)
          \/ Pages!Fails(i) /\ UNCHANGED store
    BY DEF Pages!UploadMissing
  <1> DEFINE rest == pagesProc[i].missing \ b
             q == [pagesProc[i] EXCEPT !.missing = rest,
                                       !.pc = IF rest = {} THEN "upsert" ELSE "upload"]
  <1>2. /\ pagesProc[i].pc = "upload" /\ UNCHANGED <<source, dist, committed, deployments>>
    BY DEF Pages!UploadMissing
  <1>3. /\ Working(pagesProc[i]) /\ pagesProc[i] \in PagesState /\ pagesProc[i].exit # 0
        /\ Task(pagesProc[i], dist, store, committed, deployments) /\ dist \in Dirs
        /\ \A d \in deployments : Pages!Range(d) \subseteq store \cap committed
    BY <1>2, PagesStanding
  <1>4. /\ store \subseteq store'
        /\ \A d \in deployments' : Pages!Range(d) \subseteq store' \cap committed'
    BY <1>1, <1>2, <1>3
  <1>5. CASE Pages!Fails(i)
    BY <1>2, <1>3, <1>4, <1>5, PagesFails
  <1>6. CASE store' = store \cup b /\ Pages!Ends(i, q)
    <2>1. rest \subseteq Keys
      BY <1>3 DEF PagesState
    <2>2. Pages!Range(pagesProc[i].files) \subseteq store' \cup rest
      BY <1>2, <1>3, <1>6 DEF Task
    <2> HIDE DEF rest
    <2>3. /\ q \in PagesState /\ q.pc = IF rest = {} THEN "upsert" ELSE "upload"
          /\ q.missing = rest /\ q.exit # 0 /\ q.files = pagesProc[i].files
          /\ q.alone = pagesProc[i].alone /\ q.built = pagesProc[i].built
      BY <1>3, <2>1 DEF PagesState, PagesPhases
    <2> HIDE DEF q
    <2>4. Task(q, dist', store', committed', deployments')
      BY <1>2, <1>3, <2>2, <2>3 DEF Task
    <2>5. QED
      BY <1>2, <1>3, <1>4, <1>6, <2>3, <2>4, PagesMoves
  <1>7. QED
    BY <1>1, <1>5, <1>6

LEMMA PagesUpsertStep ==
  ASSUME PagesInv, NEW i \in Process, Pages!UpsertHashes(i)
  PROVE  PagesInv'
  <1>1. /\ pagesProc[i].pc = "upsert" /\ UNCHANGED <<source, dist, store, deployments>>
        /\ \/ /\ committed' = committed \cup (Pages!Range(pagesProc[i].files) \cap store)
              /\ Pages!Goto(i, "deployment") \/ Pages!Fails(i)
           \/ Pages!Fails(i) /\ UNCHANGED committed
    BY DEF Pages!UpsertHashes, Pages!Commit
  <1>2. /\ Working(pagesProc[i]) /\ pagesProc[i] \in PagesState /\ pagesProc[i].exit # 0
        /\ Task(pagesProc[i], dist, store, committed, deployments) /\ dist \in Dirs
        /\ \A d \in deployments : Pages!Range(d) \subseteq store \cap committed
    BY <1>1, PagesStanding
  <1>3. /\ committed \subseteq committed'
        /\ \A d \in deployments' : Pages!Range(d) \subseteq store' \cap committed'
    BY <1>1, <1>2
  <1>4. CASE Pages!Fails(i)
    BY <1>1, <1>2, <1>3, <1>4, PagesFails
  <1>5. CASE /\ committed' = committed \cup (Pages!Range(pagesProc[i].files) \cap store)
             /\ Pages!Goto(i, "deployment")
    <2> DEFINE q == [pagesProc[i] EXCEPT !.pc = "deployment"]
    <2>1. /\ q \in PagesState /\ q.pc = "deployment" /\ q.exit # 0
          /\ q.files = pagesProc[i].files
          /\ q.alone = pagesProc[i].alone /\ q.built = pagesProc[i].built
      BY <1>2 DEF PagesState, PagesPhases
    <2>2. Pages!Ends(i, q)
      BY <1>5 DEF Pages!Goto
    <2> HIDE DEF q
    <2>3. Pages!Range(q.files) \subseteq store' \cap committed'
      BY <1>1, <1>2, <1>5, <2>1 DEF Task
    <2>4. Task(q, dist', store', committed', deployments')
      BY <1>1, <1>2, <2>1, <2>3 DEF Task
    <2>5. QED
      BY <1>1, <1>2, <1>3, <2>1, <2>2, <2>4, PagesMoves
  <1>6. QED
    BY <1>1, <1>4, <1>5

LEMMA PagesDeploymentStep ==
  ASSUME PagesInv, NEW i \in Process, Pages!CreateDeployment(i)
  PROVE  PagesInv'
  <1>1. /\ pagesProc[i].pc = "deployment" /\ UNCHANGED <<source, dist, store, committed>>
        /\ \/ /\ deployments' = deployments \cup {pagesProc[i].files}
              /\ Pages!Ends(i, Pages!Exit(pagesProc[i], 0)) \/ Pages!Fails(i)
           \/ Pages!Fails(i) /\ UNCHANGED deployments
    BY DEF Pages!CreateDeployment
  <1>2. /\ Working(pagesProc[i]) /\ pagesProc[i] \in PagesState
        /\ Task(pagesProc[i], dist, store, committed, deployments) /\ dist \in Dirs
        /\ \A d \in deployments : Pages!Range(d) \subseteq store \cap committed
    BY <1>1, PagesStanding
  <1>3. Pages!Range(pagesProc[i].files) \subseteq store \cap committed
    BY <1>1, <1>2 DEF Task
  <1>4. /\ deployments \subseteq deployments'
        /\ \A d \in deployments' : Pages!Range(d) \subseteq store' \cap committed'
    BY <1>1, <1>2, <1>3
  <1>5. CASE Pages!Fails(i)
    BY <1>1, <1>2, <1>4, <1>5, PagesFails
  <1>6. CASE /\ deployments' = deployments \cup {pagesProc[i].files}
             /\ Pages!Ends(i, Pages!Exit(pagesProc[i], 0))
    <2> DEFINE q == Pages!Exit(pagesProc[i], 0)
    <2>1. /\ q \in PagesState /\ q.pc = "done" /\ q.exit = 0
          /\ q.files = pagesProc[i].files
          /\ q.alone = pagesProc[i].alone /\ q.built = pagesProc[i].built
      BY <1>2 DEF PagesState, PagesPhases, Pages!Exit
    <2> HIDE DEF q
    <2>2. Task(q, dist', store', committed', deployments')
      BY <1>1, <1>2, <1>6, <2>1 DEF Task
    <2>3. ~Working(q)
      BY <2>1 DEF Working
    <2>4. QED
      BY <1>1, <1>2, <1>4, <1>6, <2>1, <2>2, <2>3, PagesMoves DEF q
  <1>7. QED
    BY <1>1, <1>5, <1>6

LEMMA PagesInitInv ==
  ASSUME Pages!Init
  PROVE  PagesInv
  <1>1. <<>> \in [{} -> Keys] /\ {} \in SUBSET UNION {DOMAIN v : v \in Versions}
    OBVIOUS
  <1>2. <<>> \in Dirs
    BY <1>1 DEF Dirs
  <1>3. Pages!Blank \in PagesState
    BY <1>2 DEF Pages!Blank, PagesState, PagesPhases
  <1>4. /\ Pages!Blank.pc = "idle" /\ Pages!Blank.files = <<>> /\ Pages!Blank.exit = None
        /\ None # 0
    BY FlyDeployAssumption DEF Pages!Blank
  <1>5. ASSUME NEW i \in Process PROVE pagesProc[i] = Pages!Blank /\ ~Working(pagesProc[i])
    BY <1>4 DEF Pages!Init, Working
  <1>6. ASSUME NEW i \in Process PROVE Task(pagesProc[i], dist, store, committed, deployments)
    BY <1>4, <1>5 DEF Task
  <1>7. PagesOnlyOne
    BY <1>5 DEF PagesOnlyOne
  <1>8. QED
    BY <1>2, <1>3, <1>6, <1>7 DEF Pages!Init, PagesInv

LEMMA PagesStartStep ==
  ASSUME PagesInv, NEW i \in Process, Pages!Start(i)
  PROVE  PagesInv'
  <1>1. PICK tty \in BOOLEAN, ok \in BOOLEAN :
          LET q == [Pages!Blank EXCEPT !.tty = tty, !.alone = Pages!Active = {}] IN
          pagesProc' = [j \in Process |->
            IF j = i THEN IF ok THEN [q EXCEPT !.pc = "project"] ELSE Pages!Exit(q, 1)
            ELSE [pagesProc[j] EXCEPT !.alone = @ /\ j \notin Pages!Active]]
    BY DEF Pages!Start
  <1> DEFINE first == Pages!Active = {}
             q == [Pages!Blank EXCEPT !.tty = tty, !.alone = first]
             n == IF ok THEN [q EXCEPT !.pc = "project"] ELSE Pages!Exit(q, 1)
             beside(j) == [pagesProc[j] EXCEPT !.alone = @ /\ j \notin Pages!Active]
  <1>2. /\ pagesProc \in [Process -> PagesState]
        /\ pagesProc' = [j \in Process |-> IF j = i THEN n ELSE beside(j)]
        /\ UNCHANGED <<source, dist, store, committed, deployments>>
    BY <1>1 DEF Pages!Start, Pages!remote, PagesInv
  <1>3. <<>> \in Dirs /\ None # 0 /\ first \in BOOLEAN
    <2>1. <<>> \in [{} -> Keys] /\ {} \in SUBSET UNION {DOMAIN v : v \in Versions}
      OBVIOUS
    <2>2. <<>> \in Dirs
      BY <2>1 DEF Dirs
    <2>3. None # 0
      BY FlyDeployAssumption
    <2>4. QED
      BY <2>2, <2>3
  <1>4. q \in PagesState /\ q.exit = None /\ q.files = <<>> /\ q.alone = first
    BY <1>3 DEF Pages!Blank, PagesState, PagesPhases
  <1>5. /\ n \in PagesState /\ n.exit # 0 /\ n.files = <<>> /\ n.pc \in {"project", "done"}
        /\ n.alone = first
    <2> HIDE DEF q, first
    <2>1. CASE ok
      <3>1. n = [q EXCEPT !.pc = "project"]
        BY <2>1
      <3> HIDE DEF n
      <3>2. n \in PagesState /\ n.pc \in {"project", "done"}
        BY <1>4, <3>1 DEF PagesState, PagesPhases
      <3>3. n.files = <<>> /\ n.alone = first /\ n.exit \in {None, 1}
        BY <1>4, <3>1 DEF PagesState
      <3>4. QED
        BY <1>3, <3>2, <3>3
    <2>2. CASE ~ok
      <3>1. n = [q EXCEPT !.pc = "done", !.exit = 1]
        BY <2>2 DEF Pages!Exit
      <3> HIDE DEF n
      <3>2. n \in PagesState /\ n.pc \in {"project", "done"}
        BY <1>4, <3>1 DEF PagesState, PagesPhases
      <3>3. n.files = <<>> /\ n.alone = first /\ n.exit \in {None, 1}
        BY <1>4, <3>1 DEF PagesState
      <3>4. QED
        BY <1>3, <3>2, <3>3
    <2>3. QED
      BY <2>1, <2>2
  <1>6. ASSUME NEW j \in Process
        PROVE  /\ beside(j) \in PagesState
               /\ beside(j).pc = pagesProc[j].pc /\ beside(j).files = pagesProc[j].files
               /\ beside(j).missing = pagesProc[j].missing
               /\ beside(j).built = pagesProc[j].built /\ beside(j).exit = pagesProc[j].exit
               /\ beside(j).alone => pagesProc[j].alone /\ j \notin Pages!Active
    BY <1>2 DEF PagesState
  <1>7. \A j \in Process : j \in Pages!Active <=> Working(pagesProc[j])
    BY DEF Pages!Active, Working
  <1> HIDE DEF n, q, first, beside
  <1>8. PagesOnlyOne'
    <2> SUFFICES ASSUME NEW j \in Process, NEW k \in Process,
                        Working(pagesProc'[j]), Working(pagesProc'[k]), pagesProc'[j].alone
                 PROVE  j = k
      BY DEF PagesOnlyOne
    <2>1. CASE j = i
      <3>1. Pages!Active = {}
        BY <1>2, <1>5, <2>1 DEF first
      <3>2. k # i => Working(pagesProc[k])
        BY <1>2, <1>6 DEF Working
      <3>3. QED
        BY <1>7, <2>1, <3>1, <3>2
    <2>2. CASE j # i
      BY <1>2, <1>6, <1>7, <2>2 DEF Working
    <2>3. QED
      BY <2>1, <2>2
  <1>9. ASSUME NEW j \in Process
        PROVE  Task(pagesProc'[j], dist, store, committed, deployments)
    <2>1. CASE j = i
      BY <1>2, <1>5, <2>1 DEF Task
    <2>2. CASE j # i
      <3>1. pagesProc'[j] = beside(j) /\ Task(pagesProc[j], dist, store, committed, deployments)
        BY <1>2, <2>2 DEF PagesInv
      <3>2. QED
        BY <1>6, <3>1 DEF Task
    <2>3. QED
      BY <2>1, <2>2
  <1>10. pagesProc' \in [Process -> PagesState]
    BY <1>2, <1>5, <1>6
  <1>11. QED
    BY <1>2, <1>8, <1>9, <1>10 DEF PagesInv

LEMMA PagesInductive == Pages!Spec => []PagesInv
  <1>1. Pages!Init => PagesInv
    BY PagesInitInv
  <1>2. PagesInv /\ [Pages!Next]_(Pages!vars) => PagesInv'
    <2> SUFFICES ASSUME PagesInv, [Pages!Next]_(Pages!vars) PROVE PagesInv'
      OBVIOUS
    <2>1. CASE Pages!Edit
      BY <2>1 DEF Pages!Edit, Pages!remote, PagesInv, PagesOnlyOne
    <2>2. ASSUME NEW i \in Process,
                 \/ Pages!Start(i) \/ Pages!CheckProject(i) \/ Pages!Decline(i)
                 \/ Pages!CreateProject(i) \/ Pages!Build(i) \/ Pages!CollectDistAssets(i)
                 \/ Pages!CheckMissing(i) \/ Pages!UploadMissing(i) \/ Pages!UpsertHashes(i)
                 \/ Pages!CreateDeployment(i)
          PROVE  PagesInv'
      BY <2>2, PagesStartStep, PagesProjectStep, PagesBuildStep, PagesCollectStep,
         PagesMissingStep, PagesUploadStep, PagesUpsertStep, PagesDeploymentStep
    <2>3. CASE UNCHANGED Pages!vars
      BY <2>3 DEF Pages!vars, Pages!remote, PagesInv, PagesOnlyOne
    <2>4. QED
      BY <2>1, <2>2, <2>3 DEF Pages!Next
  <1>3. QED
    BY <1>1, <1>2, PTL DEF Pages!Spec

\* No deployment of Pages names an asset that is missing, and what a process deploys while
\* no other runs is what it built, whatever failed before (runCloudflarePagesDeploy).
THEOREM DeploymentsServableHolds == Pages!Spec => []DeploymentsServable
  <1>1. PagesInv => DeploymentsServable
    BY DEF PagesInv, Task, Agrees, DeploymentsServable, Pages!DeploymentsServable
  <1>2. QED
    BY <1>1, PagesInductive, PTL
=============================================================================
