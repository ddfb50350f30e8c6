------------------------------ MODULE Manifest ------------------------------
(***************************************************************************)
(* mar.json and the program beside it: what loading checks and resolves,   *)
(* what `mar build` and `mar deploy` require, and what the deployed server *)
(* needs to boot.  One set of operators, because the question is whether   *)
(* the earlier checks imply the later ones.                                *)
(*                                                                         *)
(* A string field is a literal or a reference to an environment variable.  *)
(* What its literal must look like is one set, WellFormed: an address, a   *)
(* host name, a tag, a colour are only told right or wrong.                *)
(***************************************************************************)
EXTENDS Integers, Sequences, Functions

CONSTANTS
  WellFormed,  \* literals of the shape their field asks for
  Long,        \* values of 32 bytes or more
  Upper        \* variable names [A-Z_][A-Z0-9_]*

Lit(s) == <<"lit", s>>
Env(v) == <<"env", v>>
Empty == Lit("")
IsRef(f) == f[1] = "env"
Error == [error |-> TRUE]

\* The settings of mar.json.  One that is not written has its zero value.
Fields == {"json", "name", "locale", "admins", "recentRequests", "interval", "retention",
           "iosUrl", "from", "smtpHost", "smtpUsername", "smtpPassword", "smtpPort", "perMinute",
           "burst", "body", "proxies", "color", "sessionSecret", "apiToken", "flyApp",
           "flyRegion", "flyMemory", "cfApp", "cfAccount"}

Secrets == {"smtpPassword", "sessionSecret", "apiToken"}

\* The fields in which a reference is resolved.  mail.from is not one.
Resolved == Secrets \cup {"smtpHost", "smtpUsername", "flyApp", "flyRegion", "flyMemory",
                          "cfApp", "cfAccount"}

CheckSecrets(m) == \A f \in Secrets : m[f] = Empty \/ IsRef(m[f])

Shape(f) == f = Empty \/ (~IsRef(f) /\ f[2] \in WellFormed)
InRange(n, lo, hi) == n = 0 \/ n \in lo .. hi

ValidateAdmins(m) == Range(m.admins) \subseteq WellFormed /\ IsInjective(m.admins)
ValidateAdminPanel(m) == InRange(m.recentRequests, 10, 5000)
ValidateAutoBackup(m) == InRange(m.interval, 1, 168) /\ InRange(m.retention, 2, 100)
ValidateIOS(m) == Shape(m.iosUrl)
ValidateMail(m) ==
  /\ Shape(m.from) /\ Shape(m.smtpHost)
  /\ m.smtpUsername # Lit("...")
  /\ InRange(m.smtpPort, 1, 65535)
ValidateRateLimit(m) == InRange(m.perMinute, 1, 100000) /\ InRange(m.burst, 1, 10000)
ValidateServer(m) == InRange(m.body, 2^10, 2^25) /\ m.proxies \subseteq WellFormed
ValidatePWA(m) == Shape(m.color)
ValidateLocale(m) == m.locale \in WellFormed

Validate(m) ==
  /\ ValidateAdmins(m) /\ ValidateAdminPanel(m) /\ ValidateAutoBackup(m)
  /\ ValidateIOS(m) /\ ValidateMail(m) /\ ValidateRateLimit(m)
  /\ ValidateServer(m) /\ ValidatePWA(m) /\ ValidateLocale(m)

\* The variables of s, and those of t that s does not have.
Over(s, t) == [v \in DOMAIN s \cup DOMAIN t |-> IF v \in DOMAIN s THEN s[v] ELSE t[v]]

Resolve(f, env) == IF ~IsRef(f) THEN f
                   ELSE IF f[2] \in DOMAIN env THEN Lit(env[f[2]])
                   ELSE Empty  \* the dev load's answer for a variable that is not set

ResolveEnvRefs(m, env) == [f \in DOMAIN m |-> IF f \in Resolved THEN Resolve(m[f], env) ELSE m[f]]
Refs(m) == {m[f][2] : f \in {g \in Resolved : IsRef(m[g])}}

\* How a manifest is loaded: as written, with every reference resolved, or with those
\* that are set.
Load(m, mode, env) ==
  LET r == IF mode = "structure" THEN m ELSE ResolveEnvRefs(m, env) IN
  IF /\ m.json = "ok"  \* one object, no field unknown, nothing after it
     /\ CheckSecrets(m)
     /\ mode = "strict" => Refs(m) \subseteq DOMAIN env
     /\ mode = "structure" \/ r.sessionSecret = Empty \/ r.sessionSecret[2] \in Long
     /\ Validate(r)
  THEN r ELSE Error

-----------------------------------------------------------------------------
\* What the command line requires.  A project is its manifest, the topology its main
\* picks or None, whether it has an Auth.config, and its public/ directory.

ValidateProductionConfig(p) ==
  LET m == p.manifest IN
  /\ p.auth \/ m.admins # <<>> => m.sessionSecret # Empty
  /\ p.auth => \A f \in {"from", "smtpHost", "smtpUsername", "smtpPassword"} : m[f] # Empty

ValidateDeployFly(m) ==
  /\ m.flyApp # Empty
  /\ m.flyRegion # Empty /\ Shape(m.flyRegion)  \* isKnownFlyRegion
  /\ m.flyMemory # Empty /\ Shape(m.flyMemory)

\* Mutant: Only the fields that must be secret are looked at.
EnvRefs_SecretsOnly(m) == {m[f][2] : f \in {g \in Secrets : IsRef(m[g])}} \cap Upper

\* The variables `mar deploy` pushes: what a regular expression finds in the file.
EnvRefs(m) == {m[f][2] : f \in {g \in Resolved \cup {"from"} : IsRef(m[g])}} \cap Upper

-----------------------------------------------------------------------------
\* The deployed server.

Boots(p, env) ==
  /\ Load(p.manifest, "strict", env) # Error
  /\ p.public # "reserved"
=============================================================================
