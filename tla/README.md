# TLA+ models of Mar

Mar compiles an application written in one small language into a server and its
clients. The server keeps the application's entities in SQLite and migrates their tables
by itself, signs users in with emailed codes, takes backups, and in development recompiles
and reloads the open tabs at every save. One half of these modules models the parts of
that which are concurrent, can be interrupted, or keep state from one request to the next;
the other half the language itself, from characters to what a page shows, because
its stages have to agree with each other: parser with printer, checker with evaluator,
bundle with server.

| Module | What it is |
|---|---|
| `UserAuth`, `UserAuthProofs` | sign-in, sessions and the sweeper, one action per SQL statement |
| `OneTimeCode` | what sign-in promises of one code; `UserAuth` is checked and proved, and `AdminAuth` proved, to implement it |
| `Migrator`, `MigratorProofs` | migration of a table, and `Repo.create`, one action per SQL statement |
| `LiveReload`, `LiveReloadProofs` | `mar dev`: watcher, compile, reload hub and browser tabs |
| `BackupRestore`, `BackupRestoreProofs` | database file, WAL, lock, backup scheduler, catalog and `restore-db` |
| `DurableDatabase` | what all of that promises together: one database that keeps its commits; `BackupRestore` is proved to implement it |
| `Server`, `ServerProofs` | a request from the outer middleware to the log, against a hot reload and other requests |
| `RequestLog` | the ring of recent requests; `ServerProofs` has its proof |
| `TokenBucket`, `LimiterProofs` | the gateway's rate limiter; the bounds of both limiters, and that neither forgets what matters |
| `SlidingWindow` | the limiter of the sign-in endpoints |
| `AdminAuth`, `AdminAuthProofs` | the admin panel's list, codes and sessions |
| `Manifest` | `mar.json`: loading, validation, what a deploy pushes and a boot needs |
| `FlyDeploy`, `PagesDeploy`, `DeployProofs` | the deploys, call by call |
| `Lexer`, `Parser` | from characters to the tree of a module |
| `Types`, `Exhaustive`, `Infer`, `CheckModule`, `Builtins` | the type checker, from unification to a module |
| `Sides`, `ShapeLint` | the checks of a whole project: its call graph, and what it gives to `Repo` and `Auth.config` |
| `Entities` | declarations, the encoding and decoding of rows, and the operations on them |
| `Values`, `Stdlib`, `Strings`, `Effects`, `Eval` | values, library and evaluator |
| `Linker`, `Bundle`, `Browser` | a project checked and loaded, pruned for its pages, and run by the browser |
| `Language` | the way of a program through all of those |
| `Deploys` | the two deploys side by side |
| `MC*` | instances for TLC; each `.cfg` says which values and bounds. `LiveReload`, `BackupRestore` and `AdminAuth` are run as they are |

`tlc -config UserAuthSignIn.cfg UserAuth` runs one of them, `tlapm UserAuthProofs.tla`
checks one proof module. `PROJECT.json` lists the components, the runs, for every property
a mutation of a modelled definition that breaks it, the source lines behind each
definition, the places where documentation and code disagree, and the hazards. A helper
whose lines are part of the definition that uses it has no entry of its own there. A mutated
form stands right above its definition, marked `Mutant`; no specification uses it.

## 1. Inventory

For each part: the state it keeps, its operations, whom it interacts with, what is hard
about it, and what makes it correct.

### Email-code sign-in and sessions (`internal/jsserve/auth.go`, `internal/auth`)

- State: the tables `_mar_auth_codes` and `_mar_auth_sessions`, the application's user
  table, and the two limiters of code requests.
- Operations: `request-code` (look up or create the user, store a code, send the mail),
  `verify-code` (select the newest usable code, count a wrong guess and lock, or consume
  the code, find the user, mint a session), `logout`, the session check under `whoami` and
  every protected service (select, touch `last_used_at`, load the user), the daily sweep.
- Interactions: all of it is HTTP handlers, concurrent with each other, with the sweeper
  and with the application's own services, which may delete users. Signing up runs the
  migrator of the user table.
- Hard: no transaction spans two statements, so handlers interleave between any two; an
  error or a stop may come after any of them; expiry is compared at a boundary second, in
  opposite directions by the handlers and the sweeper.
- Correct when one code mints at most one session, of the user it was sent to; wrong
  guesses are counted and bounded; sign-ups never duplicate an address; a logout holds; a
  sweep removes nothing live and in the end everything dead.

### Schema migration and Repo.create (`internal/runtime/migrate.go`, `repo.go`)

- State: the live schema, the rows, `_mar_schema_migrations`, and the per-process map of
  tables already migrated.
- Operations: plan (read the schema, read whether there are rows, diff every column and
  unique index), execute and audit a step at a time, remember; `Repo.create` is migrate,
  INSERT, read back.
- Interactions: `mar dev` migrates at boot, before it listens, and again on each hot
  reload while requests are served. The deployed runtime does not migrate at boot: the
  first Repo call of each table does, and several may. The lookup of the sign-in creates
  its table on its own.
- Hard: the plan is made from a schema and an emptiness that may have changed before a
  step runs; a stop or failure between a change and its audit row; old and new program at
  once during a reload; two tables of a name, one after the other.
- Correct when what is remembered as migrated is what the version declares, no migration
  loses a row, every change is accounted for, and the listener opens on a good schema.

### mar dev (`cmd/mar/main.go`, `internal/jsserve/livereload.go`, `runtime.js`)

- State: the files, the watcher's last snapshot, `LiveProgram` (program, last error), the
  process-wide tables filled by evaluating the modules, one bounded channel per tab, and in
  each tab the running program, the error panel and the fetches under way.
- Operations: poll, compile (reset, parse, evaluate, swap, migrate), set or clear the
  error, broadcast; in a tab load, fetch, run, subscribe, handle an event, reconnect.
- Hard: a save in the middle of a compile; a tab that connects between two steps of it; a
  channel that is full; streams that break; answers that arrive in another order; a
  compile that fails after it has changed what is being served.
- Correct when the last save takes effect, a tab shows the error there is, and a tab that
  runs an old program does so for a known reason.

### Backups and restore (`internal/admin`, `cmd/mar-runtime/restore.go`, `runtime/dblock*.go`)

- State: the main file, the `-wal` file, the file moved aside, the advisory lock on a side
  file, the catalog directory, and the scheduler's timer.
- Operations: open and lock at boot; fire, VACUUM INTO, fingerprint, write the archive,
  prune; restore: check, confirm, rename, extract, clean up, roll back.
- Interactions: the scheduler is a goroutine of the server, the restore another process;
  they share the file system only.
- Hard: the server opens the database before it takes the lock; nothing ever closes the
  database cleanly; each step of a restore may be the last one, and the errors of a rename
  and of a removal are discarded; a partial archive has its final name.
- Correct when server and restore exclude each other, a restore installs its bundle or
  nothing, the database can be opened whenever no restore was cut off, failed unnoticed or
  met a server, and backups neither pile up nor vanish.

### Request pipeline (`internal/jsserve/unified.go`, `server.go`, `middleware.go`, `runtime/service.go`, `effect.go`)

- State: the routes of the live program, the registered `Auth.config`, the counters of
  requests, the request log.
- Operations: limit, count, choose the pipeline, match, load the user, decode (422), signed
  in (401), role (500 or 403), record (404), owner (403), run the handler's effects, answer,
  log; a reload registers the configuration and then swaps the routes.
- Interactions: sign-outs, role and owner changes and reloads go on while a request runs.
- Hard: a fullstack request reads the routes twice; gates read facts at different instants;
  a chain of effects stops half way and keeps what it wrote; a panic takes another way out.
- Correct when a handler runs only past the gates of its service, the answer fits what was
  written, and the counters and the log agree with the requests.

### Limiters and request log (`internal/ratelimit`, `internal/auth/ratelimit.go`, `admin/requests.go`)

- State: a bucket, or the recent times, per key; a ring with a head.
- Operations: allow, evict; record, snapshot.
- Hard: the bucket's clock is read before its lock, so of two requests the earlier time may
  come second; idle keys are thrown away; a ring that is not yet full looks different.
- Correct when no key gets more than its limit, a refusal's retry time is true, and a
  snapshot is the end of what was recorded.

### Admin panel sign-in (`internal/admin/admin.go`, `auth.go`, `cmd/mar/admin.go`)

- State: the list in `mar.json`, the tables `_mar_admins`, codes keyed by the hash of their
  digits, sessions.
- Operations: synchronise at boot, request and verify a code, the gate of every endpoint,
  `mar admin add/remove`.
- Hard: equal digits are one row whoever they belong to; the list changes only at a boot,
  with requests of the stopped server half done.
- Correct when what an admin had ends with the boot after the removal, a code buys one
  session, and wrong answers are limited.

### Manifest and deployment (`internal/project/manifest.go`, `validate.go`, `envrefs.go`, `cmd/mar/fly*.go`, `cloudflarepages*.go`)

- State: `mar.json`, the app, volume, secrets and image at Fly; `dist/`, asset store,
  committed assets and deployments at Pages.
- Operations: load in three modes, validate, pre-flight, create, push secrets, make the
  volume, deploy; build, ask what is missing, upload in batches, commit, create.
- Hard: every call may fail before or after its effect and the command is then run again;
  two operators; `mar.json` is read four times by one deploy.
- Correct when what the pre-flight accepts serves, a deploy keeps the secret and the volume
  an app has, and no deployment names an asset that is missing.

### The language (`internal/lexer`, `parser`, `typecheck`, `runtime`, `project`, `jsserve/runtime.js`)

- State: none between two programs; within one, the substitution of the checker, the frames
  of the loader, the depth of calls.
- Operations: lex, parse, check a module, check a project, load it, apply a function; pick
  and prune what the pages need, load that in the browser, show a page.
- Hard: layout; let-generalisation and number literals whose type is decided late;
  exhaustiveness by constructors in the checker and by trying in the evaluator; recursion
  guards that callbacks go around; names that mean different things to different stages.
- Correct when the parser reads back what was written, the checker accepts exactly the total
  cases, a checked program yields a value of its type, the pruned program shows in the
  browser what the whole one shows on the server, a GET handler writes nothing, and the lint
  refuses exactly the rows and configurations that the server would.

### Not modelled

| Part | Why |
|---|---|
| Database handle (`runtime/db.go`) | its one connection is assumed by every other model; opening it, with an error that is kept for ever, is one step |
| Subscriptions, clocks that advance, the browser's update loop, renderer and navigation | `LiveReload` has a tab's fetches and stream, `Browser` its evaluator; the loop that runs commands, the DOM and the client's session are left out |
| iOS runtime and bundle | a third client in Swift, which the repository compares with the others through a corpus |
| Page server, assets, compression, PWA | request-local; `Server` has the one interaction, the second read of the routes |
| Mail and SMTP check | an SMTP client: `UserAuth` has a mail that is sent or fails |
| Mathematics, random numbers, dates, view kit | floating point and opaque trees |
| Formatter, diagnostics, hints | wording and layout of output |
| Command line, scaffolding, editor support, generators, conformance and parity suites | sequential drivers, writers of files and test data |

### Hazards

`PROJECT.json` lists forty, each with its line and the properties that would catch it. The
six without a property say why: there the code does what one would forbid (a failed
logout answered as success, an old request marking the cache after a reload), so nothing
that holds can be claimed. Three more that were left out of the list because their effect is
plain: DROP TABLE takes the AUTOINCREMENT counter along, so ids are handed out again
(`migrate.go:1005`); a required column dropped from the declaration makes every later INSERT
fail (`:532`); the program's body and its ETag are read under two locks (`server.go:189`).

## 2. Plan

Written in this order, the most important behaviour first. What is to be proved about is
made for it: bounds and instances are CONSTANTS with named assumptions, one action per
operation, invariants as conjunctions of named parts, no recursive operators. The language
is recursive through and through, so its modules use RECURSIVE operators and hold no
theorems.

| | Module | Composes | Abstract specification | Theorems |
|---|---|---|---|---|
| done | `UserAuth` | | `OneTimeCode` | types, one session per code, its owner, unique addresses, logouts, guesses, the sweep, the refinement |
| done | `Migrator` | | | types, cached means migrated, listener on a good schema, audit, boots, indexes, reloads, nothing undone, distinct ids, every step nearer the end |
| done | `LiveReload` | | | a settled tab shows what there is, no save is missed, the program advances |
| done | `BackupRestore` | | `DurableDatabase` | types, exclusion, readable database, restores, the newest backup, the refinement |
| done | `Server` | `RequestLog` | | gates, answers, counters and log |
| done | `RequestLog` | | the sequence of all entries | a snapshot is its end |
| done | `TokenBucket`, `SlidingWindow` | | the account of a key, the history of a key | both bounds, both refinements |
| done | `AdminAuth` | | `OneTimeCode` | the invariant, removal ends access, one session per code, bounded tries, the refinement |
| done | `FlyDeploy`, `PagesDeploy` | `Manifest` | | the pre-flight is enough, a clean deploy serves, a redeploy keeps the state, deployments are complete |
| done | `Language` | the language's modules | each stage judged by the next | |
| open | the browser's update loop: commands, navigation, answers that come late | `Browser`, `LiveReload` | a page as a sequential machine | an answer reaches the page that asked |
| open | `UserIds` | `UserAuth`, `Migrator` (ids reused after a recreate) | | a session never names another's row |

## 3. Modules and code

Common to all: a runtime opens SQLite with one connection (`runtime/db.go:113`), so a
statement is atomic, and the Go code that runs on its result before the next statement is
part of the same action. Nothing is held across statements, so the state of each process
is a program counter with its locals, and any two processes interleave between any two
actions. A transaction (`BEGIN ... COMMIT` sent as one string) is one action. Ids are
numbers handed out in order; clocks are small integers. Variables marked "observer" are
read by properties only, or by the guards that bound the model.

**UserAuth.** `proc[r]` is an HTTP request. `rc_*` are the statements of
`handleAuthRequestCode` and `EnsureUser`, `v_*` those of `handleAuthVerifyCode`, `s_*`
those of the session check; a logout is one statement. `codes`, `users` and `sessions` are
the tables; a deleted row keeps its contents, which no statement reads. `sweep` is the
sweeper goroutine with the time it sampled. Limiters may refuse at any time. Mail is sent
or fails. `DeleteUser` stands for the application's services; `Restart` ends every request
and begins with a sweep, or has no sweeper at all (`sweep.pc = "off"`): when `dbHandle` fails
as the routes are mounted, `sweeperOnce` is spent and nothing is started until the next
process. The first process may be such a one too, where faults are allowed.
`StatementFails` has the three places where an error is not the end of the request. Codes are compared as digits, not as hashes: the hash is injective for
the purpose.

**Migrator.** One table with `NCol` columns; `Field[v][c]` is what version `v` declares of
column `c`. `StepFor` is the diff of one column (`planAddColumn`,
`assertCompatibleColumn`), a plan has one slot per possible step, in the order in which
the code appends them. `proc` holds each request, and the `Booter`, which is the goroutine
that compiles and boots under `mar dev`. `dev` says which of the two ways to run is
modelled. `done` is `migrationCache.done`; its unsynchronised map is a plain variable plus
`Crash`, since Go either goes on or stops the process when it notices. `count.unaudited`
counts schema changes that will have no audit row: cut off by a failure or made by the
sign-in lookup. Steps of several tables, which a run treats one after the other, and notes
about orphan tables are left out.

**LiveReload.** The steps of `compile` that change what others read are actions of their
own: emptying the tables, filling them, swapping the program, migrating, and recording the
error. `Kinds` says how a version fails: not at all, at parsing or checking, at the
`App.*` builtin, at its migration. A tab has its running program, its panel, its fetches
with the order of issue, and the server's end of its stream with the bounded channel.
`behind` (observer) names what an event the tab will never get would have changed.

**BackupRestore.** A main file has an identity, and a `-wal` file belongs to one: a WAL
beside another file reads as `Garbage`, which also stands for a half-written file. A
database is abstracted to its last commit and its schema. The server opens, then locks;
the scheduler's task has one step per call that touches a file; the restore command has
one per call that does. `Stop` and `Interrupt` may come anywhere and leave the files as
they are, for nothing in the program closes the database or handles a signal.

A server may open the database at every moment of a restore: where there is no file yet
(SQLite makes one), on the half-written one, and on the new file under the old WAL, between
the extraction and the clean-up, which it may be able to open or not (`OpenGarbled`). Such a
server waits at the lock until the restore ends, or ends itself. `server.stale` says that its
file was then written, or lost its WAL, under the open connection (`Confuse`), and
`CommitAside` is what its commits do afterwards: they go to a file without a name, or spoil
the one in place. Each operation of the restore that can fail may fail: the extraction, and
the rename of the rollback and the removal of the `-wal` file, whose errors the code discards;
the restore then ends as if they had not (`count.ignored`). `Prune` removes the files behind the
retention one after the other from the newest of them on, and gives up at an error. A
checkpoint may leave the WAL in place or emptied. What SQLite makes of a file under a WAL not
its own is left open, but for one assumption: VACUUM INTO, which reads every page, fails on
such a mixture. `torn`, `disturbed`, `interrupted`, `ignored` and `strays` are observers, by
which the properties name their exceptions.

**Server.** `req[r].pc` is where a request is: refused by the limiter, counted, choosing
its pipeline from the routes it read, matched against routes read again, at one gate after
the other, at one effect after the other, answered, logged. `was` (observer) collects the
facts that were true at some instant of the request, so that `Authorised` can say that each
gate was passed on one of them. `programs` are the versions; a reload is two actions. A
panic may come in any effect. `RequestLog` is instantiated as its log.

**TokenBucket, SlidingWindow.** A call samples the clock and enters later, at most
`MaxWait` ticks; tokens are counted in ticks so that rates are whole numbers. Eviction is
an action with the time its ticker sampled. The window's Allow has the lock throughout and
is one action.

**AdminAuth.** `list` is the file's, `admins` the table's; `Boot` synchronises and removes
what former admins had; `Stop` ends every request. The steps of a request are its SQL
statements. `since` (observer) numbers the times an address came on the list.

**Manifest, FlyDeploy, PagesDeploy.** `Load` is one operator with the three modes in which the
code loads; each validation asks whether a literal is in `WellFormed`. Secrets are compared as
classes of values (generated; typed, and long enough for a session secret or not). A deploy's
process goes through its calls; each fails before its effect, after it, or not. `clean` and
`alone` (observers) say whether anything failed or anyone else ran.

**The language.** A definition stands for one function of the Go code, or, in `Browser`, of
`runtime.js`. Source text is a sequence of units, a token keeps its column; the parser's saved
and restored `boundaryCol` is a parameter. The checker's mutable state is a record passed from
step to step. The evaluator's is the depth, of which there are two: as the code counts it, and
as it really is, since a builtin that calls back resumes the depth its function was stamped
with; a program that passes the guard and exceeds `MaxStack` ends in "crash". A task is what
made it, until `RunTask` runs it against a database (`Entities`) and says what it read and
wrote; `Performed` is what a task, or a sign-in, does to one. `Browser` has its own evaluator
of expressions, its own order of loading, and one limit on the function bodies under way; a
program travels to it as `MakeProgram` sends it, where a literal the checker took for a Decimal
has become one.

`Language` is the state machine over all of it: `Parse`, `Check`, `Load`, `Bundle`, each of
which may be the last. `Check` is the project load of `mar check`, whose lint of rows and
configurations has no types to go by; `Load` is what `mar dev` and the build do, with the
types inferred. What the stages compute is given to it by its CONSTANTS (`Parsed`,
`Checked`, `Loaded`, `Started`, `Called`, `Performed`), and the library applies functions by
the CONSTANT `ApplyFor`, which each evaluator supplies for its own callers: the module is
thus about the way between the stages and what must hold on it, and TLC's statistics, which
walk through every definition an action can reach, stop at a constant. `MCLanguage` gives
them their values. Helpers that take an operator (`Then`, `Each`, `Keep`) are idiom of the
model and stand for no code of their own.

## 4. Runs

All with two workers in about a minute and a half or less. State counts are of distinct states, with
symmetry where the configuration declares it; symmetry is declared only where no liveness
property is checked. `CHECK_DEADLOCK FALSE` everywhere but in `ServerRequests`: with its
counters used up, a bounded model of a server has nothing left to do, and a program that
was shown is done.

| Run | Bounds | States | What it shows |
|---|---|---|---|
| `UserAuthSignIn` | 2 requests, 2 addresses, 2 codes, users and sessions, 2 digit strings, lock at the first wrong guess, no clock, no fault | 548,044 | one session per code, its owner, `GuessesBounded`, `LogoutEndsSession`, and that the handlers implement `OneTimeCode` |
| `UserAuthExpiry` | 1 request, 1 of each row, the clock to 3 with lifetimes of 1, 1 fault, with a sweeper from the start or without | 163,386 | with fairness: sweeps spare what is live, requests are answered, expired sessions go |
| `MigratorRuns` | 2 requests, 2 versions whose second flips a nullability, adds a column and adds a unique index, 1 deploy, 1 crash, 1 failing statement, 2 rows, both ways to run | 94,297 | with fairness: `MigratedFits`, `AuditComplete`, `BootDropsNoRow`, `IndexBeforeInsert`, `ServesMigrated`, `RunnersFinish` |
| `MigratorReload` | 2 requests, 2 reloads, the sign-in's bare CREATE TABLE, 1 failing statement | 278,293 | `ReloadFits`, with requests of both programs beside the reload |
| `LiveReloadTabs` | 2 tabs, 2 saves of any kind, channels of 2, 2 loads per tab | 412,005 | with fairness: `SettledTabCurrent`, `LastSaveTakesEffect`, `TabsSettle` |
| `BackupRestoreSwap` | 1 restore, 3 starts, 2 commits, 2 schemas, clock to 4 with an interval of 2, retention 1, 1 fault (a snapshot, an extraction, a removal that fails) | 6,675,522 | the lock's exclusion, a readable database, restores that install or change nothing, the newest backup stays, each with its exceptions |
| `ServerRequests` | a request to the service and one to a page or the framework, 3 programs (role and owner; role only, with a getter that can fail; none), 1 reload, 2 changes, 2 effects; bucket of 2, refilled every 2 ticks, idle after 6, clock to 9; window of 3 with 2 hits | 989,107 | `Authorised`, `AnswerFitsEffects`, `CountersAndLog`, `AdmittedBound`, `WindowBound` |
| `AdminPanel` | 2 requests, 2 addresses, 2 digit strings, 2 wrong answers, 2 boots, 1 edit of the list, 1 failure | 2,725,172 | `RevokedWithAdmin`, `OneSessionPerIssue`, `TriesBounded` |
| `Deploys` | 2 processes, 3 commands, 2 versions; and one deploy of each of some 700 projects | 994,991 | `CleanDeployServes`, `RedeployKeepsState`, `DeploymentsServable` |
| `Language` | 2,621 programs; Int to 7, coefficients of five digits, lists of 5, calls to depth 10 on the server and 5 in the browser, a stack of 16 | 9,033 | `ParsesBack`, `CasesDecided`, `CheckedProgramsRun`, `BundleRunsSame`, `GetServicesOnlyRead`, `LintDecides` |

The other two, `MigratorRecreateRace` and `BoolCases`, end in a counterexample; see
section 6.

Why these bounds. The races of `UserAuth` need two requests on one code, and the second
address and user for a session to be able to name the wrong one; a lock at the first
wrong guess lets every order of guess, lock and consumption occur, and the bound of
`GuessesBounded` is stated in the constant. Expiry needs the clock to pass the lifetime
(1) and the sweep's grace after it (2), and one step more; it is checked with one request
since the sweeper is the second actor. Migrations race by twos; the two versions together
contain every kind of step, and with a crash and a failure each of them can be the last
one of its run. Two reloads give three generations of requests. A channel of two overflows
with the three events of a recovery; two saves are enough for a save within a compile,
and two loads for a stream that breaks. One restore against three starts has a server
before, during and after it. The one fault can be the removal of the `-wal` file; a rollback
whose rename fails is a second one after the failed extraction, unless the bundle was pruned
in the meantime, which a retention of 1 allows. Each exception in the three properties of a
restore was left out by hand, and TLC finds a violation every time. In `ServerRequests` one reload can fall between any two steps of a
request, two changes between two of its gates, and the second request is there for the
counters; of the limiters, the clock lets a bucket fill, go idle, be evicted and be filled
again, and a window be left entirely. An admin can be removed by the one edit between two
boots, or come back; two tries make the first wrong answer count and the second lock.
Beyond these bounds the theorems of section 5 speak for the invariants they cover.

The programs of `Language` are generated where a property is about every tree or every value:
expressions of two operators on every pair of levels, and of the other forms around each other,
in four layouts; cases of up to three branches over five types; every function of the library
with the plainest arguments and each of them replaced in turn by boundary values and by one of
the wrong type; declarations in every order; rows of one table, with every kind of column given
every kind of value by `create`, `findBy` and `update`. They are written out for what does not
come from a grammar: generalisation, recursion by itself and through builtins, imports in five
ways, two pages over a shared module, pages that call themselves 0, 2, 6 or endlessly many
times (the browser's limit is 5, the server's 10), handlers that write first, last, in a
helper, in another module; declarations of entities, sign-ups, and two modules with one entity
name. Numbers are small so that overflow, expansion and depth are all reached.

Fairness. Weak fairness of each started request, of the migrating goroutine and of the
watcher is Go's scheduler and SQLite's queue: whatever can run does, and statements
return. A user's request, save or page load is never assumed to come. In `UserAuth` the
ticker is weakly fair, and the two statements of a sweep strongly fair: each is tried at
every tick, and their errors are not assumed to be permanent (with a statement that fails
at every tick expired rows do stay). Nothing makes a process without a sweeper restart, so
`ExpiredReclaimed` claims nothing while there is one. In `LiveReload` each tab's browser is weakly fair:
requests are answered and event loops run; streams may break only as often as loads are
left. The other modules claim no liveness.

## 5. Proofs

Forty-seven theorems, for every value of the constants: any number of requests, addresses,
columns, versions, tabs, saves, reloads, deploys, restores, boots and faults, any rate, burst,
limit and capacity. They state every property of the runs but the liveness properties and those
of `Language`. Five show that a module implements an abstract specification, and
`EveryStepIsNearer` and `NoSaveIsMissed` are what two liveness properties rest on beside
fairness. They assume what the modules' `ASSUME`s say, which is what kind of value each
constant is; a theorem that assumes more says so in its statement, and so does this section.

**UserAuthProofs.** `SignInInvariant` is inductive. That one code never mints two sessions is
not inductive: it holds because a code passes from the table (`status = "row"`) to at most one
request (`RedeemerIsAlone`) and from there to at most one session (`SessionWasBought`), so the
invariant says at each stage that nobody else has it. That the session is of the right user
needs `VerifyOnOwnRow`, which carries the address from the SELECT across deletions and new
sign-ups, and `FreshIds`, by which a new row overwrites none. Each table changes in few ways;
the lemmas `CodesStep`, `UsersStep` and `SessionsStep` state those once, and the steps of the
requests use them. `UniqueUserPerEmail` follows from `FreshIds` and the unique index the INSERT
runs into. `LogoutEndsSession` is inductive as it stands, given the types: ids are not handed
out twice.

`GuessesBounded` is proved by counting. Guesses compared with a code are at most the attempts
its row has counted, the requests that have compared and not yet counted or locked, and those
lost to an UPDATE that failed (`GuessesInv`); each fault loses at most one for each request at
work. It needs a finite set of requests. `SweepSparesLive` needs that the sweeper's time is
never later than the clock (`SweepInPast`).

The refinement of `OneTimeCode` maps the rows to a code's stage: issued while its row is there;
then signed in if a session came of it (`Sold`), redeeming while a request holds it in between
(`Held`), and void otherwise. `Traced` says that the row excludes the other two, and which
stage each case is. Then storing a code is the abstract Issue, the DELETE that finds the row is
Redeem, the INSERT of the session is SignIn, and every other step gives a code up or is a
stutter. That the session is of the address the code was sent to needs the address a request
carries not to change under it (`Addressed`), beside `SignInInvariant`.

**MigratorProofs.** `MigratedFits` and `ServesMigrated` rest on `Remembered`. Migrating
runs interfere, and the argument is that they do so in one direction: without hot reloads
all of them work towards the same version, and a schema change of one takes no agreement
away from the others (`Grows`): a column once as declared stays so, even through a
recreate. So each run may keep what it knew when it planned: what its plan has no step
for, or no longer, is as declared (`Sure`), across any number of other runs' steps. A run
with nothing left has therefore a table that fits, whoever made it so. A boot starts with
an empty cache and, under `mar dev`, a closed listener. `AuditComplete` is an invariant by
counting: each change adds a runner to `Unaudited` and each audit row, or failure, removes
one. That a plan is executed from its first open slot uses a least element of a set of
numbers, had from well-foundedness.

`BootDropsNoRow` and `IndexBeforeInsert` rest on `BootInv`: under `mar dev` no request runs
before the first boot has ended (`BootFirst`), a table that a plan will recreate has had no row
since the plan was made (`EmptyRecreate`), and the unique index is in place or among the steps
the booter has left (`IndexLast`), so it is there when the listener opens. With hot reloads
`Remembered` fails, for runs work towards different versions. What is left is `ReloadFits`,
which is about the newest program alone, and holds if no version contradicts an other about a
column that both declare (`Compatible`, a hypothesis of the theorem): without it the old
program's requests undo what the reload did, which is the divergence section 6 lists.
`ReloadInv` says that what any run adds is then right for every version that has it.

Two action properties say the same of every step: without hot reloads none takes the table
away or a column out of agreement with the running version (`NothingIsUndone`), and between
compatible versions none does so for any version (`ReloadsTakeNothingAway`). `SerialIdsDiffer`
needs that a run at its INSERT finds a table, which another run's recreate leaves true
because the DROP and the CREATE are one transaction. `EveryStepIsNearer` is a variant: `Rank`
counts two for each slot of the plan that is left and the steps after it, and every step of a
run lowers it, also when a statement is blocked or fails, so a run ends after at most
2 NCol + 12 steps of its own. `RunnersFinish` adds that those steps come.

**BackupRestoreProofs.** The lock is the centre: `LockDiscipline` says in which steps a
server or a restore holds it, whence the exclusion. Then `Fate` says where the database is
during a swap: in its place until the rename (`KeptAside`, first part), afterwards in the
file moved aside and the WAL left behind, read together (second part), and the bundle's in
the main file once extracted (`Installed`), unless a server had that file open before it was
whole (`torn`). So a rollback whose rename succeeds gives back what was there, and removing
the WAL at the end, where that succeeds, leaves the bundle and nothing on top. A server that
opens the database in the middle, which the code allows, can take commits with it, so
`FailedRestoreKeepsDatabase` excepts that case. Readability it takes away only by writing to
the new file or by going on with its connection after the restore: `Survives` keeps the
database sound, and every server that is up connected to it, in an installation where that,
an interruption and an ignored error have not happened (`Unhurt`), and `DatabaseReadable`
names just these. A bundle is not rewritten under a restore, because the scheduler that could
is stopped while the restore has the lock. `NewestBackupStays` rests on
`CatalogInv`: the time of the archive to come, or at work, is later than that of every other
entry of the catalog, also after a restart; its own entry is partial until it is closed, and
complete when older ones are pruned. So the newest complete one is always among those kept.

`ImplementsDurableDatabase` puts these together. The refinement mapping reads the abstract
contents wherever they are: in the main file with its WAL, and during a swap (`Halfway`) in
the file moved aside with the WAL left behind. The rename, the extraction and the rollback
are then stutters, and the end of the clean-up, which removes that WAL, is the abstract
Restore. It holds as long as nothing cuts a swap short (`CutShort`): between the rename of the
old file and the end of the clean-up no interrupt comes and no starting server deletes the
WAL; no restore ignores the error of a rename or a removal; and no server comes upon a restore
as above (`count.strays`). TLC finds the refinement violated as soon as one part of that
condition is dropped.

**AdminAuthProofs.** `AdminInvariant` is inductive. `Synced` ties every row to the time its
address last came on the list, and `OnePlace` says of an issued code that it is in the table,
or with the one request whose DELETE removed it, or in the session it bought; a request that
stands past its admin check stands on a row that is still synchronised, since only a boot
changes the table and a boot ends the requests. `TriesBounded` has an invariant of its own,
`TriesInv`: the wrong answers compared with a code are at most those its row has counted and
those still on their way to be counted (`Tally`), where the row a request on its way will count
in, if the code still has one, is that of the digits it compared (`Placed`). It needs a finite
set of requests.

`ImplementsOneTimeCode` says that an admin's code is the same promise as a user's. Two history
variables record to whom a code was sent and who bought its session. The table is keyed by the
digits, and the DELETE takes whatever row the digits have by then; so it holds as long as the
digits a request has answered are not sent out again between its SELECT and its DELETE
(`FreshDigits`: six random digits, so it fails once in a million codes issued in that time). TLC
finds a session for another address without it.

**LimiterProofs.** A bucket's age, its last time less its tokens, is when it would have been
empty. A refill never lowers it, even with an earlier time; an admission raises it by a
token and cannot raise it past its own sample. So the sum of admissions follows the clock.
The argument needs that whoever throws an idle bucket away could have refilled it, which is
`RefillsBeforeIdle`, a condition on the constants that the comment at `limiter.go:109-112`
claims and the code does not check. For the window, the hits a key has are the last of all
its admitted events, and every event before them has left the window: the loop that drops
old hits keeps it so because hits are in order, and a sweep drops only keys whose last hit
is old.

Both limiters throw state away, and both are shown to forget nothing that matters.
`BucketForgetsNothing` compares a bucket with an account that is never evicted: as long as
`RefillsBeforeIdle` holds, an absent bucket stands for a full one, so every answer is the
account's. `WindowForgetsNothing` compares the kept hits with the whole history of a key:
the trimmed list is the part of the history inside the window, so a request is admitted, or
told when to come back, exactly as the history says.

**ServerProofs.** A gate proves a fact of the instant at which it reads it, and the world moves
on. The invariant says for each step of a request which facts it has seen (`was`): that the
caller had a session, the role of the user it loaded, a getter that maps this role to the one
the service asks for, that the document was the caller's. None is forgotten before the
request ends, so what was proved at a gate is there when the handler writes (`Authorised`).
`AnswerFitsEffects` needs the effects done and the answer chosen to be tied step by step, and
`CountersAndLog` counts the requests in flight against the counter. The log: once full, the
slot i steps behind the head holds the entry i - 1 places from the end of the record; an
overwrite puts the new one where the head was.

**LiveReloadProofs.** `SettledTabCurrent` speaks of a tab that has taken in all it was sent and
of a watcher that waits. Inductive is what it becomes in between: the last event in the queue
stands for the panel to come (`PanelComing`); a reload in the queue, or a fetch not yet
answered, for the program to come (`ProgramComing`); and the watcher's own step for what it
has changed and not yet told (`WatcherKnows`, `Announced`).

`NoSaveIsMissed` needs that the snapshot comes before the compile: what is compiled is at least
as new as the snapshot (`BuildFollows`), so a watcher that sees no difference has compiled
what is on disk, and `Compiling` says step by step what that has changed by then.
`LastSaveTakesEffect` adds that the watcher comes to wait in the end.

**DeployProofs.** Fly: what a command has found out stays true while it is alone, whence
`RedeployKeepsState` (`Lacking`); what a deploy that nothing has disturbed has seen or made,
project, app, volume and secrets, is there when it ends (`Ready`). The rest of
`CleanDeployServes` is a fact about manifests, `PreflightIsEnough`: up to its gaps, what the
pre-flight accepts loads at boot once the references it finds are set. Pages: the asset store
only grows, so what a process has seen or put there is there when it commits, and what it
committed when it deploys, whoever else deploys; `dist/` is what it built only as long as
nobody else builds (`Task`). `FlyDeployAssumption` has a generated session secret long
enough, as the 32 bytes of `auth.Token` are; one that an operator has typed may be too short,
and a deploy that meets it is not undisturbed.

Only model-checked: `LastSaveTakesEffect`, `TabsSettle`, `RunnersFinish` and the liveness
properties of `UserAuthExpiry` (fairness and ENABLED are out of the prover's reach), and
the properties of `Language`, whose definitions are recursive: what they compute for every
input would need induction over data.

## 6. Where documentation and code disagree

Two runs, each with one property taken from a comment or a test and a counterexample of what
the code does instead:

| Run | The text | What the code does |
|---|---|---|
| `MigratorRecreateRace` | "drop+recreate is safe and zero-data-loss" (`migrate.go:824`) | between the emptiness check and the DROP TABLE another request's row is inserted, reported as created, and lost |
| `BoolCases` | "every `case` a program can write is total" (`runtime/recursion_test.go:243`) | `True` and `False` are values of their own kind but constructors as patterns, so a branch for them never matches |

Met while modelling and kept in the models as the code has them, without a run of their
own (where TLC was used on them by hand, it says so):

- Sign-in: "the code becomes unusable" (`docs/auth.md:369`), yet a request whose SELECT came
  before the lock consumes the locked code (by TLC); "invalidate prior unused codes"
  (`docs/auth.md:61`), yet earlier codes stay usable (by TLC).
- Migration: an empty table is rebuilt rather than refused (`migrate.go:776`), yet a recreate
  followed by ADD COLUMN of a column it already made fails (by TLC).
- Live reload: "the previous good version keeps running" (`cmd/mar/main.go:1508`), yet a failed
  compile has emptied the tables the served program uses, and one whose migration fails is
  served (by TLC).
- Restore: "so the swap is reversible" (`restore.go:8`, `docs/admin-panel.md:827-833`), yet
  commits still in the `-wal` file are removed with it (by TLC). The comment at
  `restore.go:238-241` says why the old `-wal` must go, yet the error of its removal is
  discarded (`:242`) and the restore reports that it is done with the new file under it; the
  error of the rollback's rename is discarded too (`:233`), and the restore then says "live
  database restored to its previous state" of one that is still set aside (both by TLC).
- Sign-in, further: counting and locking are two UPDATEs; a request against a locked code is told
  the code is wrong; the error of logout's DELETE is discarded; of two first sign-ups at
  once one may be answered with an error.
- Migration, further: a failed emptiness check counts as empty; a recreate loses the unique index
  until the plan comes to it, and the AUTOINCREMENT counter for good, so ids are reused; a
  column dropped from the declaration is not seen, and every later INSERT fails if it was
  required; a decimal's scale is not compared; the sign-in lookup's CREATE TABLE is not
  audited; a request of the old program can mark the cache after a hot reload cleared it
  (`MigratedFits` fails, by TLC, without its condition on reloads; TLC checks it, and it
  is proved, with that condition); `repo.go:286-288` has the boot fill the cache, which it
  does not; the deployed runtime migrates at the first Repo call
  (`cmd/mar-runtime/main.go:463`), where `docs/deployment-fly.md:180-181` has a blocked
  migration keep the listener closed (TLC finds the listener open).
- Live reload, further: `path.go:41-44` calls its tables read-only after load; body and ETag of the
  program, and the two reads of the routes by a request, may straddle a swap; answers of
  two fetches may arrive in the wrong order; a program swapped between fetch and
  subscription is announced to nobody; a save before the first snapshot is not compiled.
- Backups (all by TLC): an entry of the catalog is written under its final name, where
  `docs/admin-panel.md` has it moved there; a bundle's database and its schema fingerprint
  are taken by two statements; the check of the live schema reads the main file alone; a
  server opens the database before it has the lock, and may then hold a file that has been
  moved away; a commit it recovers that way can be missing after a rollback.
- Requests: the deferred Close of the gzip writer sends a 200 before `recoverPanic` can
  answer 500 (`compress.go:39`, `middleware.go:53-57`); a request that panics is counted and
  not logged (`admin_services.go:134`); a route that vanishes between the pre-check and the
  dispatch ends in an empty 200; Retry-After is rounded down (`middleware.go:98-104`).
- Admin panel: "consume the code atomically so it can't be replayed" (`admin/auth.go:153-155`)
  holds of a row, and the row is keyed by the digits, so digits sent out again in the middle of a
  request give it a session for another address (by TLC); "exactly that many tries"
  (`auth.go:104-108`) is that many and one for each other request at that moment; the list is
  read at boot only.
- Deploys: a reference to a variable with lower-case letters resolves at boot, and the regular
  expression of `envrefs.go:11-15` does not find it; an unnamed project builds under its
  directory's name where the Dockerfile uses `manifest.Name`; files under reserved names in
  `public/` pass the build and stop the boot; `mail.smtpHost` as a reference is refused by
  every structural load; `deploy.fly.app` as a reference is used literally; dist/ is never
  cleared; a missing Pages project in CI ends with exit code 0; a listing of the volumes that
  fails makes `ensureFlyVolume` ("Idempotent") create a second one. `Gapless` of `FlyDeploy`
  names what `CleanDeployServes` has to except.
- Type checker: an annotation more general than its body is accepted (`f : a -> a`,
  `f x = x + 1`); a generalised integer literal stays an Int where a Decimal is wanted; let
  and parameter patterns that can fail are accepted (`eval.go:646` says they are not); two
  records with one tail variable and different fields send `unify` into a loop; an alias of
  a record alias gets a constructor nobody evaluates; `List.sort` asks nothing of its
  elements; an unannotated top-level function is not generalised within its module.
- Shape lint: `mar check` lints the literals it can read off the tree and `mar dev` with the
  inferred types too, so a program can pass the one and be refused by the other
  (`project.go:158-170` says so). Entities are known by bare name, so those of two modules
  override each other (`shape_lint.go:218`), and a column or a whole `columns` given by a
  variable is unknown: both end in false positives, against `shape_lint.go:33`, and
  `LintDecides` excepts them. Values of a numeric type other than the column's that are no
  literals, and values wrapped in `Just`, escape it; `shape_lint.go:812` leaves a constructor
  of another type in an enum column to the type checker, where `Repo.create` takes any record.
  A table with no column but its serial one has no row that can be created. `identify` is
  never applied: `identifyColumn` takes `email` or the first TEXT column (`auth.go:544`).
- Names: `import Foo as F` binds no `F` in the checker or evaluator; a qualified name needs no
  import, so the bundle can lack its module; `import Repo exposing (..)` in a page module is
  missed by `RunSideCheck`; `RunGetReadOnlyCheck` misses a bare `create` and a handler passed
  as an argument, though it "can never miss a real write" (`get_readonly.go:20-24`).
- Evaluator: a value that reads a later one through a function sees a placeholder, though
  `typecheck/cycles.go` says dependencies come first; the guard on recursion is gone around
  by `Maybe.andMap` and by curried lambdas given to builtins (`eval.go:462-467`); Decimal to
  Int is checked against 64 bits where an Int has 53 (`intrange.go:33-34`); `padLeft` has no
  expansion limit and counts bytes; `Service.call` takes four arguments on the server
  (`service.go:116`) and three by its type; `\ -> 1` parses.
- Browser: 512 nested calls against thousands, so a page that runs on the server can give up in
  the browser (which `BundleRunsSame` excepts); a constructor falls back to its bare name; an
  `if` takes what is no Bool for false.

The programs of `Language` avoid these, since their properties would only fail for the known
reason: no name goes through an alias, no pattern outside a case can fail, no annotation
promises too much, no write is hidden from the check.

## 7. Limits

Data are abstracted to what the properties tell apart: codes, addresses and values are model
values, a database is its last commit and its schema, a program is its version, a setting is
well formed or not, a secret a class of values. A task asks for the time once for all
(`Time.now` is one instant), and what SQLite makes of a value in a column of another type (its
affinity) is modelled from how the code uses it. In the language the characters are one byte
each and the blank is the only white space; the library of the browser is taken to be the
server's, which the repository's conformance corpus compares; the record of bindings with which
the page's entry starts is left out. Not modelled within the modelled parts: several tables at
once, several applications, mail delivery, the limiters in front of sign-in (the model holds
for whatever they admit), the restart of `mar dev` and its order of scheduler and lock, the
ad-hoc backup command and catalog downloads from other processes, and SQLite and the operating
system themselves, which are taken to be atomic per statement, durable at commit, and to
release a process's lock when it ends.
