------------------------------ MODULE UserAuth ------------------------------
(***************************************************************************)
(* The email-code sign-in of a Mar application: the four /_auth handlers   *)
(* (request-code, verify-code, logout, and the session check that whoami   *)
(* and every protected service run), the background sweeper, and the three *)
(* SQLite tables they share.                                               *)
(*                                                                         *)
(* SQLite is opened with one connection, so a statement is atomic, and     *)
(* nothing holds a transaction across two statements: handlers interleave  *)
(* between any two of them.  One action is one statement together with the *)
(* Go code that runs on its result.                                        *)
(*                                                                         *)
(* A row that has been deleted keeps its contents with status "deleted";   *)
(* no statement reads such a row, only the properties do.                  *)
(***************************************************************************)
EXTENDS Naturals, FiniteSets, TLC

CONSTANTS
  Request,      \* request slots: HTTP requests being served at one time
  Email,        \* normalised addresses
  Digits,       \* six-digit codes
  None,         \* stands for SQL NULL and for an unused local
  MaxAttempts,  \* wrong guesses that lock a code (5 in the source)
  CodeTTL,      \* authCodeTTL
  SessionTTL,   \* authSessTTL or Auth.config's sessionDuration
  SweepGrace,   \* how long an expired code row is kept
  MaxTime,      \* bound: the clock stops here
  MaxCode,      \* bound: code rows ever inserted
  MaxUser,      \* bound: user rows ever inserted
  MaxSession,   \* bound: session rows ever inserted
  MaxFaults     \* bound: crashes of the process and statements that fail

ASSUME UserAuthAssumption ==
  /\ None \notin Email /\ None \notin Digits
  /\ MaxAttempts \in Nat \ {0}
  /\ CodeTTL \in Nat /\ SessionTTL \in Nat /\ SweepGrace \in Nat
  /\ MaxTime \in Nat /\ MaxCode \in Nat /\ MaxUser \in Nat
  /\ MaxSession \in Nat /\ MaxFaults \in Nat

VARIABLES
  now,       \* the wall clock, in units of the TTLs
  codes,     \* _mar_auth_codes
  users,     \* the application's user table (Auth.config entity)
  sessions,  \* _mar_auth_sessions
  serial,    \* AUTOINCREMENT: the last id handed out by each table
  proc,      \* what each request slot is doing
  sweep,     \* the sweeper goroutine; "off" in a process that never started one
  faults,    \* crashes and failed statements so far
  compared   \* observer: wrong guesses compared with each code

vars == <<now, codes, users, sessions, serial, proc, sweep, faults, compared>>
tables == <<codes, users, sessions, serial>>

CodeId == 1 .. MaxCode
UserId == 1 .. MaxUser
SessionId == 1 .. MaxSession
RowStatus == {"none", "row", "deleted"}

CodeRow == [status: RowStatus, email: Email \cup {None}, digits: Digits \cup {None},
            attempts: Nat, expires: Nat, locked: BOOLEAN]
UserRow == [status: RowStatus, email: Email \cup {None}]
SessionRow == [status: RowStatus, user: UserId \cup {0}, expires: Nat, used: Nat,
               code: CodeId \cup {0},  \* observer: the code that was consumed
               out: BOOLEAN]           \* observer: a logout has deleted the row

Pc == {"idle",
       "rc_lookup", "rc_signup", "rc_readback", "rc_store", "rc_send",
       "v_select", "v_attempt", "v_lock", "v_consume", "v_user", "v_mint", "v_load",
       "s_select", "s_touch", "s_load"}
Response == {"none", "ok", "error"}  \* which error it is, only the client learns
Proc == [pc: Pc, email: Email \cup {None}, digits: Digits \cup {None}, at: Nat,
         code: CodeId \cup {0}, user: UserId \cup {0}, tok: SessionId \cup {0},
         resp: Response]

Idle(resp) == [pc |-> "idle", email |-> None, digits |-> None, at |-> 0,
               code |-> 0, user |-> 0, tok |-> 0, resp |-> resp]

\* The first process finds empty tables.  Its sweeper has swept them, or, when faults are
\* allowed, there is none: dbHandle failed when the routes were mounted.
Init ==
  /\ now = 0
  /\ codes = [c \in CodeId |-> [status |-> "none", email |-> None, digits |-> None,
                                attempts |-> 0, expires |-> 0, locked |-> FALSE]]
  /\ users = [u \in UserId |-> [status |-> "none", email |-> None]]
  /\ sessions = [s \in SessionId |-> [status |-> "none", user |-> 0, expires |-> 0,
                                      used |-> 0, code |-> 0, out |-> FALSE]]
  /\ serial = [code |-> 0, user |-> 0, session |-> 0]
  /\ proc = [r \in Request |-> Idle("none")]
  /\ \/ sweep = [pc |-> "wait", at |-> 0]
     \/ MaxFaults > 0 /\ sweep = [pc |-> "off", at |-> 0]
  /\ faults = 0
  /\ compared = [c \in CodeId |-> 0]

-----------------------------------------------------------------------------
(* Helpers: the SELECTs and the replies.                                   *)

At(r, step) == proc[r].pc = step
Reply(r, resp) == proc' = [proc EXCEPT ![r] = Idle(resp)]
Goto(r, step) == proc' = [proc EXCEPT ![r].pc = step]

UsersOf(e) == {u \in UserId : users[u].status = "row" /\ users[u].email = e}

\* Mutant: the SELECT forgets "locked_at IS NULL".
Usable_IgnoresLock(e, t) == {c \in CodeId : /\ codes[c].status = "row"
                                            /\ codes[c].email = e
                                            /\ codes[c].expires >= t}

\* Codes verify-code will look at: unlocked, and unexpired at time t.
Usable(e, t) == {c \in CodeId : /\ codes[c].status = "row"
                                /\ codes[c].email = e
                                /\ ~codes[c].locked
                                /\ codes[c].expires >= t}

\* ORDER BY id DESC LIMIT 1
Newest(c, e, t) == c \in Usable(e, t) /\ \A d \in Usable(e, t) : d <= c

\* A token reaches its client with the response that mints it.  (A crash just before
\* that response is not told from one just after it: clients may do more, not less.)
Delivered(s) == /\ sessions[s].status # "none"
                /\ \A r \in Request : ~(At(r, "v_load") /\ proc[r].tok = s)

-----------------------------------------------------------------------------
(* POST /_auth/request-code                                                *)

\* Bound: a request for a code starts only when the row ids it may need are left.
InFlight == Cardinality({q \in Request : proc[q].pc \in
                           {"rc_lookup", "rc_signup", "rc_readback", "rc_store"}})
RowsLeft == serial.code + InFlight < MaxCode /\ serial.user + InFlight < MaxUser

\* The request passes the per-email and per-IP limiters.
RequestCodeBegin(r, e) ==
  /\ At(r, "idle")
  /\ RowsLeft
  /\ proc' = [proc EXCEPT ![r] = [Idle("none") EXCEPT !.pc = "rc_lookup", !.email = e]]
  /\ UNCHANGED <<now, tables, sweep, faults, compared>>

\* A limiter refuses: 429 before any table is touched.
RequestCodeRefused(r) ==
  /\ At(r, "idle")
  /\ Reply(r, "error")
  /\ UNCHANGED <<now, tables, sweep, faults, compared>>

\* EnsureUser: LookupUserID.
LookupUser(r) ==
  /\ At(r, "rc_lookup")
  /\ Goto(r, IF UsersOf(proc[r].email) = {} THEN "rc_signup" ELSE "rc_store")
  /\ UNCHANGED <<now, tables, sweep, faults, compared>>

\* Mutant: PRIMARY KEY without AUTOINCREMENT hands out the id of a deleted user.
SignupInsert_ReusesIds(r) ==
  /\ At(r, "rc_signup")
  /\ UsersOf(proc[r].email) = {}
  /\ \E u \in UserId :
       /\ users[u].status # "row" /\ \A w \in UserId : users[w].status # "row" => u <= w
       /\ users' = [users EXCEPT ![u] = [status |-> "row", email |-> proc[r].email]]
       /\ proc' = [proc EXCEPT ![r] = [@ EXCEPT !.pc = "rc_readback", !.user = u]]
  /\ UNCHANGED <<now, codes, sessions, serial, sweep, faults, compared>>

\* EnsureUser: the signup hook's record is inserted.  The UNIQUE index on the
\* identity column makes the statement fail when the address exists by now.
SignupInsert(r) ==
  /\ At(r, "rc_signup")
  /\ serial.user < MaxUser
  /\ UsersOf(proc[r].email) = {}
  /\ LET u == serial.user + 1 IN
       /\ users' = [users EXCEPT ![u] = [status |-> "row", email |-> proc[r].email]]
       /\ serial' = [serial EXCEPT !.user = u]
       /\ proc' = [proc EXCEPT ![r] = [@ EXCEPT !.pc = "rc_readback", !.user = u]]
  /\ UNCHANGED <<now, codes, sessions, sweep, faults, compared>>

SignupConflict(r) ==
  /\ At(r, "rc_signup")
  /\ UsersOf(proc[r].email) # {}
  /\ Reply(r, "error")
  /\ UNCHANGED <<now, tables, sweep, faults, compared>>

\* Repo.create reads the inserted row back and fails when it is gone.
SignupReadback(r) ==
  /\ At(r, "rc_readback")
  /\ IF users[proc[r].user].status = "row"
       THEN Goto(r, "rc_store")
       ELSE Reply(r, "error")
  /\ UNCHANGED <<now, tables, sweep, faults, compared>>

\* The code is generated and its hash stored.  Earlier codes stay as they are.
StoreCode(r, d) ==
  /\ At(r, "rc_store")
  /\ serial.code < MaxCode
  /\ LET c == serial.code + 1 IN
       /\ codes' = [codes EXCEPT ![c] =
            [status |-> "row", email |-> proc[r].email, digits |-> d,
             attempts |-> 0, expires |-> now + CodeTTL, locked |-> FALSE]]
       /\ serial' = [serial EXCEPT !.code = c]
  /\ Goto(r, "rc_send")
  /\ UNCHANGED <<now, users, sessions, sweep, faults, compared>>

\* The mail goes out, or the provider refuses it; the row stays either way.
SendMail(r) ==
  /\ At(r, "rc_send")
  /\ \E resp \in {"ok", "error"} : Reply(r, resp)
  /\ UNCHANGED <<now, tables, sweep, faults, compared>>

-----------------------------------------------------------------------------
(* POST /_auth/verify-code                                                 *)

\* The body is read and time.Now() sampled, before the SELECT.
VerifyBegin(r, e, d) ==
  /\ At(r, "idle")
  /\ proc' = [proc EXCEPT ![r] = [Idle("none") EXCEPT !.pc = "v_select", !.email = e,
                                                      !.digits = d, !.at = now]]
  /\ UNCHANGED <<now, tables, sweep, faults, compared>>

\* The SELECT finds no row: 401.
VerifyNoCode(r) ==
  /\ At(r, "v_select")
  /\ Usable(proc[r].email, proc[r].at) = {}
  /\ Reply(r, "error")
  /\ UNCHANGED <<now, tables, sweep, faults, compared>>

\* The SELECT finds c; auth.Equal decides between the two branches.
VerifySelect(r, c) ==
  /\ At(r, "v_select")
  /\ Newest(c, proc[r].email, proc[r].at)
  /\ LET match == codes[c].digits = proc[r].digits IN
       /\ proc' = [proc EXCEPT ![r] =
            [@ EXCEPT !.pc = IF match THEN "v_consume" ELSE "v_attempt", !.code = c]]
       /\ compared' = IF match THEN compared ELSE [compared EXCEPT ![c] = @ + 1]
  /\ UNCHANGED <<now, tables, sweep, faults>>

\* UPDATE ... SET attempts = attempts + 1 ... RETURNING attempts.
VerifyAttempt(r) ==
  /\ At(r, "v_attempt")
  /\ LET c == proc[r].code IN
       \/ /\ codes[c].status = "row"
          /\ codes' = [codes EXCEPT ![c].attempts = @ + 1]
          /\ IF codes[c].attempts + 1 >= MaxAttempts
               THEN Goto(r, "v_lock")
               ELSE Reply(r, "error")
       \/ /\ codes[c].status # "row"
          /\ Reply(r, "error")
          /\ UNCHANGED codes
  /\ UNCHANGED <<now, users, sessions, serial, sweep, faults, compared>>

\* Mutant: the lock is retried until the UPDATE hits a row.
VerifyLock_Insists(r) ==
  /\ At(r, "v_lock")
  /\ codes[proc[r].code].status = "row"
  /\ codes' = [codes EXCEPT ![proc[r].code].locked = TRUE]
  /\ Reply(r, "error")
  /\ UNCHANGED <<now, users, sessions, serial, sweep, faults, compared>>

\* UPDATE ... SET locked_at; it matches nothing when the row is gone.
VerifyLock(r) ==
  /\ At(r, "v_lock")
  /\ codes' = IF codes[proc[r].code].status = "row"
                THEN [codes EXCEPT ![proc[r].code].locked = TRUE] ELSE codes
  /\ Reply(r, "error")
  /\ UNCHANGED <<now, users, sessions, serial, sweep, faults, compared>>

\* Mutant: RowsAffected is not looked at.
VerifyConsume_Unchecked(r) ==
  /\ At(r, "v_consume")
  /\ codes' = [codes EXCEPT ![proc[r].code].status = "deleted"]
  /\ Goto(r, "v_user")
  /\ UNCHANGED <<now, users, sessions, serial, sweep, faults, compared>>

\* DELETE ... WHERE id; RowsAffected = 0 means another request consumed the code.
VerifyConsume(r) ==
  /\ At(r, "v_consume")
  /\ LET c == proc[r].code IN
       \/ /\ codes[c].status = "row"
          /\ codes' = [codes EXCEPT ![c].status = "deleted"]
          /\ Goto(r, "v_user")
       \/ /\ codes[c].status # "row"
          /\ Reply(r, "error")
          /\ UNCHANGED codes
  /\ UNCHANGED <<now, users, sessions, serial, sweep, faults, compared>>

\* Mutant: a failed lookup puts the consumed code back.
VerifyUser_PutsBack(r) ==
  /\ At(r, "v_user")
  /\ \/ /\ \E u \in UsersOf(proc[r].email) :
               proc' = [proc EXCEPT ![r] = [@ EXCEPT !.pc = "v_mint", !.user = u]]
          /\ UNCHANGED codes
     \/ /\ UsersOf(proc[r].email) = {}
        /\ codes' = [codes EXCEPT ![proc[r].code].status = "row"]
        /\ Reply(r, "error")
  /\ UNCHANGED <<now, users, sessions, serial, sweep, faults, compared>>

\* LookupUserID; without a row the consumed code is lost.
VerifyUser(r) ==
  /\ At(r, "v_user")
  /\ \/ \E u \in UsersOf(proc[r].email) :
          proc' = [proc EXCEPT ![r] = [@ EXCEPT !.pc = "v_mint", !.user = u]]
     \/ UsersOf(proc[r].email) = {} /\ Reply(r, "error")
  /\ UNCHANGED <<now, tables, sweep, faults, compared>>

\* The session row is inserted, its expiry counted from a second time.Now().
VerifyMint(r) ==
  /\ At(r, "v_mint")
  /\ serial.session < MaxSession
  /\ LET s == serial.session + 1 IN
       /\ sessions' = [sessions EXCEPT ![s] =
            [status |-> "row", user |-> proc[r].user, expires |-> now + SessionTTL,
             used |-> proc[r].at, code |-> proc[r].code, out |-> FALSE]]
       /\ serial' = [serial EXCEPT !.session = s]
       /\ proc' = [proc EXCEPT ![r] = [@ EXCEPT !.pc = "v_load", !.tok = s]]
  /\ UNCHANGED <<now, codes, users, sweep, faults, compared>>

\* LoadUserJSON; the cookie and the token header are already on the response.
VerifyLoad(r) ==
  /\ At(r, "v_load")
  /\ Reply(r, IF users[proc[r].user].status = "row" THEN "ok" ELSE "error")
  /\ UNCHANGED <<now, tables, sweep, faults, compared>>

-----------------------------------------------------------------------------
(* POST /_auth/logout, and the session check                               *)

\* One DELETE by token hash, whether or not the row is still there.
Logout(r, s) ==
  /\ At(r, "idle")
  /\ Delivered(s)
  /\ sessions' = [sessions EXCEPT ![s] = [@ EXCEPT !.status = "deleted", !.out = TRUE]]
  /\ Reply(r, "ok")
  /\ UNCHANGED <<now, codes, users, serial, sweep, faults, compared>>

\* whoami, or a protected service: sessionUserID samples the clock.
SessionBegin(r, s) ==
  /\ At(r, "idle")
  /\ Delivered(s)
  /\ proc' = [proc EXCEPT ![r] = [Idle("none") EXCEPT !.pc = "s_select", !.tok = s,
                                                      !.at = now]]
  /\ UNCHANGED <<now, tables, sweep, faults, compared>>

\* SELECT user_id ... WHERE token_hash = ? AND expires_at >= ?
LiveSession(t, time) == {s \in SessionId : /\ s = t
                                           /\ sessions[s].status = "row"
                                           /\ sessions[s].expires >= time}

SessionSelect(r) ==
  /\ At(r, "s_select")
  /\ LET found == LiveSession(proc[r].tok, proc[r].at) IN
       \/ \E s \in found : proc' = [proc EXCEPT ![r] =
                              [@ EXCEPT !.pc = "s_touch", !.user = sessions[s].user]]
       \/ found = {} /\ Reply(r, "error")
  /\ UNCHANGED <<now, tables, sweep, faults, compared>>

\* Mutant: INSERT OR REPLACE instead of UPDATE brings a deleted row back.
SessionTouch_Upsert(r) ==
  /\ At(r, "s_touch")
  /\ sessions' = [sessions EXCEPT ![proc[r].tok] =
                    [@ EXCEPT !.used = proc[r].at, !.status = "row"]]
  /\ Goto(r, "s_load")
  /\ UNCHANGED <<now, codes, users, serial, sweep, faults, compared>>

\* UPDATE ... SET last_used_at; it matches nothing when the row is gone.
SessionTouch(r) ==
  /\ At(r, "s_touch")
  /\ sessions' = IF sessions[proc[r].tok].status = "row"
                   THEN [sessions EXCEPT ![proc[r].tok].used = proc[r].at] ELSE sessions
  /\ Goto(r, "s_load")
  /\ UNCHANGED <<now, codes, users, serial, sweep, faults, compared>>

\* loadUserValue: Repo.findById on the user table.
SessionLoad(r) ==
  /\ At(r, "s_load")
  /\ Reply(r, IF users[proc[r].user].status = "row" THEN "ok" ELSE "error")
  /\ UNCHANGED <<now, tables, sweep, faults, compared>>

-----------------------------------------------------------------------------
(* The sweeper, the application, the clock and the process                 *)

\* A tick of the sweeper's ticker, some time after the last.
SweepTick ==
  /\ sweep.pc = "wait" /\ sweep.at < now
  /\ sweep' = [pc |-> "codes", at |-> now]
  /\ UNCHANGED <<now, tables, proc, faults, compared>>

\* Mutant: the grace is added to the cutoff instead of subtracted.
SweepCodes_WrongSign ==
  /\ sweep.pc = "codes"
  /\ codes' = [c \in CodeId |->
       IF codes[c].status = "row" /\ codes[c].expires < sweep.at + SweepGrace
         THEN [codes[c] EXCEPT !.status = "deleted"] ELSE codes[c]]
  /\ sweep' = [sweep EXCEPT !.pc = "sessions"]
  /\ UNCHANGED <<now, users, sessions, serial, proc, faults, compared>>

SweepCodes ==
  /\ sweep.pc = "codes"
  /\ codes' = [c \in CodeId |->
       IF codes[c].status = "row" /\ codes[c].expires + SweepGrace < sweep.at
         THEN [codes[c] EXCEPT !.status = "deleted"] ELSE codes[c]]
  /\ sweep' = [sweep EXCEPT !.pc = "sessions"]
  /\ UNCHANGED <<now, users, sessions, serial, proc, faults, compared>>

\* Mutant: sessions are reclaimed only when they were never used after sign-in.
SweepSessions_UnusedOnly ==
  /\ sweep.pc = "sessions"
  /\ sessions' = [s \in SessionId |->
       IF /\ sessions[s].status = "row" /\ sessions[s].expires < sweep.at
          /\ sessions[s].used + SessionTTL < sessions[s].expires + 1
         THEN [sessions[s] EXCEPT !.status = "deleted"] ELSE sessions[s]]
  /\ sweep' = [sweep EXCEPT !.pc = "wait"]
  /\ UNCHANGED <<now, codes, users, serial, proc, faults, compared>>

SweepSessions ==
  /\ sweep.pc = "sessions"
  /\ sessions' = [s \in SessionId |->
       IF sessions[s].status = "row" /\ sessions[s].expires < sweep.at
         THEN [sessions[s] EXCEPT !.status = "deleted"] ELSE sessions[s]]
  /\ sweep' = [sweep EXCEPT !.pc = "wait"]
  /\ UNCHANGED <<now, codes, users, serial, proc, faults, compared>>

\* A statement of the sweep fails: logged, and the rest waits for the next tick.
SweepFails ==
  /\ sweep.pc \in {"codes", "sessions"}
  /\ sweep' = [pc |-> "wait", at |-> 0]
  /\ UNCHANGED <<now, tables, proc, faults, compared>>

\* The application's own services may delete a user row (Repo.delete).
DeleteUser(u) ==
  /\ users[u].status = "row"
  /\ users' = [users EXCEPT ![u].status = "deleted"]
  /\ UNCHANGED <<now, codes, sessions, serial, proc, sweep, faults, compared>>

Tick ==
  /\ now < MaxTime
  /\ now' = now + 1
  /\ UNCHANGED <<tables, proc, sweep, faults, compared>>

\* The process dies and boots again: the tables survive, requests do not, and the
\* new process's sweeper starts with a sweep, unless dbHandle fails: sweeperOnce is
\* spent all the same, and the process serves requests without a sweeper.
Restart ==
  /\ faults < MaxFaults
  /\ faults' = faults + 1
  /\ proc' = [r \in Request |-> Idle("none")]
  /\ sweep' \in {[pc |-> "codes", at |-> now], [pc |-> "off", at |-> 0]}
  /\ UNCHANGED <<now, tables, compared>>

\* The statements whose error ends the request.
Fallible == {"rc_signup", "rc_readback", "rc_store", "v_select", "v_attempt", "v_lock",
             "v_consume", "v_user", "v_mint", "v_load", "s_select", "s_load"}

\* A statement fails.  EnsureUser takes any error of the lookup for "no such user",
\* and the error of the last_used_at update is discarded.
StatementFails(r) ==
  /\ faults < MaxFaults
  /\ faults' = faults + 1
  /\ \/ At(r, "rc_lookup") /\ Goto(r, "rc_signup")
     \/ At(r, "s_touch") /\ Goto(r, "s_load")
     \/ proc[r].pc \in Fallible /\ Reply(r, "error")
  /\ UNCHANGED <<now, tables, sweep, compared>>

\* The error of logout's DELETE is discarded too.
LogoutFails(r, s) ==
  /\ At(r, "idle")
  /\ Delivered(s)
  /\ faults < MaxFaults
  /\ faults' = faults + 1
  /\ Reply(r, "ok")
  /\ UNCHANGED <<now, tables, sweep, compared>>

RequestCode(r) ==
  \/ \E e \in Email : RequestCodeBegin(r, e)
  \/ RequestCodeRefused(r)
  \/ LookupUser(r) \/ SignupInsert(r) \/ SignupConflict(r) \/ SignupReadback(r)
  \/ \E d \in Digits : StoreCode(r, d)
  \/ SendMail(r)

VerifyCode(r) ==
  \/ \E e \in Email, d \in Digits : VerifyBegin(r, e, d)
  \/ VerifyNoCode(r)
  \/ \E c \in CodeId : VerifySelect(r, c)
  \/ VerifyAttempt(r) \/ VerifyLock(r) \/ VerifyConsume(r)
  \/ VerifyUser(r) \/ VerifyMint(r) \/ VerifyLoad(r)

UseSession(r) ==
  \/ \E s \in SessionId : Logout(r, s) \/ SessionBegin(r, s)
  \/ SessionSelect(r) \/ SessionTouch(r) \/ SessionLoad(r)

Sweeper == SweepTick \/ SweepCodes \/ SweepSessions \/ SweepFails

Next ==
  \/ \E r \in Request : RequestCode(r) \/ VerifyCode(r) \/ UseSession(r)
  \/ Sweeper
  \/ \E u \in UserId : DeleteUser(u)
  \/ Tick
  \/ Restart
  \/ \E r \in Request : \/ StatementFails(r)
                        \/ \E s \in SessionId : LogoutFails(r, s)

Spec == Init /\ [][Next]_vars

\* A request that has begun keeps being scheduled.
Continue(r) == ~At(r, "idle") /\ (RequestCode(r) \/ VerifyCode(r) \/ UseSession(r))

\* A sweeper that was started keeps ticking, and its statements do not fail for ever.
Fairness ==
  /\ \A r \in Request : WF_vars(Continue(r))
  /\ WF_vars(Tick)
  /\ WF_vars(SweepTick) /\ SF_vars(SweepCodes) /\ SF_vars(SweepSessions)

FairSpec == Spec /\ Fairness

-----------------------------------------------------------------------------
(* Properties                                                              *)

\* Every variable keeps the shape the tables and the handlers give it.
TypeOK ==
  /\ now \in Nat
  /\ codes \in [CodeId -> CodeRow]
  /\ users \in [UserId -> UserRow]
  /\ sessions \in [SessionId -> SessionRow]
  /\ serial \in [code : 0 .. MaxCode, user : 0 .. MaxUser, session : 0 .. MaxSession]
  /\ proc \in [Request -> Proc]
  /\ sweep \in [pc : {"wait", "codes", "sessions", "off"}, at : Nat]
  /\ faults \in Nat
  /\ compared \in [CodeId -> Nat]

Redeems(r) == At(r, "v_user") \/ At(r, "v_mint")

\* "One code can never mint two sessions" (auth.go:487-490), however many
\* requests present the same code at the same time, and whatever fails.
OneSessionPerCode ==
  \A s, t \in SessionId :
    /\ sessions[s].status # "none" /\ sessions[t].status # "none"
    /\ sessions[s].code = sessions[t].code
    => s = t

\* The user a session signs in is one whose address received the code, even when
\* users are deleted and signed up again between the steps of verify-code.
SessionNamesItsOwner ==
  \A s \in SessionId : sessions[s].status # "none" =>
    users[sessions[s].user].email = codes[sessions[s].code].email

\* Concurrent first sign-ups of one address leave one user row (EnsureUser looks
\* up and inserts in two statements).
UniqueUserPerEmail ==
  \A u, v \in UserId :
    /\ users[u].status = "row" /\ users[v].status = "row"
    /\ users[u].email = users[v].email
    => u = v

\* Ids above the last one handed out have no row.
FreshIds ==
  /\ \A c \in CodeId : c > serial.code => codes[c].status = "none"
  /\ \A u \in UserId : u > serial.user => users[u].status = "none"
  /\ \A s \in SessionId : s > serial.session => sessions[s].status = "none"

\* A verify-code past its SELECT works on a row of its own address.
VerifyOnOwnRow ==
  \A r \in Request :
    /\ proc[r].pc \in {"v_attempt", "v_lock", "v_consume", "v_user", "v_mint"} =>
         /\ proc[r].code \in CodeId
         /\ codes[proc[r].code].status # "none"
         /\ codes[proc[r].code].email = proc[r].email
    /\ At(r, "v_mint") =>
         /\ proc[r].user \in UserId
         /\ users[proc[r].user].status # "none"
         /\ users[proc[r].user].email = proc[r].email

\* A request that has consumed a code is the only one to hold it, and no session
\* has come of it.
RedeemerIsAlone ==
  \A r \in Request : Redeems(r) =>
    /\ codes[proc[r].code].status = "deleted"
    /\ \A q \in Request : Redeems(q) /\ proc[q].code = proc[r].code => q = r
    /\ \A s \in SessionId :
         sessions[s].status # "none" => sessions[s].code # proc[r].code

\* A session was bought with a consumed code, by the user of its address.
SessionWasBought ==
  \A s \in SessionId : sessions[s].status # "none" =>
    /\ sessions[s].code \in CodeId
    /\ codes[sessions[s].code].status = "deleted"
    /\ sessions[s].user \in UserId
    /\ users[sessions[s].user].status # "none"
    /\ users[sessions[s].user].email = codes[sessions[s].code].email

\* Consuming a code hands it from the table to one request and from there to one
\* session: the invariant behind OneSessionPerCode and SessionNamesItsOwner.
SignInInvariant ==
  /\ TypeOK
  /\ FreshIds
  /\ VerifyOnOwnRow
  /\ RedeemerIsAlone
  /\ SessionWasBought
  /\ OneSessionPerCode

Attempting(c) == {r \in Request : At(r, "v_attempt") /\ proc[r].code = c}

\* The counter of wrong guesses misses none that was compared, except those whose request
\* is still before its UPDATE and those a fault took with it; so requests that race past
\* the limit are bounded by their number: a code never meets more than MaxAttempts - 1
\* guesses plus one per request in flight, and as many again for each fault.
GuessesBounded ==
  \A c \in CodeId :
    /\ codes[c].status = "row" => compared[c] <= codes[c].attempts + Cardinality(Attempting(c))
                                                 + Cardinality(Request) * faults
    /\ compared[c] <= MaxAttempts - 1 + Cardinality(Request) * (faults + 1)

\* A session that was logged out is gone and stays gone, whatever session check
\* was in flight at the time (its last_used_at UPDATE comes after its SELECT).
LogoutEndsSession ==
  \A s \in SessionId : sessions[s].out => sessions[s].status = "deleted"

\* A sweep removes only what no request can be served with any more.
SweepSparesLive ==
  [][sweep' # sweep =>
       /\ \A s \in SessionId :
            sessions'[s].status # sessions[s].status => sessions[s].expires < now
       /\ \A c \in CodeId :
            codes'[c].status # codes[c].status => codes[c].expires < now]_vars

\* Every request is answered.
RequestsAnswered == \A r \in Request : (~At(r, "idle")) ~> At(r, "idle")

\* An expired session row does not stay in the table of a process that has a sweeper:
\* sweeps that fail and crashes between its statements only put it off.  A process whose
\* startAuthSweeper failed reclaims nothing; the next process that starts one does.
ExpiredReclaimed ==
  \A s \in SessionId :
    (sessions[s].status = "row" /\ sessions[s].expires < now)
      ~> (sessions[s].status = "deleted" \/ sweep.pc = "off")

\* The requests that have consumed code c and not yet minted its session.
Redeeming(c) == {r \in Request : Redeems(r) /\ proc[r].code = c}
BoughtBy(c) == {s \in SessionId : sessions[s].status # "none" /\ sessions[s].code = c}

StageOf(c) ==
  CASE codes[c].status = "none" -> "none"
    [] codes[c].status = "row" -> "issued"
    [] OTHER -> IF BoughtBy(c) # {} THEN "signed_in"
                ELSE IF Redeeming(c) # {} THEN "redeeming" ELSE "void"

HolderOf(c) ==
  IF BoughtBy(c) = {} THEN None
  ELSE users[sessions[CHOOSE s \in BoughtBy(c) : TRUE].user].email

Abstract == INSTANCE OneTimeCode WITH
  Code <- CodeId, Address <- Email, NoAddress <- None,
  stage <- [c \in CodeId |-> StageOf(c)],
  sentTo <- [c \in CodeId |-> codes[c].email],
  holder <- [c \in CodeId |-> HolderOf(c)]

\* The handlers, the sweeper and the tables implement a one-time code.
ImplementsOneTimeCode == Abstract!Spec

\* For the runs: requests, addresses and digit strings are interchangeable.
Symmetry == Permutations(Request) \cup Permutations(Email) \cup Permutations(Digits)
=============================================================================
