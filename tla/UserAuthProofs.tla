--------------------------- MODULE UserAuthProofs ---------------------------
(***************************************************************************)
(* Theorems about UserAuth, for every value of its constants.              *)
(***************************************************************************)
EXTENDS UserAuth, FiniteSetTheorems, TLAPS

\* The shape of the variables is kept by every step.
LEMMA TypeInit == Init => TypeOK
  BY UserAuthAssumption DEF Init, TypeOK, Idle, Proc, Pc, Response, CodeRow, UserRow,
     SessionRow, RowStatus, CodeId, UserId, SessionId

\* What TypeOK says of each variable, for the steps that need no more.
LEMMA Shapes ==
  TypeOK => /\ codes \in [CodeId -> CodeRow]
            /\ users \in [UserId -> UserRow]
            /\ sessions \in [SessionId -> SessionRow]
            /\ proc \in [Request -> Proc]
            /\ compared \in [CodeId -> Nat]
            /\ now \in Nat /\ faults \in Nat
  BY DEF TypeOK

LEMMA SerialShape ==
  TypeOK => serial \in [code : 0 .. MaxCode, user : 0 .. MaxUser, session : 0 .. MaxSession]
  BY DEF TypeOK

\* The updates of one request slot.
LEMMA ProcFields ==
  ASSUME NEW p \in Proc, NEW step \in Pc
  PROVE  /\ [p EXCEPT !.pc = step] \in Proc
         /\ \A c \in CodeId \cup {0} : [p EXCEPT !.pc = step, !.code = c] \in Proc
         /\ \A u \in UserId \cup {0} : [p EXCEPT !.pc = step, !.user = u] \in Proc
         /\ \A s \in SessionId \cup {0} : [p EXCEPT !.pc = step, !.tok = s] \in Proc
  BY DEF Proc

LEMMA LocalTypes ==
  ASSUME NEW r \in Request, TypeOK
  PROVE  /\ proc[r].email \in Email \cup {None} /\ proc[r].at \in Nat
         /\ proc[r].code \in CodeId \cup {0} /\ proc[r].user \in UserId \cup {0}
         /\ proc[r].tok \in SessionId \cup {0} /\ proc[r].pc \in Pc
<1>1. proc[r] \in Proc
  BY Shapes
<1> QED BY <1>1 DEF Proc

\* The updates of one table row.
LEMMA CodeFields ==
  ASSUME NEW row \in CodeRow
  PROVE  /\ [row EXCEPT !.status = "deleted"] \in CodeRow
         /\ [row EXCEPT !.locked = TRUE] \in CodeRow
         /\ [row EXCEPT !.attempts = @ + 1] \in CodeRow
<1>1. [row EXCEPT !.status = "deleted"] \in CodeRow
  BY DEF CodeRow, RowStatus
<1>2. [row EXCEPT !.locked = TRUE] \in CodeRow
  BY DEF CodeRow
<1>3. row.attempts + 1 \in Nat
  BY DEF CodeRow
<1>4. [row EXCEPT !.attempts = @ + 1] \in CodeRow
  BY <1>3 DEF CodeRow
<1> QED BY <1>1, <1>2, <1>4

\* The same updates as made in the table; an id that names no row changes nothing.
LEMMA CodeUpdates ==
  ASSUME NEW table \in [CodeId -> CodeRow], NEW c
  PROVE  /\ [table EXCEPT ![c].status = "deleted"] \in [CodeId -> CodeRow]
         /\ [table EXCEPT ![c].locked = TRUE] \in [CodeId -> CodeRow]
         /\ [table EXCEPT ![c].attempts = @ + 1] \in [CodeId -> CodeRow]
<1>1. CASE c \in CodeId
  <2>1. table[c] \in CodeRow
    BY <1>1
  <2>2. /\ [table[c] EXCEPT !.status = "deleted"] \in CodeRow
        /\ [table[c] EXCEPT !.locked = TRUE] \in CodeRow
        /\ [table[c] EXCEPT !.attempts = @ + 1] \in CodeRow
    BY <2>1, CodeFields
  <2>3. [table EXCEPT ![c].status = "deleted"] \in [CodeId -> CodeRow]
    BY <2>2
  <2>4. [table EXCEPT ![c].locked = TRUE] \in [CodeId -> CodeRow]
    BY <2>2
  <2>5. [table EXCEPT ![c].attempts = @ + 1] \in [CodeId -> CodeRow]
    BY <2>2
  <2> QED BY <2>3, <2>4, <2>5
<1>2. CASE c \notin CodeId
  BY <1>2
<1> QED BY <1>1, <1>2

LEMMA SessionFields ==
  ASSUME NEW row \in SessionRow
  PROVE  /\ [row EXCEPT !.status = "deleted"] \in SessionRow
         /\ [row EXCEPT !.out = TRUE] \in SessionRow
         /\ [row EXCEPT !.status = "deleted", !.out = TRUE] \in SessionRow
         /\ \A t \in Nat : [row EXCEPT !.used = t] \in SessionRow
         /\ row.user \in UserId \cup {0}
  BY DEF SessionRow, RowStatus

\* Replies and jumps leave every request slot well formed.
LEMMA ReplyType ==
  ASSUME NEW r \in Request, NEW resp \in Response, TypeOK, Reply(r, resp)
  PROVE  proc' \in [Request -> Proc]
<1>1. Idle(resp) \in Proc
  BY DEF Idle, Proc, Pc
<1> QED BY <1>1, Shapes DEF Reply

LEMMA GotoType ==
  ASSUME NEW r \in Request, NEW step \in Pc, TypeOK, Goto(r, step)
  PROVE  proc' \in [Request -> Proc]
  BY Shapes, ProcFields DEF Goto

LEMMA TypeStep == TypeOK /\ [Next]_vars => TypeOK'
<1> SUFFICES ASSUME TypeOK, [Next]_vars PROVE TypeOK'
  OBVIOUS
<1> USE UserAuthAssumption
<1>rc. ASSUME NEW r \in Request, RequestCode(r) PROVE TypeOK'
  <2>1. ASSUME NEW e \in Email, RequestCodeBegin(r, e) PROVE TypeOK'
    <3>1. [Idle("none") EXCEPT !.pc = "rc_lookup", !.email = e] \in Proc
      BY DEF Idle, Proc, Pc, Response
    <3>2. proc' \in [Request -> Proc]
      BY <2>1, <3>1, Shapes DEF RequestCodeBegin
    <3> QED BY <2>1, <3>2 DEF TypeOK, RequestCodeBegin, tables
  <2>2. CASE RequestCodeRefused(r)
    BY <2>2, ReplyType DEF TypeOK, RequestCodeRefused, tables, Response
  <2>3. CASE LookupUser(r)
    BY <2>3, GotoType DEF TypeOK, LookupUser, tables, Pc
  <2>4. CASE SignupInsert(r)
    <3> DEFINE u == serial.user + 1
    <3>1. u \in UserId /\ serial' = [serial EXCEPT !.user = u]
      BY <2>4, SerialShape DEF SignupInsert, UserId
    <3>2. serial' \in [code : 0 .. MaxCode, user : 0 .. MaxUser, session : 0 .. MaxSession]
      BY <3>1, SerialShape DEF UserId
    <3>3. [status |-> "row", email |-> proc[r].email] \in UserRow
      BY LocalTypes DEF UserRow, RowStatus
    <3>4. users' \in [UserId -> UserRow]
      BY <2>4, <3>1, <3>3, Shapes DEF SignupInsert
    <3>5. [proc[r] EXCEPT !.pc = "rc_readback", !.user = u] \in Proc
      BY <3>1, Shapes, ProcFields DEF Pc
    <3>6. proc' \in [Request -> Proc]
      BY <2>4, <3>5, Shapes DEF SignupInsert
    <3> QED BY <2>4, <3>2, <3>4, <3>6 DEF TypeOK, SignupInsert
  <2>5. CASE SignupConflict(r)
    BY <2>5, ReplyType DEF TypeOK, SignupConflict, tables, Response
  <2>6. CASE SignupReadback(r)
    BY <2>6, ReplyType, GotoType DEF TypeOK, SignupReadback, tables, Response, Pc
  <2>7. ASSUME NEW d \in Digits, StoreCode(r, d) PROVE TypeOK'
    <3> DEFINE c == serial.code + 1
               row == [status |-> "row", email |-> proc[r].email, digits |-> d,
                       attempts |-> 0, expires |-> now + CodeTTL, locked |-> FALSE]
    <3>1. c \in CodeId /\ serial' = [serial EXCEPT !.code = c]
      BY <2>7, SerialShape DEF StoreCode, CodeId
    <3>2. serial' \in [code : 0 .. MaxCode, user : 0 .. MaxUser, session : 0 .. MaxSession]
      BY <3>1, SerialShape DEF CodeId
    <3>3. proc[r].email \in Email \cup {None} /\ now + CodeTTL \in Nat
      BY Shapes, LocalTypes DEF UserAuthAssumption
    <3>4. row \in CodeRow
      BY <3>3 DEF CodeRow, RowStatus
    <3>5. codes' \in [CodeId -> CodeRow]
      BY <2>7, <3>1, <3>4, Shapes DEF StoreCode
    <3>6. proc' \in [Request -> Proc]
      BY <2>7, GotoType DEF StoreCode, Pc
    <3> QED BY <2>7, <3>2, <3>5, <3>6 DEF TypeOK, StoreCode
  <2>8. CASE SendMail(r)
    BY <2>8, ReplyType DEF TypeOK, SendMail, tables, Response
  <2> QED BY <1>rc, <2>1, <2>2, <2>3, <2>4, <2>5, <2>6, <2>7, <2>8 DEF RequestCode
<1>v. ASSUME NEW r \in Request, VerifyCode(r) PROVE TypeOK'
  <2>1. ASSUME NEW e \in Email, NEW d \in Digits, VerifyBegin(r, e, d) PROVE TypeOK'
    <3>1. now \in Nat /\ "v_select" \in Pc
      BY Shapes DEF Pc
    <3>2. [Idle("none") EXCEPT !.pc = "v_select", !.email = e, !.digits = d, !.at = now]
            \in Proc
      BY <3>1 DEF Idle, Proc, Response
    <3>3. proc' \in [Request -> Proc]
      BY <2>1, <3>2, Shapes DEF VerifyBegin
    <3> QED BY <2>1, <3>3 DEF TypeOK, VerifyBegin, tables
  <2>2. CASE VerifyNoCode(r)
    BY <2>2, ReplyType DEF TypeOK, VerifyNoCode, tables, Response
  <2>3. ASSUME NEW c \in CodeId, VerifySelect(r, c) PROVE TypeOK'
    <3> DEFINE step == IF codes[c].digits = proc[r].digits THEN "v_consume" ELSE "v_attempt"
    <3>1. [proc[r] EXCEPT !.pc = step, !.code = c] \in Proc
      BY Shapes, ProcFields DEF Pc
    <3>2. proc' \in [Request -> Proc]
      BY <2>3, <3>1, Shapes DEF VerifySelect
    <3>3. compared' \in [CodeId -> Nat]
      BY <2>3, Shapes DEF VerifySelect
    <3> QED BY <2>3, <3>2, <3>3 DEF TypeOK, VerifySelect, tables
  <2>4. CASE VerifyAttempt(r)
    <3>1. proc' \in [Request -> Proc]
      BY <2>4, ReplyType, GotoType DEF VerifyAttempt, Pc, Response
    <3>2. codes' \in [CodeId -> CodeRow]
      <4>1. \/ codes' = codes
            \/ codes' = [codes EXCEPT ![proc[r].code].attempts = @ + 1]
        BY <2>4 DEF VerifyAttempt
      <4>2. codes \in [CodeId -> CodeRow]
        BY Shapes
      <4>3. [codes EXCEPT ![proc[r].code].attempts = @ + 1] \in [CodeId -> CodeRow]
        BY <4>2, CodeUpdates
      <4> QED BY <4>1, <4>2, <4>3
    <3> QED BY <2>4, <3>1, <3>2 DEF TypeOK, VerifyAttempt
  <2>5. CASE VerifyLock(r)
    <3>1. proc' \in [Request -> Proc]
      BY <2>5, ReplyType DEF VerifyLock, Response
    <3>2. codes' \in [CodeId -> CodeRow]
      BY <2>5, Shapes, CodeUpdates DEF VerifyLock
    <3> QED BY <2>5, <3>1, <3>2 DEF TypeOK, VerifyLock
  <2>6. CASE VerifyConsume(r)
    <3>1. proc' \in [Request -> Proc]
      BY <2>6, ReplyType, GotoType DEF VerifyConsume, Pc, Response
    <3>2. codes' \in [CodeId -> CodeRow]
      <4>1. \/ codes' = codes
            \/ codes' = [codes EXCEPT ![proc[r].code].status = "deleted"]
        BY <2>6 DEF VerifyConsume
      <4>2. codes \in [CodeId -> CodeRow]
        BY Shapes
      <4>3. [codes EXCEPT ![proc[r].code].status = "deleted"] \in [CodeId -> CodeRow]
        BY <4>2, CodeUpdates
      <4> QED BY <4>1, <4>2, <4>3
    <3> QED BY <2>6, <3>1, <3>2 DEF TypeOK, VerifyConsume
  <2>7. CASE VerifyUser(r)
    <3>1. \A u \in UserId : [proc[r] EXCEPT !.pc = "v_mint", !.user = u] \in Proc
      BY Shapes, ProcFields DEF Pc
    <3>2. proc' \in [Request -> Proc]
      BY <2>7, <3>1, Shapes, ReplyType DEF VerifyUser, UsersOf, Response
    <3> QED BY <2>7, <3>2 DEF TypeOK, VerifyUser, tables
  <2>8. CASE VerifyMint(r)
    <3> DEFINE s == serial.session + 1
               row == [status |-> "row", user |-> proc[r].user,
                       expires |-> now + SessionTTL, used |-> proc[r].at,
                       code |-> proc[r].code, out |-> FALSE]
    <3>1. s \in SessionId /\ serial' = [serial EXCEPT !.session = s]
      BY <2>8, SerialShape DEF VerifyMint, SessionId
    <3>2. serial' \in [code : 0 .. MaxCode, user : 0 .. MaxUser, session : 0 .. MaxSession]
      BY <3>1, SerialShape DEF SessionId
    <3>3. /\ proc[r].user \in UserId \cup {0} /\ proc[r].code \in CodeId \cup {0}
          /\ proc[r].at \in Nat /\ now + SessionTTL \in Nat
      BY Shapes, LocalTypes DEF UserAuthAssumption
    <3>4. row \in SessionRow
      BY <3>3 DEF SessionRow, RowStatus
    <3>5. sessions' \in [SessionId -> SessionRow]
      BY <2>8, <3>1, <3>4, Shapes DEF VerifyMint
    <3>6. [proc[r] EXCEPT !.pc = "v_load", !.tok = s] \in Proc
      <4> HIDE DEF s
      <4> QED BY <3>1, Shapes, ProcFields DEF Pc
    <3>7. proc' \in [Request -> Proc]
      BY <2>8, <3>6, Shapes DEF VerifyMint
    <3> QED BY <2>8, <3>2, <3>5, <3>7 DEF TypeOK, VerifyMint
  <2>9. CASE VerifyLoad(r)
    BY <2>9, ReplyType DEF TypeOK, VerifyLoad, tables, Response
  <2> QED BY <1>v, <2>1, <2>2, <2>3, <2>4, <2>5, <2>6, <2>7, <2>8, <2>9 DEF VerifyCode
<1>s. ASSUME NEW r \in Request, UseSession(r) PROVE TypeOK'
  <2>1. ASSUME NEW s \in SessionId, Logout(r, s) PROVE TypeOK'
    <3>1. proc' \in [Request -> Proc]
      BY <2>1, ReplyType DEF Logout, Response
    <3>2. sessions' \in [SessionId -> SessionRow]
      BY <2>1, Shapes, SessionFields DEF Logout
    <3> QED BY <2>1, <3>1, <3>2 DEF TypeOK, Logout
  <2>2. ASSUME NEW s \in SessionId, SessionBegin(r, s) PROVE TypeOK'
    <3>1. now \in Nat /\ "s_select" \in Pc
      BY Shapes DEF Pc
    <3>2. [Idle("none") EXCEPT !.pc = "s_select", !.tok = s, !.at = now] \in Proc
      BY <3>1 DEF Idle, Proc, Response
    <3>3. proc' \in [Request -> Proc]
      BY <2>2, <3>2, Shapes DEF SessionBegin
    <3> QED BY <2>2, <3>3 DEF TypeOK, SessionBegin, tables
  <2>3. CASE SessionSelect(r)
    <3>1. \A s \in SessionId :
            [proc[r] EXCEPT !.pc = "s_touch", !.user = sessions[s].user] \in Proc
      BY Shapes, ProcFields, SessionFields DEF Pc
    <3>2. proc' \in [Request -> Proc]
      BY <2>3, <3>1, Shapes, ReplyType DEF SessionSelect, LiveSession, Response
    <3> QED BY <2>3, <3>2 DEF TypeOK, SessionSelect, tables
  <2>4. CASE SessionTouch(r)
    <3>1. proc' \in [Request -> Proc]
      BY <2>4, GotoType DEF SessionTouch, Pc
    <3>2. proc[r].at \in Nat
      BY LocalTypes
    <3>3. sessions' \in [SessionId -> SessionRow]
      BY <2>4, <3>2, Shapes, SessionFields DEF SessionTouch
    <3> QED BY <2>4, <3>1, <3>3 DEF TypeOK, SessionTouch
  <2>5. CASE SessionLoad(r)
    BY <2>5, ReplyType DEF TypeOK, SessionLoad, tables, Response
  <2> QED BY <1>s, <2>1, <2>2, <2>3, <2>4, <2>5 DEF UseSession
<1>w. ASSUME Sweeper PROVE TypeOK'
  <2>1. CASE SweepTick
    BY <2>1 DEF TypeOK, SweepTick, tables
  <2>2. CASE SweepCodes
    <3>1. codes' \in [CodeId -> CodeRow]
      BY <2>2, Shapes, CodeFields DEF SweepCodes
    <3> QED BY <2>2, <3>1 DEF TypeOK, SweepCodes
  <2>3. CASE SweepSessions
    <3>1. sessions' \in [SessionId -> SessionRow]
      BY <2>3, Shapes, SessionFields DEF SweepSessions
    <3> QED BY <2>3, <3>1 DEF TypeOK, SweepSessions
  <2>4. CASE SweepFails
    BY <2>4 DEF TypeOK, SweepFails, tables
  <2> QED BY <1>w, <2>1, <2>2, <2>3, <2>4 DEF Sweeper
<1>e. ASSUME NEW u \in UserId, DeleteUser(u) PROVE TypeOK'
  BY <1>e DEF TypeOK, DeleteUser, UserRow, RowStatus
<1>t. CASE Tick
  BY <1>t DEF TypeOK, Tick, tables
<1>r. CASE Restart
  BY <1>r DEF TypeOK, Restart, tables, Idle, Proc, Pc, Response
<1>f. ASSUME NEW r \in Request, StatementFails(r) PROVE TypeOK'
  <2>1. proc' \in [Request -> Proc]
    BY <1>f, ReplyType, GotoType DEF StatementFails, Fallible, Pc, Response
  <2> QED BY <1>f, <2>1 DEF TypeOK, StatementFails, tables
<1>l. ASSUME NEW r \in Request, NEW s \in SessionId, LogoutFails(r, s) PROVE TypeOK'
  <2>1. proc' \in [Request -> Proc]
    BY <1>l, ReplyType DEF LogoutFails, Response
  <2>2. faults' \in Nat
    BY <1>l, Shapes DEF LogoutFails
  <2> QED BY <1>l, <2>1, <2>2 DEF TypeOK, LogoutFails, tables
<1>u. CASE UNCHANGED vars
  BY <1>u DEF TypeOK, vars
<1> QED
  BY <1>rc, <1>v, <1>s, <1>w, <1>e, <1>t, <1>r, <1>f, <1>l, <1>u DEF Next

\* Every reachable state is well formed.
THEOREM TypeCorrect == Spec => []TypeOK
<1>1. Init => TypeOK
  BY TypeInit
<1>2. TypeOK /\ [Next]_vars => TypeOK'
  BY TypeStep
<1> QED
  BY <1>1, <1>2, PTL DEF Spec

-----------------------------------------------------------------------------
(* Rows persist: no statement changes whose code, user or session a row is. *)

CodesPersist ==
  \A c \in CodeId : codes[c].status # "none" =>
    /\ codes'[c].status # "none"
    /\ codes'[c].email = codes[c].email
    /\ codes[c].status = "deleted" => codes'[c].status = "deleted"

UsersPersist ==
  \A u \in UserId : users[u].status # "none" =>
    users'[u].status # "none" /\ users'[u].email = users[u].email

SessionsPersist ==
  \A s \in SessionId : sessions[s].status # "none" =>
    /\ sessions'[s].status # "none"
    /\ sessions'[s].user = sessions[s].user
    /\ sessions'[s].code = sessions[s].code

NoNewSession ==
  \A s \in SessionId : sessions[s].status = "none" => sessions'[s].status = "none"

\* Deleting a row changes its status only.
LEMMA Deletion ==
  /\ \A row \in CodeRow : LET gone == [row EXCEPT !.status = "deleted"] IN
       gone.status = "deleted" /\ gone.email = row.email
  /\ \A row \in SessionRow : LET gone == [row EXCEPT !.status = "deleted"] IN
       gone.status = "deleted" /\ gone.user = row.user /\ gone.code = row.code
  BY DEF CodeRow, SessionRow

LEMMA CodesStep ==
  ASSUME TypeOK, FreshIds, [Next]_vars
  PROVE  /\ CodesPersist
         /\ \A c \in CodeId : c > serial'.code => codes'[c].status = "none"
<1> USE UserAuthAssumption
<1>1. SUFFICES ASSUME ~ UNCHANGED <<codes, serial>>
               PROVE  /\ CodesPersist
                      /\ \A c \in CodeId : c > serial'.code => codes'[c].status = "none"
  BY DEF CodesPersist, FreshIds
<1>2. \/ \E r \in Request, d \in Digits : StoreCode(r, d)
      \/ \E r \in Request : \/ SignupInsert(r) \/ VerifyMint(r)
                            \/ VerifyAttempt(r) \/ VerifyLock(r) \/ VerifyConsume(r)
      \/ SweepCodes
  BY <1>1 DEF Next, RequestCode, VerifyCode, UseSession, Sweeper, vars, tables,
     RequestCodeBegin, RequestCodeRefused, LookupUser, SignupConflict, SignupReadback,
     SendMail, VerifyBegin, VerifyNoCode, VerifySelect, VerifyUser, VerifyLoad,
     Logout, SessionBegin, SessionSelect, SessionTouch, SessionLoad,
     SweepTick, SweepSessions, SweepFails, DeleteUser, Tick, Restart,
     StatementFails, LogoutFails
<1>3. ASSUME NEW r \in Request, NEW d \in Digits, StoreCode(r, d)
      PROVE  /\ CodesPersist
             /\ \A c \in CodeId : c > serial'.code => codes'[c].status = "none"
  <2> DEFINE n == serial.code + 1
  <2>1. n \in CodeId /\ codes[n].status = "none" /\ serial'.code = n /\ serial.code \in Nat
    BY <1>3, SerialShape DEF StoreCode, CodeId, FreshIds
  <2>2. \A c \in CodeId : c # n => codes'[c] = codes[c]
    BY <1>3, Shapes DEF StoreCode
  <2> HIDE DEF n
  <2>3. CodesPersist
    BY <2>1, <2>2 DEF CodesPersist
  <2>4. \A c \in CodeId : c > n => c # n /\ c > serial.code
    BY <1>3, <2>1 DEF CodeId, n
  <2> QED BY <2>1, <2>2, <2>3, <2>4 DEF FreshIds
<1>4. ASSUME NEW r \in Request,
             SignupInsert(r) \/ VerifyMint(r)
      PROVE  codes' = codes /\ serial'.code = serial.code
  BY <1>4, SerialShape DEF SignupInsert, VerifyMint
<1>5. ASSUME NEW r \in Request,
             VerifyAttempt(r) \/ VerifyLock(r) \/ VerifyConsume(r)
      PROVE  /\ serial' = serial
             /\ CodesPersist
             /\ \A c \in CodeId : codes[c].status = "none" => codes'[c].status = "none"
  <2> DEFINE c == proc[r].code
  <2>1. serial' = serial
    BY <1>5 DEF VerifyAttempt, VerifyLock, VerifyConsume
  <2>2. CASE codes[c].status = "row"
    <3>1. \/ codes' = [codes EXCEPT ![c].attempts = @ + 1]
          \/ codes' = [codes EXCEPT ![c].locked = TRUE]
          \/ codes' = [codes EXCEPT ![c].status = "deleted"]
      BY <1>5, <2>2 DEF VerifyAttempt, VerifyLock, VerifyConsume
    <3> HIDE DEF c
    <3>2. \A x \in CodeId :
            /\ x # c => codes'[x] = codes[x]
            /\ codes'[x].email = codes[x].email
            /\ codes'[x].status # codes[x].status => x = c /\ codes'[x].status = "deleted"
      BY <3>1, Shapes DEF CodeRow
    <3> QED BY <2>1, <2>2, <3>2 DEF CodesPersist
  <2>3. CASE codes[c].status # "row"
    <3>1. codes' = codes
      BY <1>5, <2>3 DEF VerifyAttempt, VerifyLock, VerifyConsume
    <3> QED BY <2>1, <3>1 DEF CodesPersist
  <2> QED BY <2>2, <2>3
<1>6. ASSUME SweepCodes
      PROVE  /\ serial' = serial
             /\ CodesPersist
             /\ \A c \in CodeId : codes[c].status = "none" => codes'[c].status = "none"
  <2>1. \A c \in CodeId : \/ codes'[c] = codes[c]
                          \/ /\ codes[c].status = "row"
                             /\ codes'[c] = [codes[c] EXCEPT !.status = "deleted"]
    BY <1>6 DEF SweepCodes
  <2>2. \A c \in CodeId : codes'[c].email = codes[c].email
    BY <2>1, Shapes, Deletion
  <2>3. ASSUME NEW c \in CodeId
        PROVE  \/ codes'[c].status = codes[c].status
               \/ codes[c].status = "row" /\ codes'[c].status = "deleted"
    <3>1. codes[c] \in CodeRow
      BY Shapes
    <3> QED BY <2>1, <3>1, Deletion
  <2> QED BY <1>6, <2>2, <2>3 DEF SweepCodes, CodesPersist
<1> QED
  BY <1>2, <1>3, <1>4, <1>5, <1>6 DEF FreshIds, CodesPersist

LEMMA UsersStep ==
  ASSUME TypeOK, FreshIds, [Next]_vars
  PROVE  /\ UsersPersist
         /\ \A u \in UserId : u > serial'.user => users'[u].status = "none"
<1> USE UserAuthAssumption
<1>1. SUFFICES ASSUME ~ UNCHANGED <<users, serial>>
               PROVE  /\ UsersPersist
                      /\ \A u \in UserId : u > serial'.user => users'[u].status = "none"
  BY DEF UsersPersist, FreshIds
<1>2. \/ \E r \in Request, d \in Digits : StoreCode(r, d)
      \/ \E r \in Request : SignupInsert(r) \/ VerifyMint(r)
      \/ \E u \in UserId : DeleteUser(u)
  BY <1>1 DEF Next, RequestCode, VerifyCode, UseSession, Sweeper, vars, tables,
     RequestCodeBegin, RequestCodeRefused, LookupUser, SignupConflict, SignupReadback,
     SendMail, VerifyBegin, VerifyNoCode, VerifySelect, VerifyAttempt, VerifyLock,
     VerifyConsume, VerifyUser, VerifyLoad, Logout, SessionBegin, SessionSelect,
     SessionTouch, SessionLoad, SweepTick, SweepCodes, SweepSessions, SweepFails, Tick,
     Restart, StatementFails, LogoutFails
<1>3. ASSUME NEW r \in Request, SignupInsert(r)
      PROVE  /\ UsersPersist
             /\ \A u \in UserId : u > serial'.user => users'[u].status = "none"
  <2> DEFINE n == serial.user + 1
  <2>1. n \in UserId /\ users[n].status = "none" /\ serial'.user = n /\ serial.user \in Nat
    BY <1>3, SerialShape DEF SignupInsert, UserId, FreshIds
  <2>2. \A u \in UserId : u # n => users'[u] = users[u]
    BY <1>3, Shapes DEF SignupInsert
  <2>4. \A u \in UserId : u > n => u # n /\ u > serial.user
    BY <2>1 DEF UserId
  <2> HIDE DEF n
  <2>3. UsersPersist
    BY <2>1, <2>2 DEF UsersPersist
  <2> QED BY <2>1, <2>2, <2>3, <2>4 DEF FreshIds
<1>4. ASSUME NEW r \in Request,
             (\E d \in Digits : StoreCode(r, d)) \/ VerifyMint(r)
      PROVE  users' = users /\ serial'.user = serial.user
  BY <1>4, SerialShape DEF StoreCode, VerifyMint
<1>5. ASSUME NEW u \in UserId, DeleteUser(u)
      PROVE  /\ UsersPersist /\ serial' = serial
             /\ \A w \in UserId : users[w].status = "none" => users'[w].status = "none"
  BY <1>5, Shapes DEF DeleteUser, UserRow, UsersPersist
<1> QED
  BY <1>2, <1>3, <1>4, <1>5 DEF FreshIds, UsersPersist

LEMMA SessionsStep ==
  ASSUME TypeOK, FreshIds, [Next]_vars
  PROVE  /\ SessionsPersist
         /\ \A s \in SessionId : s > serial'.session => sessions'[s].status = "none"
         /\ NoNewSession \/ \E r \in Request : VerifyMint(r)
<1> USE UserAuthAssumption
<1>1. SUFFICES ASSUME ~ UNCHANGED <<sessions, serial>>
               PROVE  /\ SessionsPersist
                      /\ \A s \in SessionId :
                           s > serial'.session => sessions'[s].status = "none"
                      /\ NoNewSession \/ \E r \in Request : VerifyMint(r)
  BY DEF SessionsPersist, FreshIds, NoNewSession
<1>2. \/ \E r \in Request, d \in Digits : StoreCode(r, d)
      \/ \E r \in Request : SignupInsert(r) \/ VerifyMint(r) \/ SessionTouch(r)
      \/ \E r \in Request, s \in SessionId : Logout(r, s)
      \/ SweepSessions
  BY <1>1 DEF Next, RequestCode, VerifyCode, UseSession, Sweeper, vars, tables,
     RequestCodeBegin, RequestCodeRefused, LookupUser, SignupConflict, SignupReadback,
     SendMail, VerifyBegin, VerifyNoCode, VerifySelect, VerifyAttempt, VerifyLock,
     VerifyConsume, VerifyUser, VerifyLoad, SessionBegin, SessionSelect, SessionLoad,
     SweepTick, SweepCodes, SweepFails, DeleteUser, Tick, Restart, StatementFails,
     LogoutFails
<1>3. ASSUME NEW r \in Request, VerifyMint(r)
      PROVE  /\ SessionsPersist
             /\ \A s \in SessionId : s > serial'.session => sessions'[s].status = "none"
  <2> DEFINE n == serial.session + 1
  <2>1. /\ n \in SessionId /\ sessions[n].status = "none" /\ serial'.session = n
        /\ serial.session \in Nat
    BY <1>3, SerialShape DEF VerifyMint, SessionId, FreshIds
  <2>2. \A s \in SessionId : s # n => sessions'[s] = sessions[s]
    BY <1>3, Shapes DEF VerifyMint
  <2>3. \A s \in SessionId : s > n => s # n /\ s > serial.session
    BY <2>1 DEF SessionId
  <2> HIDE DEF n
  <2>4. SessionsPersist
    BY <2>1, <2>2 DEF SessionsPersist
  <2> QED BY <2>1, <2>2, <2>3, <2>4 DEF FreshIds
<1>4. ASSUME NEW r \in Request,
             (\E d \in Digits : StoreCode(r, d)) \/ SignupInsert(r)
      PROVE  sessions' = sessions /\ serial'.session = serial.session
  BY <1>4, SerialShape DEF StoreCode, SignupInsert
<1>5. ASSUME \/ \E r \in Request : SessionTouch(r)
             \/ \E r \in Request, s \in SessionId : Logout(r, s)
             \/ SweepSessions
      PROVE  SessionsPersist /\ serial' = serial /\ NoNewSession
  <2>1. serial' = serial
    BY <1>5 DEF SessionTouch, Logout, SweepSessions
  <2>2. ASSUME NEW r \in Request, SessionTouch(r)
        PROVE  SessionsPersist /\ NoNewSession
    <3> DEFINE t == proc[r].tok
    <3>1. sessions' = sessions \/ sessions' = [sessions EXCEPT ![t].used = proc[r].at]
      BY <2>2 DEF SessionTouch
    <3> HIDE DEF t
    <3> QED BY <3>1, Shapes DEF SessionRow, SessionsPersist, NoNewSession
  <2>3. ASSUME NEW r \in Request, NEW s \in SessionId, Logout(r, s)
        PROVE  SessionsPersist /\ NoNewSession
    <3>1. /\ sessions[s].status # "none"
          /\ \A x \in SessionId : x # s => sessions'[x] = sessions[x]
          /\ sessions'[s] = [sessions[s] EXCEPT !.status = "deleted", !.out = TRUE]
      BY <2>3, Shapes DEF Logout, Delivered
    <3>2. /\ sessions'[s].status = "deleted"
          /\ sessions'[s].user = sessions[s].user /\ sessions'[s].code = sessions[s].code
      BY <3>1, Shapes DEF SessionRow
    <3> QED BY <3>1, <3>2 DEF SessionsPersist, NoNewSession
  <2>4. ASSUME SweepSessions
        PROVE  SessionsPersist /\ NoNewSession
    <3>1. \A s \in SessionId : \/ sessions'[s] = sessions[s]
                              \/ /\ sessions[s].status = "row"
                                 /\ sessions'[s] = [sessions[s] EXCEPT !.status = "deleted"]
      BY <2>4 DEF SweepSessions
    <3> QED BY <3>1, Shapes, Deletion DEF SessionsPersist, NoNewSession
  <2> QED BY <1>5, <2>1, <2>2, <2>3, <2>4
<1> QED
  BY <1>2, <1>3, <1>4, <1>5 DEF FreshIds, SessionsPersist, NoNewSession

-----------------------------------------------------------------------------
(* The sign-in invariant.                                                  *)

Watched == {"v_attempt", "v_lock", "v_consume", "v_user", "v_mint"}

\* The slots of which VerifyOnOwnRow and RedeemerIsAlone say nothing new.
SlotKept(q) ==
  \/ proc'[q] = proc[q]
  \/ proc'[q].pc \notin Watched
  \/ /\ proc'[q].pc \in {"v_attempt", "v_lock", "v_consume"}
     /\ proc'[q].code \in CodeId
     /\ codes[proc'[q].code].status # "none"
     /\ codes[proc'[q].code].email = proc'[q].email

LEMMA Persistence ==
  ASSUME TypeOK, FreshIds, [Next]_vars
  PROVE  TypeOK' /\ FreshIds' /\ CodesPersist /\ UsersPersist /\ SessionsPersist
  BY TypeStep, CodesStep, UsersStep, SessionsStep DEF FreshIds

\* A slot that is kept, or not watched, still works on a row of its own address.
LEMMA SlotOnOwnRow ==
  ASSUME NEW q \in Request, TypeOK, VerifyOnOwnRow, CodesPersist, UsersPersist, SlotKept(q)
  PROVE  /\ proc'[q].pc \in Watched =>
              /\ proc'[q].code \in CodeId
              /\ codes'[proc'[q].code].status # "none"
              /\ codes'[proc'[q].code].email = proc'[q].email
         /\ proc'[q].pc = "v_mint" =>
              /\ proc'[q].user \in UserId
              /\ users'[proc'[q].user].status # "none"
              /\ users'[proc'[q].user].email = proc'[q].email
  BY DEF SlotKept, VerifyOnOwnRow, CodesPersist, UsersPersist, Watched, At

\* Steps that start no redemption and mint no session keep the invariant.
LEMMA QuietStep ==
  ASSUME SignInInvariant, [Next]_vars, NoNewSession,
         \A q \in Request : SlotKept(q)
  PROVE  SignInInvariant'
<1>1. TypeOK' /\ FreshIds' /\ CodesPersist /\ UsersPersist /\ SessionsPersist
  BY Persistence DEF SignInInvariant
<1>2. VerifyOnOwnRow'
  BY <1>1, SlotOnOwnRow DEF SignInInvariant, VerifyOnOwnRow, Watched, At
<1>3. \A q \in Request : Redeems(q)' => Redeems(q) /\ proc'[q].code = proc[q].code
  BY DEF SlotKept, Redeems, At, Watched
<1>4. \A s \in SessionId : sessions'[s].status # "none" =>
        /\ sessions[s].status # "none"
        /\ sessions'[s].user = sessions[s].user /\ sessions'[s].code = sessions[s].code
  BY <1>1 DEF NoNewSession, SessionsPersist
<1>5. \A q \in Request : Redeems(q) => proc[q].code \in CodeId
  BY DEF SignInInvariant, VerifyOnOwnRow, Redeems, At
<1>6. RedeemerIsAlone'
  BY <1>1, <1>3, <1>4, <1>5 DEF SignInInvariant, RedeemerIsAlone, CodesPersist
<1>7. SessionWasBought'
  BY <1>1, <1>4 DEF SignInInvariant, SessionWasBought, CodesPersist, UsersPersist
<1>8. OneSessionPerCode'
  BY <1>4 DEF SignInInvariant, OneSessionPerCode
<1> QED
  BY <1>1, <1>2, <1>6, <1>7, <1>8 DEF SignInInvariant

\* What a reply, a jump and an update do to the request slots.
LEMMA ReplySlots ==
  ASSUME NEW r \in Request, NEW resp \in Response, TypeOK, Reply(r, resp)
  PROVE  \A q \in Request : SlotKept(q)
  BY Shapes DEF Reply, Idle, SlotKept, Watched

LEMMA GotoSlots ==
  ASSUME NEW r \in Request, NEW step, TypeOK, Goto(r, step)
  PROVE  /\ \A q \in Request : q # r => proc'[q] = proc[q]
         /\ proc'[r].pc = step
         /\ proc'[r].code = proc[r].code /\ proc'[r].email = proc[r].email
         /\ proc'[r].user = proc[r].user
<1>1. proc \in [Request -> Proc]
  BY Shapes
<1> QED BY <1>1 DEF Goto, Proc

LEMMA UpdateSlots ==
  ASSUME NEW r \in Request, NEW p, TypeOK, proc' = [proc EXCEPT ![r] = p]
  PROVE  proc'[r] = p /\ \A q \in Request : q # r => proc'[q] = proc[q]
  BY Shapes

\* Every step but these three starts no redemption and mints no session.
LEMMA OtherSlots ==
  ASSUME SignInInvariant, [Next]_vars,
         \A r \in Request : ~VerifyConsume(r) /\ ~VerifyUser(r) /\ ~VerifyMint(r)
  PROVE  \A q \in Request : SlotKept(q)
<1>0. TypeOK
  BY DEF SignInInvariant
<1>rc. ASSUME NEW r \in Request, RequestCode(r) PROVE \A q \in Request : SlotKept(q)
  <2>1. ASSUME NEW e \in Email, RequestCodeBegin(r, e) PROVE \A q \in Request : SlotKept(q)
    <3>1. [Idle("none") EXCEPT !.pc = "rc_lookup", !.email = e].pc \notin Watched
      BY DEF Idle, Watched
    <3> QED BY <1>0, <2>1, <3>1, UpdateSlots DEF RequestCodeBegin, SlotKept
  <2>2. CASE RequestCodeRefused(r) \/ SignupConflict(r) \/ SendMail(r)
    BY <1>0, <2>2, ReplySlots DEF RequestCodeRefused, SignupConflict, SendMail, Response
  <2>3. CASE LookupUser(r)
    BY <1>0, <2>3, GotoSlots DEF LookupUser, SlotKept, Watched
  <2>4. CASE SignupInsert(r)
    <3>1. \A u : [proc[r] EXCEPT !.pc = "rc_readback", !.user = u].pc \notin Watched
      BY <1>0, Shapes DEF Proc, Watched
    <3> QED BY <1>0, <2>4, <3>1, UpdateSlots DEF SignupInsert, SlotKept
  <2>5. CASE SignupReadback(r)
    BY <1>0, <2>5, GotoSlots, ReplySlots DEF SignupReadback, SlotKept, Watched, Response
  <2>6. ASSUME NEW d \in Digits, StoreCode(r, d) PROVE \A q \in Request : SlotKept(q)
    BY <1>0, <2>6, GotoSlots DEF StoreCode, SlotKept, Watched
  <2> QED BY <1>rc, <2>1, <2>2, <2>3, <2>4, <2>5, <2>6 DEF RequestCode
<1>v. ASSUME NEW r \in Request, VerifyCode(r) PROVE \A q \in Request : SlotKept(q)
  <2>1. ASSUME NEW e \in Email, NEW d \in Digits, VerifyBegin(r, e, d)
        PROVE  \A q \in Request : SlotKept(q)
    <3>1. [Idle("none") EXCEPT !.pc = "v_select", !.email = e, !.digits = d, !.at = now].pc
            \notin Watched
      BY DEF Idle, Watched
    <3> QED BY <1>0, <2>1, <3>1, UpdateSlots DEF VerifyBegin, SlotKept
  <2>2. CASE VerifyNoCode(r) \/ VerifyLoad(r) \/ VerifyLock(r)
    BY <1>0, <2>2, ReplySlots DEF VerifyNoCode, VerifyLoad, VerifyLock, Response
  <2>3. ASSUME NEW c \in CodeId, VerifySelect(r, c) PROVE \A q \in Request : SlotKept(q)
    <3> DEFINE step == IF codes[c].digits = proc[r].digits THEN "v_consume" ELSE "v_attempt"
               p == [proc[r] EXCEPT !.pc = step, !.code = c]
    <3>1. proc[r] \in Proc
      BY <1>0, Shapes
    <3>2. p.pc = step /\ p.code = c /\ p.email = proc[r].email
      BY <3>1 DEF Proc
    <3>3. proc' = [proc EXCEPT ![r] = p]
      BY <2>3 DEF VerifySelect
    <3>4. codes[c].status # "none" /\ codes[c].email = proc[r].email
      BY <2>3 DEF VerifySelect, Newest, Usable
    <3>5. step \in {"v_attempt", "v_lock", "v_consume"}
      OBVIOUS
    <3> HIDE DEF p, step
    <3> QED BY <1>0, <3>2, <3>3, <3>4, <3>5, UpdateSlots DEF SlotKept
  <2>4. CASE VerifyAttempt(r)
    <3>1. CASE Goto(r, "v_lock")
      BY <1>0, <2>4, <3>1, GotoSlots
      DEF VerifyAttempt, SlotKept, SignInInvariant, VerifyOnOwnRow, At
    <3>2. CASE Reply(r, "error")
      BY <1>0, <3>2, ReplySlots DEF Response
    <3> QED BY <2>4, <3>1, <3>2 DEF VerifyAttempt
  <2> QED BY <1>v, <2>1, <2>2, <2>3, <2>4 DEF VerifyCode
<1>s. ASSUME NEW r \in Request, UseSession(r) PROVE \A q \in Request : SlotKept(q)
  <2>1. ASSUME NEW s \in SessionId, Logout(r, s) PROVE \A q \in Request : SlotKept(q)
    BY <1>0, <2>1, ReplySlots DEF Logout, Response
  <2>2. ASSUME NEW s \in SessionId, SessionBegin(r, s) PROVE \A q \in Request : SlotKept(q)
    <3>1. [Idle("none") EXCEPT !.pc = "s_select", !.tok = s, !.at = now].pc \notin Watched
      BY DEF Idle, Watched
    <3> QED BY <1>0, <2>2, <3>1, UpdateSlots DEF SessionBegin, SlotKept
  <2>3. CASE SessionSelect(r)
    <3>1. \A u : [proc[r] EXCEPT !.pc = "s_touch", !.user = u].pc \notin Watched
      BY <1>0, Shapes DEF Proc, Watched
    <3>2. ASSUME NEW u, proc' = [proc EXCEPT ![r] = [@ EXCEPT !.pc = "s_touch", !.user = u]]
          PROVE  \A q \in Request : SlotKept(q)
      BY <1>0, <3>1, <3>2, UpdateSlots DEF SlotKept
    <3>3. CASE Reply(r, "error")
      BY <1>0, <3>3, ReplySlots DEF Response
    <3> QED BY <2>3, <3>2, <3>3 DEF SessionSelect
  <2>4. CASE SessionTouch(r)
    BY <1>0, <2>4, GotoSlots DEF SessionTouch, SlotKept, Watched
  <2>5. CASE SessionLoad(r)
    BY <1>0, <2>5, ReplySlots DEF SessionLoad, Response
  <2> QED BY <1>s, <2>1, <2>2, <2>3, <2>4, <2>5 DEF UseSession
<1>w. CASE Sweeper \/ (\E u \in UserId : DeleteUser(u)) \/ Tick \/ UNCHANGED vars
  BY <1>w DEF Sweeper, SweepTick, SweepCodes, SweepSessions, SweepFails, DeleteUser, Tick,
     SlotKept, vars
<1>r. CASE Restart
  BY <1>r DEF Restart, Idle, SlotKept, Watched
<1>f. ASSUME NEW r \in Request, StatementFails(r) PROVE \A q \in Request : SlotKept(q)
  <2>1. CASE Goto(r, "rc_signup") \/ Goto(r, "s_load")
    BY <1>0, <2>1, GotoSlots DEF SlotKept, Watched
  <2>2. ASSUME proc[r].pc \in Fallible, Reply(r, "error")
        PROVE  \A q \in Request : SlotKept(q)
    BY <1>0, <2>2, ReplySlots DEF Fallible, Response
  <2> QED BY <1>f, <2>1, <2>2 DEF StatementFails
<1>l. ASSUME NEW r \in Request, NEW s \in SessionId, LogoutFails(r, s)
      PROVE  \A q \in Request : SlotKept(q)
  BY <1>0, <1>l, ReplySlots DEF LogoutFails, Response
<1> QED
  BY <1>rc, <1>v, <1>s, <1>w, <1>r, <1>f, <1>l DEF Next

\* The DELETE that consumes a code: its row was there, so no other request had
\* consumed it, and every session was bought with another code.
LEMMA ConsumeStep ==
  ASSUME NEW r \in Request, SignInInvariant, VerifyConsume(r)
  PROVE  SignInInvariant'
<1> DEFINE c == proc[r].code
<1>0. [Next]_vars
  BY DEF Next, VerifyCode
<1>1. TypeOK' /\ FreshIds' /\ CodesPersist /\ UsersPersist /\ SessionsPersist
  BY <1>0, Persistence DEF SignInInvariant
<1>2. sessions' = sessions /\ users' = users
  BY DEF VerifyConsume
<1>3. CASE Reply(r, "error")
  <2>1. NoNewSession
    BY <1>2 DEF NoNewSession
  <2> QED BY <1>0, <1>3, <2>1, ReplySlots, QuietStep DEF Response, SignInInvariant
<1>4. CASE Goto(r, "v_user") /\ codes[c].status = "row"
                             /\ codes' = [codes EXCEPT ![c].status = "deleted"]
  <2>1. c \in CodeId /\ codes[c].email = proc[r].email
    BY DEF SignInInvariant, VerifyOnOwnRow, VerifyConsume, At
  <2>2. codes'[c].status = "deleted" /\ codes'[c].email = codes[c].email
    BY <1>4, <2>1, Shapes DEF SignInInvariant, CodeRow
  <2>3. /\ \A q \in Request : q # r => proc'[q] = proc[q]
        /\ proc'[r].pc = "v_user" /\ proc'[r].code = c /\ proc'[r].email = proc[r].email
    BY <1>4, GotoSlots DEF SignInInvariant
  <2> HIDE DEF c
  <2>4. VerifyOnOwnRow'
    <3>1. ASSUME NEW q \in Request, q # r
          PROVE  SlotKept(q)
      BY <2>3, <3>1 DEF SlotKept
    <3>2. ASSUME NEW q \in Request, q # r
          PROVE  /\ proc'[q].pc \in Watched =>
                      /\ proc'[q].code \in CodeId
                      /\ codes'[proc'[q].code].status # "none"
                      /\ codes'[proc'[q].code].email = proc'[q].email
                 /\ proc'[q].pc = "v_mint" =>
                      /\ proc'[q].user \in UserId
                      /\ users'[proc'[q].user].status # "none"
                      /\ users'[proc'[q].user].email = proc'[q].email
      BY <1>1, <3>1, <3>2, SlotOnOwnRow DEF SignInInvariant
    <3> QED BY <2>1, <2>2, <2>3, <3>2 DEF VerifyOnOwnRow, Watched, At
  <2>5. \A q \in Request : q # r /\ Redeems(q) => proc[q].code # c /\ proc[q].code \in CodeId
    BY <1>4 DEF SignInInvariant, RedeemerIsAlone, VerifyOnOwnRow, Redeems, At, c
  <2>6. \A s \in SessionId : sessions[s].status # "none" => sessions[s].code # c
    BY <1>4 DEF SignInInvariant, SessionWasBought, c
  <2>7. \A q \in Request : q # r => (Redeems(q)' <=> Redeems(q))
    BY <2>3 DEF Redeems, At
  <2>8. RedeemerIsAlone'
    <3>1. ASSUME NEW q \in Request, Redeems(q)'
          PROVE  codes'[proc'[q].code].status = "deleted"
      BY <1>1, <2>2, <2>3, <2>5, <2>7, <3>1
      DEF SignInInvariant, RedeemerIsAlone, CodesPersist
    <3>2. ASSUME NEW q \in Request, NEW p \in Request, Redeems(q)', Redeems(p)',
                 proc'[q].code = proc'[p].code
          PROVE  q = p
      BY <2>3, <2>5, <2>7, <3>2 DEF SignInInvariant, RedeemerIsAlone
    <3>3. ASSUME NEW q \in Request, Redeems(q)', NEW s \in SessionId,
                 sessions'[s].status # "none"
          PROVE  sessions'[s].code # proc'[q].code
      BY <1>2, <2>3, <2>6, <2>7, <3>3 DEF SignInInvariant, RedeemerIsAlone
    <3> QED BY <3>1, <3>2, <3>3 DEF RedeemerIsAlone
  <2>9. SessionWasBought' /\ OneSessionPerCode'
    BY <1>1, <1>2 DEF SignInInvariant, SessionWasBought, OneSessionPerCode, CodesPersist
  <2> QED BY <1>1, <2>4, <2>8, <2>9 DEF SignInInvariant
<1> QED BY <1>3, <1>4 DEF VerifyConsume

\* The user lookup carries the redemption on, with a user of the code's address.
LEMMA UserStep ==
  ASSUME NEW r \in Request, SignInInvariant, VerifyUser(r)
  PROVE  SignInInvariant'
<1>0. [Next]_vars /\ TypeOK
  BY DEF Next, VerifyCode, SignInInvariant
<1>1. TypeOK' /\ FreshIds' /\ CodesPersist /\ UsersPersist /\ SessionsPersist
  BY <1>0, Persistence DEF SignInInvariant
<1>2. sessions' = sessions /\ users' = users /\ codes' = codes
  BY DEF VerifyUser, tables
<1>3. CASE Reply(r, "error")
  <2>1. NoNewSession
    BY <1>2 DEF NoNewSession
  <2> QED BY <1>0, <1>3, <2>1, ReplySlots, QuietStep DEF Response
<1>4. ASSUME NEW u \in UsersOf(proc[r].email),
             proc' = [proc EXCEPT ![r] = [@ EXCEPT !.pc = "v_mint", !.user = u]]
      PROVE  SignInInvariant'
  <2> DEFINE p == [proc[r] EXCEPT !.pc = "v_mint", !.user = u]
  <2>1. p.pc = "v_mint" /\ p.user = u /\ p.code = proc[r].code /\ p.email = proc[r].email
    BY <1>0, Shapes DEF Proc
  <2>2. proc' = [proc EXCEPT ![r] = p]
    BY <1>4
  <2> HIDE DEF p
  <2>3. proc'[r] = p /\ \A q \in Request : q # r => proc'[q] = proc[q]
    BY <1>0, <2>2, UpdateSlots
  <2>4. u \in UserId /\ users[u].status # "none" /\ users[u].email = proc[r].email
    BY DEF UsersOf
  <2>5. VerifyOnOwnRow'
    <3>1. /\ proc[r].code \in CodeId
          /\ codes[proc[r].code].status # "none"
          /\ codes[proc[r].code].email = proc[r].email
      BY DEF SignInInvariant, VerifyOnOwnRow, VerifyUser, At
    <3>2. ASSUME NEW q \in Request, q # r
          PROVE  /\ proc'[q].pc \in Watched =>
                      /\ proc'[q].code \in CodeId
                      /\ codes'[proc'[q].code].status # "none"
                      /\ codes'[proc'[q].code].email = proc'[q].email
                 /\ proc'[q].pc = "v_mint" =>
                      /\ proc'[q].user \in UserId
                      /\ users'[proc'[q].user].status # "none"
                      /\ users'[proc'[q].user].email = proc'[q].email
      BY <1>2, <2>3, <3>2 DEF SignInInvariant, VerifyOnOwnRow, At, Watched
    <3> QED BY <1>2, <2>1, <2>3, <2>4, <3>1, <3>2 DEF VerifyOnOwnRow, At, Watched
  <2>6. \A q \in Request : Redeems(q)' => Redeems(q) /\ proc'[q].code = proc[q].code
    BY <2>1, <2>3 DEF Redeems, At, VerifyUser
  <2>7. RedeemerIsAlone'
    BY <1>2, <2>6 DEF SignInInvariant, RedeemerIsAlone
  <2>8. SessionWasBought' /\ OneSessionPerCode'
    BY <1>2 DEF SignInInvariant, SessionWasBought, OneSessionPerCode
  <2> QED BY <1>1, <2>5, <2>7, <2>8 DEF SignInInvariant
<1> QED BY <1>3, <1>4 DEF VerifyUser

\* The INSERT turns the one redemption of a code into its one session.
LEMMA MintStep ==
  ASSUME NEW r \in Request, SignInInvariant, VerifyMint(r)
  PROVE  SignInInvariant'
<1> DEFINE n == serial.session + 1
           c == proc[r].code
<1>0. [Next]_vars /\ TypeOK /\ At(r, "v_mint")
  BY DEF Next, VerifyCode, SignInInvariant, VerifyMint
<1>1. TypeOK' /\ FreshIds' /\ CodesPersist /\ UsersPersist /\ SessionsPersist
  BY <1>0, Persistence DEF SignInInvariant
<1>2. users' = users /\ codes' = codes
  BY DEF VerifyMint
<1>3. n \in SessionId
  BY <1>0, SerialShape, UserAuthAssumption DEF VerifyMint, SessionId
<1>4. /\ sessions'[n].user = proc[r].user /\ sessions'[n].code = c
      /\ \A s \in SessionId : s # n => sessions'[s] = sessions[s]
  BY <1>0, <1>3, Shapes DEF VerifyMint
<1>5. /\ proc'[r].pc = "v_load"
      /\ \A q \in Request : q # r => proc'[q] = proc[q]
  <2>1. [proc[r] EXCEPT !.pc = "v_load", !.tok = n].pc = "v_load"
    BY <1>0, Shapes DEF Proc
  <2> QED BY <1>0, <2>1, Shapes DEF VerifyMint
<1>6. /\ c \in CodeId /\ codes[c].status = "deleted"
      /\ proc[r].user \in UserId /\ users[proc[r].user].status # "none"
      /\ users[proc[r].user].email = codes[c].email
      /\ \A s \in SessionId : sessions[s].status # "none" => sessions[s].code # c
      /\ \A q \in Request : Redeems(q) /\ q # r => proc[q].code # c
  BY <1>0 DEF SignInInvariant, VerifyOnOwnRow, RedeemerIsAlone, Redeems, At
<1> HIDE DEF n, c
<1>7. VerifyOnOwnRow'
  BY <1>2, <1>5 DEF SignInInvariant, VerifyOnOwnRow, At
<1>8. \A q \in Request : Redeems(q)' => q # r /\ Redeems(q) /\ proc'[q] = proc[q]
  BY <1>5 DEF Redeems, At
<1>9. RedeemerIsAlone'
  BY <1>2, <1>4, <1>6, <1>8 DEF SignInInvariant, RedeemerIsAlone
<1>10. SessionWasBought'
  BY <1>2, <1>4, <1>6 DEF SignInInvariant, SessionWasBought
<1>11. OneSessionPerCode'
  BY <1>4, <1>6 DEF SignInInvariant, OneSessionPerCode
<1> QED BY <1>1, <1>7, <1>9, <1>10, <1>11 DEF SignInInvariant

LEMMA SignInInit == Init => SignInInvariant
<1> SUFFICES ASSUME Init PROVE SignInInvariant
  OBVIOUS
<1>1. TypeOK
  BY TypeInit
<1>2. /\ \A c \in CodeId : codes[c].status = "none"
      /\ \A u \in UserId : users[u].status = "none"
      /\ \A s \in SessionId : sessions[s].status = "none"
      /\ \A r \in Request : proc[r].pc = "idle"
  BY DEF Init, Idle
<1> QED
  BY <1>1, <1>2 DEF SignInInvariant, FreshIds, VerifyOnOwnRow, RedeemerIsAlone, Redeems, At,
     SessionWasBought, OneSessionPerCode

LEMMA SignInStep == SignInInvariant /\ [Next]_vars => SignInInvariant'
<1> SUFFICES ASSUME SignInInvariant, [Next]_vars PROVE SignInInvariant'
  OBVIOUS
<1>1. CASE \E r \in Request : VerifyConsume(r) \/ VerifyUser(r) \/ VerifyMint(r)
  BY <1>1, ConsumeStep, UserStep, MintStep
<1>2. CASE \A r \in Request : ~VerifyConsume(r) /\ ~VerifyUser(r) /\ ~VerifyMint(r)
  <2>1. NoNewSession
    BY <1>2, SessionsStep DEF SignInInvariant
  <2> QED BY <1>2, <2>1, OtherSlots, QuietStep
<1> QED BY <1>1, <1>2

\* Consuming a code hands it from the table to one request, and from there to one
\* session of the user whose address received it.
THEOREM SignInInvariantHolds == Spec => []SignInInvariant
  BY SignInInit, SignInStep, PTL DEF Spec

\* One code never mints two sessions, with any number of requests, codes and faults.
THEOREM OneSessionPerCodeHolds == Spec => []OneSessionPerCode
<1>1. SignInInvariant => OneSessionPerCode
  BY DEF SignInInvariant
<1> QED BY <1>1, SignInInvariantHolds, PTL

\* A session always signs in a user whose address received the code that bought it.
THEOREM SessionNamesItsOwnerHolds == Spec => []SessionNamesItsOwner
<1>1. SignInInvariant => SessionNamesItsOwner
  BY DEF SignInInvariant, SessionWasBought, SessionNamesItsOwner
<1> QED BY <1>1, SignInInvariantHolds, PTL

\* EnsureUser looks an address up and inserts it in two statements; the UNIQUE index
\* alone keeps two sign-ups of one address from leaving two users.
THEOREM UniqueUserPerEmailHolds == Spec => []UniqueUserPerEmail
<1>1. Init => UniqueUserPerEmail
  BY DEF Init, UniqueUserPerEmail
<1>2. ASSUME SignInInvariant, UniqueUserPerEmail, [Next]_vars
      PROVE  UniqueUserPerEmail'
  <2>0. TypeOK /\ FreshIds
    BY <1>2 DEF SignInInvariant
  <2>2. ASSUME NEW r \in Request, SignupInsert(r)
        PROVE  UniqueUserPerEmail'
    <3> DEFINE n == serial.user + 1
    <3>1. n \in UserId
      BY <2>0, <2>2, SerialShape, UserAuthAssumption DEF SignupInsert, UserId
    <3>2. /\ users'[n].email = proc[r].email
          /\ \A u \in UserId : u # n => users'[u] = users[u]
          /\ UsersOf(proc[r].email) = {}
      BY <2>0, <2>2, <3>1, Shapes DEF SignupInsert
    <3> HIDE DEF n
    <3> QED BY <1>2, <3>1, <3>2 DEF UniqueUserPerEmail, UsersOf
  <2>3. ASSUME NEW u \in UserId, DeleteUser(u)
        PROVE  UniqueUserPerEmail'
    BY <1>2, <2>0, <2>3, Shapes DEF DeleteUser, UserRow, UniqueUserPerEmail
  <2>4. CASE UNCHANGED users
    BY <1>2, <2>4 DEF UniqueUserPerEmail
  <2> QED
    BY <1>2, <2>2, <2>3, <2>4
    DEF Next, RequestCode, VerifyCode, UseSession, Sweeper, vars, tables,
     RequestCodeBegin, RequestCodeRefused, LookupUser, SignupConflict, SignupReadback,
     StoreCode, SendMail, VerifyBegin, VerifyNoCode, VerifySelect, VerifyAttempt, VerifyLock,
     VerifyConsume, VerifyUser, VerifyMint, VerifyLoad, Logout, SessionBegin, SessionSelect,
     SessionTouch, SessionLoad, SweepTick, SweepCodes, SweepSessions, SweepFails, Tick,
     Restart, StatementFails, LogoutFails
<1> QED BY <1>1, <1>2, SignInInvariantHolds, PTL DEF Spec
-----------------------------------------------------------------------------
(* A session that was logged out stays gone.                               *)

LEMMA LogoutStep ==
  ASSUME TypeOK, LogoutEndsSession, [Next]_vars
  PROVE  LogoutEndsSession'
<1> USE UserAuthAssumption
<1>1. SUFFICES ASSUME sessions' # sessions PROVE LogoutEndsSession'
  BY DEF LogoutEndsSession
<1>2. \/ \E r \in Request : VerifyMint(r) \/ SessionTouch(r)
      \/ \E r \in Request, s \in SessionId : Logout(r, s)
      \/ SweepSessions
  BY <1>1 DEF Next, RequestCode, VerifyCode, UseSession, Sweeper, vars, tables,
     RequestCodeBegin, RequestCodeRefused, LookupUser, SignupInsert, SignupConflict,
     SignupReadback, StoreCode, SendMail, VerifyBegin, VerifyNoCode, VerifySelect,
     VerifyAttempt, VerifyLock, VerifyConsume, VerifyUser, VerifyLoad, SessionBegin,
     SessionSelect, SessionLoad, SweepTick, SweepCodes, SweepFails, DeleteUser, Tick,
     Restart, StatementFails, LogoutFails
<1>3. ASSUME NEW r \in Request, VerifyMint(r) PROVE LogoutEndsSession'
  <2> DEFINE n == serial.session + 1
  <2>1. n \in SessionId
    BY <1>3, SerialShape DEF VerifyMint, SessionId
  <2>2. sessions'[n].out = FALSE /\ \A s \in SessionId : s # n => sessions'[s] = sessions[s]
    BY <1>3, <2>1, Shapes DEF VerifyMint
  <2> QED BY <2>2 DEF LogoutEndsSession
<1>4. ASSUME NEW r \in Request, SessionTouch(r) PROVE LogoutEndsSession'
  <2> DEFINE t == proc[r].tok
  <2>1. sessions' = [sessions EXCEPT ![t].used = proc[r].at]
    BY <1>1, <1>4 DEF SessionTouch
  <2> HIDE DEF t
  <2>2. \A s \in SessionId : sessions'[s].status = sessions[s].status
                             /\ sessions'[s].out = sessions[s].out
    BY <2>1, Shapes DEF SessionRow
  <2> QED BY <2>2 DEF LogoutEndsSession
<1>5. ASSUME NEW r \in Request, NEW s \in SessionId, Logout(r, s) PROVE LogoutEndsSession'
  <2>1. /\ \A x \in SessionId : x # s => sessions'[x] = sessions[x]
        /\ sessions'[s].status = "deleted"
    BY <1>5, Shapes DEF Logout, SessionRow
  <2> QED BY <2>1 DEF LogoutEndsSession
<1>6. ASSUME SweepSessions PROVE LogoutEndsSession'
  <2>1. \A s \in SessionId : sessions'[s] = sessions[s] \/ sessions'[s].status = "deleted"
    BY <1>6, Shapes DEF SweepSessions, SessionRow
  <2> QED BY <2>1 DEF LogoutEndsSession
<1> QED BY <1>2, <1>3, <1>4, <1>5, <1>6

\* No session check, sweep or sign-in brings back a session that was logged out, in
\* whatever order their statements come (logout, sessionUserID).
THEOREM LogoutEndsSessionHolds == Spec => []LogoutEndsSession
<1>1. Init => LogoutEndsSession
  BY DEF Init, LogoutEndsSession
<1> QED BY <1>1, LogoutStep, TypeCorrect, PTL DEF Spec

-----------------------------------------------------------------------------
(* The guesses a code meets.                                               *)

Guessing == {"v_attempt", "v_lock"}

\* Guesses compared with c whose request has not locked c or answered.
Pending(c) == {r \in Request : proc[r].pc \in Guessing /\ proc[r].code = c}

\* The guesses that faults may have kept from being counted, or c from being locked.
Lost == Cardinality(Request) * faults

\* While a code is not locked, fewer than MaxAttempts guesses have been answered.
GuessInv(c) ==
  /\ codes[c].status = "none" => compared[c] = 0
  /\ codes[c].status = "row" =>
       compared[c] <= codes[c].attempts + Cardinality(Attempting(c)) + Lost
  /\ codes[c].status = "row" /\ ~codes[c].locked =>
       compared[c] <= MaxAttempts - 1 + Cardinality(Pending(c)) + Lost
  /\ compared[c] <= MaxAttempts - 1 + Cardinality(Request) + Lost

GuessesInv == \A c \in CodeId : GuessInv(c)

LEMMA LostFacts ==
  ASSUME IsFiniteSet(Request), NEW f \in Nat
  PROVE  /\ Cardinality(Request) \in Nat /\ Cardinality(Request) * f \in Nat
         /\ Cardinality(Request) * (f + 1) = Cardinality(Request) * f + Cardinality(Request)
<1> DEFINE n == Cardinality(Request)
<1>1. n \in Nat
  BY FS_CardinalityType
<1> HIDE DEF n
<1>2. n * f \in Nat /\ n * (f + 1) = n * f + n
  BY <1>1
<1> QED BY <1>1, <1>2 DEF n

\* A set of requests, and the same with one of them more or less.
LEMMA OneMore ==
  ASSUME IsFiniteSet(Request), NEW S \in SUBSET Request, NEW r \in Request
  PROVE  /\ IsFiniteSet(S) /\ Cardinality(S) \in Nat /\ Cardinality(S) <= Cardinality(Request)
         /\ r \notin S => Cardinality(S \cup {r}) = Cardinality(S) + 1
         /\ r \in S => Cardinality(S \ {r}) = Cardinality(S) - 1
<1>1. IsFiniteSet(S) /\ Cardinality(S) <= Cardinality(Request)
  BY FS_Subset
<1> QED BY <1>1, FS_CardinalityType, FS_AddElement, FS_RemoveElement

\* Steps that neither compare a guess nor count one, and meet no fault.
LEMMA CalmStep ==
  ASSUME GuessesInv, compared' = compared, faults' = faults,
         \A q \in Request : \/ proc'[q] = proc[q]
                            \/ proc[q].pc \notin Guessing /\ proc'[q].pc \notin Guessing,
         \A c \in CodeId : codes'[c] = codes[c] \/ codes'[c].status = "deleted"
  PROVE  GuessesInv'
<1> SUFFICES ASSUME NEW c \in CodeId PROVE GuessInv(c)'
  BY DEF GuessesInv
<1>1. Attempting(c)' = Attempting(c) /\ Pending(c)' = Pending(c) /\ Lost' = Lost
  BY DEF Attempting, Pending, Guessing, At, Lost
<1>2. CASE codes'[c] = codes[c]
  BY <1>1, <1>2 DEF GuessesInv, GuessInv
<1>3. CASE codes'[c].status = "deleted"
  BY <1>1, <1>3 DEF GuessesInv, GuessInv
<1> QED BY <1>2, <1>3

\* A fault may end any number of requests.
LEMMA FaultStep ==
  ASSUME IsFiniteSet(Request), TypeOK, GuessesInv,
         compared' = compared, codes' = codes, faults' = faults + 1
  PROVE  GuessesInv'
<1> SUFFICES ASSUME NEW c \in CodeId PROVE GuessInv(c)'
  BY DEF GuessesInv
<1>1. Lost' = Lost + Cardinality(Request) /\ Lost \in Nat /\ Cardinality(Request) \in Nat
  BY LostFacts, Shapes DEF Lost
<1>2. \A S \in SUBSET Request : Cardinality(S) \in Nat /\ Cardinality(S) <= Cardinality(Request)
  BY FS_Subset, FS_CardinalityType
<1>3. /\ Attempting(c) \in SUBSET Request /\ Attempting(c)' \in SUBSET Request
      /\ Pending(c) \in SUBSET Request /\ Pending(c)' \in SUBSET Request
  BY DEF Attempting, Pending
<1>4. /\ Cardinality(Attempting(c)) \in Nat /\ Cardinality(Attempting(c)') \in Nat
      /\ Cardinality(Pending(c)) \in Nat /\ Cardinality(Pending(c)') \in Nat
      /\ Cardinality(Attempting(c)) <= Cardinality(Request)
      /\ Cardinality(Pending(c)) <= Cardinality(Request)
  BY <1>2, <1>3
<1>5. compared[c] \in Nat /\ codes[c].attempts \in Nat /\ MaxAttempts - 1 \in Nat
  BY Shapes, UserAuthAssumption DEF CodeRow
<1>6. GuessInv(c)
  BY DEF GuessesInv
<1> QED BY <1>1, <1>4, <1>5, <1>6 DEF GuessInv

\* What a step of one request does to the two sets.
LEMMA SlotSets ==
  ASSUME IsFiniteSet(Request), NEW r \in Request, NEW c,
         \A q \in Request : q # r => proc'[q] = proc[q]
  PROVE  /\ proc'[r].pc = "v_attempt" /\ proc'[r].code = c =>
              /\ Attempting(c)' = Attempting(c) \cup {r} /\ Pending(c)' = Pending(c) \cup {r}
         /\ ~(proc'[r].pc = "v_attempt" /\ proc'[r].code = c) =>
              Attempting(c)' = Attempting(c) \ {r}
         /\ proc'[r].pc \in Guessing /\ proc'[r].code = c => Pending(c)' = Pending(c) \cup {r}
         /\ ~(proc'[r].pc \in Guessing /\ proc'[r].code = c) => Pending(c)' = Pending(c) \ {r}
  BY DEF Attempting, Pending, Guessing, At

\* A step of a request that guesses at no other code leaves the others' sets alone.
LEMMA OtherCode ==
  ASSUME GuessesInv, NEW r \in Request, NEW c \in CodeId,
         \A q \in Request : q # r => proc'[q] = proc[q],
         proc[r].pc \in Guessing => proc[r].code # c,
         proc'[r].pc \in Guessing => proc'[r].code # c,
         compared'[c] = compared[c], faults' = faults, codes'[c] = codes[c]
  PROVE  GuessInv(c)'
<1>1. Attempting(c)' = Attempting(c) /\ Pending(c)' = Pending(c) /\ Lost' = Lost
  BY DEF Attempting, Pending, Guessing, At, Lost
<1> QED BY <1>1 DEF GuessesInv, GuessInv

LEMMA SelectGuess ==
  ASSUME IsFiniteSet(Request), TypeOK, GuessesInv, NEW r \in Request, NEW c \in CodeId,
         VerifySelect(r, c)
  PROVE  GuessesInv'
<1> DEFINE match == codes[c].digits = proc[r].digits
           p == [proc[r] EXCEPT !.pc = IF match THEN "v_consume" ELSE "v_attempt", !.code = c]
<1>1. /\ \A q \in Request : q # r => proc'[q] = proc[q]
      /\ proc'[r].pc = IF match THEN "v_consume" ELSE "v_attempt"
      /\ proc'[r].code = c /\ proc[r].pc = "v_select"
      /\ codes' = codes /\ faults' = faults
  <2>1. p.pc = (IF match THEN "v_consume" ELSE "v_attempt") /\ p.code = c
    BY Shapes DEF Proc
  <2>2. proc' = [proc EXCEPT ![r] = p]
    BY DEF VerifySelect
  <2> QED BY <2>1, <2>2, Shapes DEF VerifySelect, At, tables
<1>2. CASE match
  <2>1. compared' = compared
    BY <1>2 DEF VerifySelect
  <2> QED BY <1>1, <1>2, <2>1, CalmStep DEF Guessing
<1>3. CASE ~match
  <2>1. /\ compared'[c] = compared[c] + 1 /\ \A d \in CodeId : d # c => compared'[d] = compared[d]
        /\ compared[c] \in Nat
    BY <1>3, Shapes DEF VerifySelect
  <2> HIDE DEF match
  <2>2. ASSUME NEW d \in CodeId, d # c PROVE GuessInv(d)'
    BY <1>1, <2>1, <2>2, OtherCode DEF Guessing
  <2>3. GuessInv(c)'
    <3>1. codes[c].status = "row" /\ ~codes[c].locked
      BY DEF VerifySelect, Newest, Usable
    <3>2. r \notin Attempting(c) /\ r \notin Pending(c)
      BY <1>1 DEF Attempting, Pending, Guessing, At
    <3>3. Attempting(c)' = Attempting(c) \cup {r} /\ Pending(c)' = Pending(c) \cup {r}
      BY <1>1, <1>3, SlotSets
    <3>4. /\ Attempting(c) \in SUBSET Request /\ Pending(c) \in SUBSET Request
          /\ Pending(c)' \in SUBSET Request
      BY DEF Attempting, Pending
    <3>5. /\ Cardinality(Attempting(c)') = Cardinality(Attempting(c)) + 1
          /\ Cardinality(Pending(c)') = Cardinality(Pending(c)) + 1
          /\ Cardinality(Attempting(c)) \in Nat /\ Cardinality(Pending(c)) \in Nat
          /\ Cardinality(Pending(c)') <= Cardinality(Request)
      BY <3>2, <3>3, <3>4, OneMore
    <3>6. Lost' = Lost /\ Lost \in Nat /\ Cardinality(Request) \in Nat
      BY <1>1, Shapes, LostFacts DEF Lost
    <3>7. codes[c].attempts \in Nat /\ MaxAttempts \in Nat
      BY Shapes, UserAuthAssumption DEF CodeRow
    <3>8. GuessInv(c)
      BY DEF GuessesInv
    <3> QED BY <1>1, <2>1, <3>1, <3>5, <3>6, <3>7, <3>8 DEF GuessInv
  <2> QED BY <2>2, <2>3 DEF GuessesInv
<1> QED BY <1>2, <1>3

LEMMA AttemptGuess ==
  ASSUME IsFiniteSet(Request), TypeOK, GuessesInv, NEW r \in Request, VerifyAttempt(r)
  PROVE  GuessesInv'
<1>1. /\ \A q \in Request : q # r => proc'[q] = proc[q]
      /\ proc[r].pc = "v_attempt"
      /\ proc'[r].pc # "idle" => proc'[r].pc = "v_lock" /\ proc'[r].code = proc[r].code
      /\ compared' = compared /\ faults' = faults
  <2>1. CASE Goto(r, "v_lock")
    BY <2>1, GotoSlots DEF VerifyAttempt, At
  <2>2. CASE Reply(r, "error")
    BY <2>2, Shapes DEF VerifyAttempt, At, Reply, Idle
  <2> QED BY <2>1, <2>2 DEF VerifyAttempt
<1>2. ASSUME NEW d \in CodeId, d # proc[r].code PROVE GuessInv(d)'
  <2>1. codes'[d] = codes[d]
    BY <1>2, Shapes DEF VerifyAttempt
  <2> QED BY <1>1, <1>2, <2>1, OtherCode DEF Guessing
<1>3. ASSUME NEW c \in CodeId, c = proc[r].code PROVE GuessInv(c)'
  <2>0. /\ Lost' = Lost /\ Lost \in Nat /\ Cardinality(Request) \in Nat
        /\ compared[c] \in Nat /\ codes[c].attempts \in Nat /\ MaxAttempts \in Nat \ {0}
    BY <1>1, <1>3, Shapes, LostFacts, UserAuthAssumption DEF Lost, CodeRow
  <2>1. GuessInv(c)
    BY <1>3 DEF GuessesInv
  <2>2. CASE codes[c].status # "row"
    <3>1. codes' = codes
      BY <1>3, <2>2 DEF VerifyAttempt
    <3> QED BY <1>1, <2>0, <2>1, <2>2, <3>1 DEF GuessInv
  <2>3. CASE codes[c].status = "row"
    <3>1. /\ codes'[c].attempts = codes[c].attempts + 1 /\ codes'[c].status = "row"
          /\ codes'[c].locked = codes[c].locked
      BY <1>3, <2>3, Shapes DEF VerifyAttempt, CodeRow
    <3>2. r \in Attempting(c) /\ r \in Pending(c)
      BY <1>1, <1>3 DEF Attempting, Pending, Guessing, At
    <3>3. Attempting(c)' = Attempting(c) \ {r}
      BY <1>1, SlotSets DEF Guessing
    <3>4. /\ Attempting(c) \in SUBSET Request /\ Attempting(c)' \in SUBSET Pending(c)'
          /\ Pending(c) \in SUBSET Request /\ Pending(c)' \in SUBSET Request
      BY DEF Attempting, Pending, Guessing, At
    <3>5. /\ Cardinality(Attempting(c)') = Cardinality(Attempting(c)) - 1
          /\ Cardinality(Attempting(c)) \in Nat
          /\ Cardinality(Pending(c)) \in Nat /\ Cardinality(Pending(c)') \in Nat
      BY <3>2, <3>3, <3>4, OneMore
    <3>6. Cardinality(Attempting(c)') \in Nat
          /\ Cardinality(Attempting(c)') <= Cardinality(Pending(c)')
      BY <3>4, OneMore, FS_Subset, FS_CardinalityType
    <3>7. compared'[c] <= codes'[c].attempts + Cardinality(Attempting(c)') + Lost'
      BY <1>1, <2>0, <2>1, <2>3, <3>1, <3>5 DEF GuessInv
    <3>8. CASE codes[c].attempts + 1 >= MaxAttempts
      <4>1. Goto(r, "v_lock")
        BY <1>3, <2>3, <3>8 DEF VerifyAttempt
      <4>2. proc'[r].pc = "v_lock" /\ proc'[r].code = c
        BY <1>3, <4>1, GotoSlots
      <4>3. Pending(c)' = Pending(c)
        BY <1>1, <3>2, <4>2, SlotSets DEF Guessing
      <4> QED BY <1>1, <2>0, <2>1, <2>3, <3>1, <3>7, <4>3 DEF GuessInv
    <3>9. CASE codes[c].attempts + 1 < MaxAttempts
      <4>1. compared'[c] <= MaxAttempts - 1 + Cardinality(Pending(c)') + Lost'
        BY <1>1, <2>0, <3>1, <3>5, <3>6, <3>7, <3>9
      <4> QED BY <1>1, <2>0, <2>1, <2>3, <3>1, <3>7, <4>1 DEF GuessInv
    <3> QED BY <2>0, <3>8, <3>9
  <2> QED BY <2>2, <2>3
<1> QED BY <1>2, <1>3 DEF GuessesInv

LEMMA LockGuess ==
  ASSUME IsFiniteSet(Request), TypeOK, GuessesInv, NEW r \in Request, VerifyLock(r)
  PROVE  GuessesInv'
<1>1. /\ \A q \in Request : q # r => proc'[q] = proc[q]
      /\ proc[r].pc = "v_lock" /\ proc'[r].pc = "idle"
      /\ compared' = compared /\ faults' = faults
  BY Shapes DEF VerifyLock, At, Reply, Idle
<1>2. ASSUME NEW d \in CodeId, d # proc[r].code PROVE GuessInv(d)'
  <2>1. codes'[d] = codes[d]
    BY <1>2, Shapes DEF VerifyLock
  <2> QED BY <1>1, <1>2, <2>1, OtherCode DEF Guessing
<1>3. ASSUME NEW c \in CodeId, c = proc[r].code PROVE GuessInv(c)'
  <2>1. GuessInv(c) /\ Lost' = Lost
    BY <1>1, <1>3 DEF GuessesInv, Lost
  <2>2. Attempting(c)' = Attempting(c)
    BY <1>1 DEF Attempting, At
  <2>3. CASE codes[c].status = "row"
    <3>1. /\ codes'[c].status = "row" /\ codes'[c].locked
          /\ codes'[c].attempts = codes[c].attempts
      BY <1>3, <2>3, Shapes DEF VerifyLock, CodeRow
    <3> QED BY <1>1, <2>1, <2>2, <2>3, <3>1 DEF GuessInv
  <2>4. CASE codes[c].status # "row"
    <3>1. codes' = codes
      BY <1>3, <2>4 DEF VerifyLock
    <3> QED BY <1>1, <2>1, <2>4, <3>1 DEF GuessInv
  <2> QED BY <2>3, <2>4
<1> QED BY <1>2, <1>3 DEF GuessesInv

LEMMA StoreGuess ==
  ASSUME IsFiniteSet(Request), TypeOK, FreshIds, GuessesInv, NEW r \in Request, NEW d \in Digits,
         StoreCode(r, d)
  PROVE  GuessesInv'
<1>0. serial.code + 1 \in CodeId
  BY SerialShape, UserAuthAssumption DEF StoreCode, CodeId
<1>i. PICK n \in CodeId : n = serial.code + 1
  BY <1>0
<1>1. codes[n].status = "none"
  BY <1>i, SerialShape DEF FreshIds
<1>2. /\ \A c \in CodeId : c # n => codes'[c] = codes[c]
      /\ codes'[n].status = "row" /\ codes'[n].attempts = 0 /\ ~codes'[n].locked
  BY <1>i, Shapes DEF StoreCode
<1>3. /\ \A q \in Request : q # r => proc'[q] = proc[q]
      /\ proc[r].pc = "rc_store" /\ proc'[r].pc = "rc_send"
      /\ compared' = compared /\ faults' = faults
  BY GotoSlots DEF StoreCode, At
<1>4. ASSUME NEW c \in CodeId, c # n PROVE GuessInv(c)'
  BY <1>2, <1>3, <1>4, OtherCode DEF Guessing
<1>5. GuessInv(n)'
  <2>1. compared'[n] = 0 /\ GuessInv(n)
    BY <1>1, <1>3 DEF GuessesInv, GuessInv
  <2>2. Lost' = Lost /\ Lost \in Nat /\ Cardinality(Request) \in Nat /\ MaxAttempts \in Nat \ {0}
    BY <1>3, Shapes, LostFacts, UserAuthAssumption DEF Lost
  <2>3. Attempting(n)' \in SUBSET Request /\ Pending(n)' \in SUBSET Request
    BY DEF Attempting, Pending
  <2>4. Cardinality(Attempting(n)') \in Nat /\ Cardinality(Pending(n)') \in Nat
    BY <2>3, OneMore
  <2> QED BY <1>2, <2>1, <2>2, <2>4 DEF GuessInv
<1> QED BY <1>4, <1>5 DEF GuessesInv

\* Requests elsewhere reply, jump or take a note.
LEMMA ElsewhereStep ==
  ASSUME TypeOK, GuessesInv, NEW r \in Request, proc[r].pc \notin Guessing,
         codes' = codes, compared' = compared, faults' = faults
  PROVE  /\ \A resp : Reply(r, resp) => GuessesInv'
         /\ \A step : step \notin Guessing /\ Goto(r, step) => GuessesInv'
         /\ \A p : p.pc \notin Guessing /\ proc' = [proc EXCEPT ![r] = p] => GuessesInv'
<1>1. ASSUME NEW p, p.pc \notin Guessing, proc' = [proc EXCEPT ![r] = p]
      PROVE  GuessesInv'
  BY <1>1, UpdateSlots, CalmStep
<1>2. ASSUME NEW resp, Reply(r, resp) PROVE GuessesInv'
  <2>1. Idle(resp).pc \notin Guessing
    BY DEF Idle, Guessing
  <2> QED BY <1>1, <1>2, <2>1 DEF Reply
<1>3. ASSUME NEW step, step \notin Guessing, Goto(r, step) PROVE GuessesInv'
  BY <1>3, GotoSlots, CalmStep
<1> QED BY <1>1, <1>2, <1>3

LEMMA GuessStep ==
  ASSUME IsFiniteSet(Request), TypeOK, FreshIds, GuessesInv, [Next]_vars
  PROVE  GuessesInv'
<1>0. \A r \in Request : proc[r] \in Proc
  BY Shapes
<1>rc. ASSUME NEW r \in Request, RequestCode(r) PROVE GuessesInv'
  <2>1. ASSUME NEW e \in Email, RequestCodeBegin(r, e) PROVE GuessesInv'
    <3>1. [Idle("none") EXCEPT !.pc = "rc_lookup", !.email = e].pc \notin Guessing
      BY DEF Idle, Guessing
    <3> QED BY <2>1, <3>1, ElsewhereStep DEF RequestCodeBegin, At, tables, Guessing
  <2>2. CASE RequestCodeRefused(r)
    BY <2>2, ElsewhereStep DEF RequestCodeRefused, At, tables, Guessing
  <2>3. CASE SignupConflict(r)
    BY <2>3, ElsewhereStep DEF SignupConflict, At, tables, Guessing
  <2>4. CASE SendMail(r)
    BY <2>4, ElsewhereStep DEF SendMail, At, tables, Guessing
  <2>5. CASE LookupUser(r)
    BY <2>5, ElsewhereStep DEF LookupUser, At, tables, Guessing
  <2>6. CASE SignupReadback(r)
    <3>1. Goto(r, "rc_store") \/ Reply(r, "error")
      BY <2>6 DEF SignupReadback
    <3> QED BY <2>6, <3>1, ElsewhereStep DEF SignupReadback, At, tables, Guessing
  <2>7. CASE SignupInsert(r)
    <3>1. \A u : [proc[r] EXCEPT !.pc = "rc_readback", !.user = u].pc \notin Guessing
      BY <1>0 DEF Proc, Guessing
    <3> QED BY <2>7, <3>1, ElsewhereStep DEF SignupInsert, At, Guessing
  <2>8. ASSUME NEW d \in Digits, StoreCode(r, d) PROVE GuessesInv'
    BY <2>8, StoreGuess
  <2> QED BY <1>rc, <2>1, <2>2, <2>3, <2>4, <2>5, <2>6, <2>7, <2>8 DEF RequestCode
<1>v. ASSUME NEW r \in Request, VerifyCode(r) PROVE GuessesInv'
  <2>1. ASSUME NEW e \in Email, NEW d \in Digits, VerifyBegin(r, e, d) PROVE GuessesInv'
    <3>1. [Idle("none") EXCEPT !.pc = "v_select", !.email = e, !.digits = d, !.at = now].pc
            \notin Guessing
      BY DEF Idle, Guessing
    <3> QED BY <2>1, <3>1, ElsewhereStep DEF VerifyBegin, At, tables, Guessing
  <2>2. CASE VerifyNoCode(r)
    BY <2>2, ElsewhereStep DEF VerifyNoCode, At, tables, Guessing
  <2>3. ASSUME NEW c \in CodeId, VerifySelect(r, c) PROVE GuessesInv'
    BY <2>3, SelectGuess
  <2>4. CASE VerifyAttempt(r)
    BY <2>4, AttemptGuess
  <2>5. CASE VerifyLock(r)
    BY <2>5, LockGuess
  <2>6. CASE VerifyConsume(r)
    <3>1. \A c \in CodeId : codes'[c] = codes[c] \/ codes'[c].status = "deleted"
      BY <2>6, Shapes DEF VerifyConsume, CodeRow
    <3>2. proc[r].pc \notin Guessing /\ compared' = compared /\ faults' = faults
      BY <2>6 DEF VerifyConsume, At, Guessing
    <3>3. CASE Goto(r, "v_user")
      BY <3>1, <3>2, <3>3, GotoSlots, CalmStep DEF Guessing
    <3>4. CASE Reply(r, "error")
      <4>1. Idle("error").pc \notin Guessing
        BY DEF Idle, Guessing
      <4> QED BY <3>1, <3>2, <3>4, <4>1, UpdateSlots, CalmStep DEF Reply
    <3> QED BY <2>6, <3>3, <3>4 DEF VerifyConsume
  <2>7. CASE VerifyUser(r)
    <3>1. \A u : [proc[r] EXCEPT !.pc = "v_mint", !.user = u].pc \notin Guessing
      BY <1>0 DEF Proc, Guessing
    <3> QED BY <2>7, <3>1, ElsewhereStep DEF VerifyUser, At, tables, Guessing
  <2>8. CASE VerifyMint(r)
    <3>1. \A s : [proc[r] EXCEPT !.pc = "v_load", !.tok = s].pc \notin Guessing
      BY <1>0 DEF Proc, Guessing
    <3> QED BY <2>8, <3>1, ElsewhereStep DEF VerifyMint, At, Guessing
  <2>9. CASE VerifyLoad(r)
    BY <2>9, ElsewhereStep DEF VerifyLoad, At, tables, Guessing
  <2> QED BY <1>v, <2>1, <2>2, <2>3, <2>4, <2>5, <2>6, <2>7, <2>8, <2>9 DEF VerifyCode
<1>s. ASSUME NEW r \in Request, UseSession(r) PROVE GuessesInv'
  <2>1. ASSUME NEW s \in SessionId, Logout(r, s) PROVE GuessesInv'
    BY <2>1, ElsewhereStep DEF Logout, At, Guessing
  <2>2. ASSUME NEW s \in SessionId, SessionBegin(r, s) PROVE GuessesInv'
    <3>1. [Idle("none") EXCEPT !.pc = "s_select", !.tok = s, !.at = now].pc \notin Guessing
      BY DEF Idle, Guessing
    <3> QED BY <2>2, <3>1, ElsewhereStep DEF SessionBegin, At, tables, Guessing
  <2>3. CASE SessionSelect(r)
    <3>1. \A u : [proc[r] EXCEPT !.pc = "s_touch", !.user = u].pc \notin Guessing
      BY <1>0 DEF Proc, Guessing
    <3> QED BY <2>3, <3>1, ElsewhereStep DEF SessionSelect, At, tables, Guessing
  <2>4. CASE SessionTouch(r)
    BY <2>4, ElsewhereStep DEF SessionTouch, At, Guessing
  <2>5. CASE SessionLoad(r)
    BY <2>5, ElsewhereStep DEF SessionLoad, At, tables, Guessing
  <2> QED BY <1>s, <2>1, <2>2, <2>3, <2>4, <2>5 DEF UseSession
<1>c. CASE SweepCodes
  <2>1. \A c \in CodeId : codes'[c] = codes[c] \/ codes'[c].status = "deleted"
    BY <1>c, Shapes DEF SweepCodes, CodeRow
  <2> QED BY <1>c, <2>1, CalmStep DEF SweepCodes
<1>w. CASE SweepTick \/ SweepSessions \/ SweepFails \/ (\E u \in UserId : DeleteUser(u))
           \/ Tick \/ UNCHANGED vars
  BY <1>w, CalmStep DEF SweepTick, SweepSessions, SweepFails, DeleteUser, Tick, tables, vars
<1>f. CASE \/ Restart
           \/ \E r \in Request : StatementFails(r) \/ \E s \in SessionId : LogoutFails(r, s)
  BY <1>f, FaultStep DEF Restart, StatementFails, LogoutFails, tables
<1> QED BY <1>rc, <1>v, <1>s, <1>c, <1>w, <1>f DEF Next, Sweeper

\* Wrong guesses that race past the limit are bounded by the requests that can race, for
\* any number of codes, attempts, requests and faults (verify-code).
THEOREM GuessesBoundedHolds ==
  ASSUME IsFiniteSet(Request)
  PROVE  Spec => []GuessesBounded
<1>1. ASSUME Init PROVE GuessesInv
  <2> SUFFICES ASSUME NEW c \in CodeId PROVE GuessInv(c)
    BY DEF GuessesInv
  <2>1. codes[c].status = "none" /\ compared[c] = 0 /\ faults = 0
    BY <1>1 DEF Init
  <2>2. Lost \in Nat /\ Cardinality(Request) \in Nat /\ MaxAttempts \in Nat \ {0}
    BY <2>1, LostFacts, UserAuthAssumption DEF Lost
  <2> QED BY <2>1, <2>2 DEF GuessInv
<1>2. ASSUME TypeOK, GuessesInv PROVE GuessesBounded
  <2> SUFFICES ASSUME NEW c \in CodeId
               PROVE  /\ codes[c].status = "row" =>
                           compared[c] <= codes[c].attempts + Cardinality(Attempting(c)) + Lost
                      /\ compared[c] <= MaxAttempts - 1 + Cardinality(Request) * (faults + 1)
    BY DEF GuessesBounded, Lost
  <2>1. /\ Cardinality(Request) * (faults + 1) = Lost + Cardinality(Request) /\ Lost \in Nat
        /\ Cardinality(Request) \in Nat /\ MaxAttempts \in Nat /\ compared[c] \in Nat
    BY <1>2, LostFacts, Shapes, UserAuthAssumption DEF Lost
  <2>2. GuessInv(c)
    BY <1>2 DEF GuessesInv
  <2> HIDE DEF Lost
  <2> QED BY <2>1, <2>2 DEF GuessInv
<1>3. ASSUME SignInInvariant, GuessesInv, [Next]_vars PROVE GuessesInv'
  BY <1>3, GuessStep DEF SignInInvariant
<1>4. SignInInvariant => TypeOK
  BY DEF SignInInvariant
<1> QED BY <1>1, <1>2, <1>3, <1>4, SignInInvariantHolds, PTL DEF Spec
-----------------------------------------------------------------------------
(* The sweeper.                                                            *)

\* A sweep works with a time that has been.
SweepInPast == sweep.at <= now

LEMMA SweepInPastStep == TypeOK /\ SweepInPast /\ [Next]_vars => SweepInPast'
<1> SUFFICES ASSUME TypeOK, SweepInPast, [Next]_vars PROVE SweepInPast'
  OBVIOUS
<1> USE DEF SweepInPast
<1>1. now \in Nat /\ sweep \in [pc : {"wait", "codes", "sessions", "off"}, at : Nat]
  BY DEF TypeOK
<1>2. CASE UNCHANGED <<now, sweep>>
  BY <1>2
<1>3. CASE Sweeper
  BY <1>1, <1>3 DEF Sweeper, SweepTick, SweepCodes, SweepSessions, SweepFails
<1>4. CASE Tick
  BY <1>1, <1>4 DEF Tick
<1>5. CASE Restart
  BY <1>1, <1>5 DEF Restart
<1>6. UNCHANGED <<now, sweep>> \/ Sweeper \/ Tick \/ Restart
  BY DEF Next, RequestCode, VerifyCode, UseSession, vars,
     RequestCodeBegin, RequestCodeRefused, LookupUser, SignupInsert, SignupConflict,
     SignupReadback, StoreCode, SendMail, VerifyBegin, VerifyNoCode, VerifySelect,
     VerifyAttempt, VerifyLock, VerifyConsume, VerifyUser, VerifyMint, VerifyLoad,
     Logout, SessionBegin, SessionSelect, SessionTouch, SessionLoad, DeleteUser,
     StatementFails, LogoutFails
<1> QED BY <1>2, <1>3, <1>4, <1>5, <1>6

\* What a sweep deletes had expired before the sweep began.
LEMMA SweepDeletes ==
  ASSUME TypeOK, SweepInPast, [Next]_vars, sweep' # sweep
  PROVE  /\ \A s \in SessionId :
              sessions'[s].status # sessions[s].status => sessions[s].expires < now
         /\ \A c \in CodeId :
              codes'[c].status # codes[c].status => codes[c].expires < now
<1>1. /\ now \in Nat /\ sweep.at \in Nat /\ SweepGrace \in Nat
      /\ \A s \in SessionId : sessions[s].expires \in Nat
      /\ \A c \in CodeId : codes[c].expires \in Nat
  BY UserAuthAssumption DEF TypeOK, CodeRow, SessionRow
<1>2. CASE SweepCodes
  BY <1>1, <1>2 DEF SweepCodes, SweepInPast
<1>3. CASE SweepSessions
  BY <1>1, <1>3 DEF SweepSessions, SweepInPast
<1>4. CASE UNCHANGED <<codes, sessions>>
  BY <1>4
<1>5. SweepCodes \/ SweepSessions \/ UNCHANGED <<codes, sessions>>
  BY DEF Next, RequestCode, VerifyCode, UseSession, Sweeper, vars, tables,
     RequestCodeBegin, RequestCodeRefused, LookupUser, SignupInsert, SignupConflict,
     SignupReadback, StoreCode, SendMail, VerifyBegin, VerifyNoCode, VerifySelect,
     VerifyAttempt, VerifyLock, VerifyConsume, VerifyUser, VerifyMint, VerifyLoad,
     Logout, SessionBegin, SessionSelect, SessionTouch, SessionLoad, SweepTick,
     SweepFails, DeleteUser, Tick, Restart, StatementFails, LogoutFails
<1> QED BY <1>2, <1>3, <1>4, <1>5

\* A sweep deletes no session and no code that a request could still be served with,
\* although it works with the time at which it began.
THEOREM SweepSparesLiveHolds == Spec => SweepSparesLive
<1>1. Init => SweepInPast
  BY DEF Init, SweepInPast
<1>2. TypeOK /\ SweepInPast /\ [Next]_vars
        => [sweep' # sweep =>
              /\ \A s \in SessionId :
                   sessions'[s].status # sessions[s].status => sessions[s].expires < now
              /\ \A c \in CodeId :
                   codes'[c].status # codes[c].status => codes[c].expires < now]_vars
  BY SweepDeletes
<1> QED BY <1>1, <1>2, SweepInPastStep, TypeCorrect, PTL DEF Spec, SweepSparesLive

-----------------------------------------------------------------------------
(* The handlers, the sweeper and the tables implement OneTimeCode.          *)

\* A request that may sign a user up, or store a code, has the address it was sent.
Addressing == {"rc_lookup", "rc_signup", "rc_readback", "rc_store"}
Addressed == \A r \in Request : proc[r].pc \in Addressing => proc[r].email \in Email

\* Only request-code comes to those steps, and it keeps the address.
AddressKept(q) == proc'[q].pc \in Addressing =>
  \/ proc'[q].email \in Email
  \/ proc[q].pc \in Addressing /\ proc'[q].email = proc[q].email

LEMMA AddressGoto ==
  ASSUME NEW r \in Request, NEW step, TypeOK, Goto(r, step),
         step \in Addressing => proc[r].pc \in Addressing
  PROVE  \A q \in Request : AddressKept(q)
  BY GotoSlots DEF AddressKept

LEMMA AddressReply ==
  ASSUME NEW r \in Request, NEW resp, TypeOK, Reply(r, resp)
  PROVE  \A q \in Request : AddressKept(q)
  BY Shapes DEF Reply, Idle, AddressKept, Addressing

LEMMA AddressUpdate ==
  ASSUME NEW r \in Request, NEW p, TypeOK, proc' = [proc EXCEPT ![r] = p],
         p.pc \in Addressing =>
           p.email \in Email \/ (proc[r].pc \in Addressing /\ p.email = proc[r].email)
  PROVE  \A q \in Request : AddressKept(q)
  BY UpdateSlots DEF AddressKept

LEMMA AddressStep ==
  ASSUME TypeOK, [Next]_vars
  PROVE  \A q \in Request : AddressKept(q)
<1>rc. ASSUME NEW r \in Request, RequestCode(r) PROVE \A q \in Request : AddressKept(q)
  <2>1. ASSUME NEW e \in Email, RequestCodeBegin(r, e) PROVE \A q \in Request : AddressKept(q)
    <3>1. [Idle("none") EXCEPT !.pc = "rc_lookup", !.email = e].email = e
      BY DEF Idle
    <3> QED BY <2>1, <3>1, AddressUpdate DEF RequestCodeBegin
  <2>2. CASE RequestCodeRefused(r) \/ SignupConflict(r) \/ SendMail(r)
    BY <2>2, AddressReply DEF RequestCodeRefused, SignupConflict, SendMail
  <2>3. CASE LookupUser(r)
    BY <2>3, AddressGoto DEF LookupUser, Addressing, At
  <2>4. CASE SignupInsert(r)
    <3>1. \A u : [proc[r] EXCEPT !.pc = "rc_readback", !.user = u].email = proc[r].email
      BY Shapes DEF Proc
    <3> QED BY <2>4, <3>1, AddressUpdate DEF SignupInsert, Addressing, At
  <2>5. CASE SignupReadback(r)
    BY <2>5, AddressGoto, AddressReply DEF SignupReadback, Addressing, At
  <2>6. ASSUME NEW d \in Digits, StoreCode(r, d) PROVE \A q \in Request : AddressKept(q)
    BY <2>6, AddressGoto DEF StoreCode, Addressing
  <2> QED BY <1>rc, <2>1, <2>2, <2>3, <2>4, <2>5, <2>6 DEF RequestCode
<1>v. ASSUME NEW r \in Request, VerifyCode(r) PROVE \A q \in Request : AddressKept(q)
  <2>1. ASSUME NEW e \in Email, NEW d \in Digits, VerifyBegin(r, e, d)
        PROVE  \A q \in Request : AddressKept(q)
    <3>1. [Idle("none") EXCEPT !.pc = "v_select", !.email = e, !.digits = d,
                               !.at = now].email = e
      BY DEF Idle
    <3> QED BY <2>1, <3>1, AddressUpdate DEF VerifyBegin
  <2>2. CASE VerifyNoCode(r) \/ VerifyLoad(r) \/ VerifyLock(r)
    BY <2>2, AddressReply DEF VerifyNoCode, VerifyLoad, VerifyLock
  <2>3. ASSUME NEW c \in CodeId, VerifySelect(r, c) PROVE \A q \in Request : AddressKept(q)
    <3> DEFINE step == IF codes[c].digits = proc[r].digits THEN "v_consume" ELSE "v_attempt"
               p == [proc[r] EXCEPT !.pc = step, !.code = c]
    <3>1. p.pc = step /\ step \notin Addressing
      BY Shapes DEF Proc, Addressing
    <3>2. proc' = [proc EXCEPT ![r] = p]
      BY <2>3 DEF VerifySelect
    <3> HIDE DEF p, step
    <3> QED BY <3>1, <3>2, AddressUpdate
  <2>4. CASE VerifyAttempt(r) \/ VerifyConsume(r)
    BY <2>4, AddressGoto, AddressReply DEF VerifyAttempt, VerifyConsume, Addressing
  <2>5. CASE VerifyUser(r)
    <3>1. \A u : [proc[r] EXCEPT !.pc = "v_mint", !.user = u].pc \notin Addressing
      BY Shapes DEF Proc, Addressing
    <3> QED BY <2>5, <3>1, AddressUpdate, AddressReply DEF VerifyUser
  <2>6. CASE VerifyMint(r)
    <3>1. \A s : [proc[r] EXCEPT !.pc = "v_load", !.tok = s].pc \notin Addressing
      BY Shapes DEF Proc, Addressing
    <3> QED BY <2>6, <3>1, AddressUpdate DEF VerifyMint
  <2> QED BY <1>v, <2>1, <2>2, <2>3, <2>4, <2>5, <2>6 DEF VerifyCode
<1>s. ASSUME NEW r \in Request, UseSession(r) PROVE \A q \in Request : AddressKept(q)
  <2>1. CASE SessionLoad(r) \/ \E s \in SessionId : Logout(r, s)
    BY <2>1, AddressReply DEF SessionLoad, Logout
  <2>2. ASSUME NEW s \in SessionId, SessionBegin(r, s)
        PROVE  \A q \in Request : AddressKept(q)
    <3>1. [Idle("none") EXCEPT !.pc = "s_select", !.tok = s, !.at = now].pc \notin Addressing
      BY DEF Idle, Addressing
    <3> QED BY <2>2, <3>1, AddressUpdate DEF SessionBegin
  <2>3. CASE SessionSelect(r)
    <3>1. \A u : [proc[r] EXCEPT !.pc = "s_touch", !.user = u].pc \notin Addressing
      BY Shapes DEF Proc, Addressing
    <3> QED BY <2>3, <3>1, AddressUpdate, AddressReply DEF SessionSelect
  <2>4. CASE SessionTouch(r)
    BY <2>4, AddressGoto DEF SessionTouch, Addressing
  <2> QED BY <1>s, <2>1, <2>2, <2>3, <2>4 DEF UseSession
<1>w. CASE Sweeper \/ (\E u \in UserId : DeleteUser(u)) \/ Tick \/ UNCHANGED vars
  BY <1>w DEF Sweeper, SweepTick, SweepCodes, SweepSessions, SweepFails, DeleteUser, Tick,
     AddressKept, vars
<1>r. CASE Restart
  BY <1>r DEF Restart, Idle, AddressKept, Addressing
<1>f. ASSUME NEW r \in Request, StatementFails(r) PROVE \A q \in Request : AddressKept(q)
  BY <1>f, AddressGoto, AddressReply DEF StatementFails, Addressing, At
<1>l. ASSUME NEW r \in Request, NEW s \in SessionId, LogoutFails(r, s)
      PROVE  \A q \in Request : AddressKept(q)
  BY <1>l, AddressReply DEF LogoutFails
<1> QED
  BY <1>rc, <1>v, <1>s, <1>w, <1>r, <1>f, <1>l DEF Next

\* A session was bought with code c; a request that consumed it has yet to mint one.
Sold(c) == \E s \in SessionId : sessions[s].status # "none" /\ sessions[s].code = c
Held(c) == \E r \in Request : Redeems(r) /\ proc[r].code = c

\* How far each code has come: the row first, then who has what the row was worth.  The
\* session it bought belongs to the address it was sent to.
Traced ==
  \A c \in CodeId :
    /\ codes[c].status \in {"none", "row", "deleted"}
    /\ codes[c].status # "deleted" => ~Sold(c) /\ ~Held(c)
    /\ codes[c].status = "none" => StageOf(c) = "none"
    /\ codes[c].status = "row" => StageOf(c) = "issued"
    /\ codes[c].status = "deleted" /\ Sold(c) => StageOf(c) = "signed_in"
    /\ codes[c].status = "deleted" /\ ~Sold(c) /\ Held(c) => StageOf(c) = "redeeming"
    /\ codes[c].status = "deleted" /\ ~Sold(c) /\ ~Held(c) => StageOf(c) = "void"
    /\ HolderOf(c) = IF Sold(c) THEN codes[c].email ELSE None

LEMMA Tracing == SignInInvariant => Traced
<1> SUFFICES ASSUME SignInInvariant, NEW c \in CodeId
             PROVE  /\ codes[c].status \in {"none", "row", "deleted"}
                    /\ codes[c].status # "deleted" => ~Sold(c) /\ ~Held(c)
                    /\ codes[c].status = "none" => StageOf(c) = "none"
                    /\ codes[c].status = "row" => StageOf(c) = "issued"
                    /\ codes[c].status = "deleted" /\ Sold(c) => StageOf(c) = "signed_in"
                    /\ codes[c].status = "deleted" /\ ~Sold(c) /\ Held(c)
                         => StageOf(c) = "redeeming"
                    /\ codes[c].status = "deleted" /\ ~Sold(c) /\ ~Held(c)
                         => StageOf(c) = "void"
                    /\ HolderOf(c) = IF Sold(c) THEN codes[c].email ELSE None
  BY DEF Traced
<1>1. codes[c].status \in {"none", "row", "deleted"}
  BY DEF SignInInvariant, TypeOK, CodeRow, RowStatus
<1>2. codes[c].status # "deleted" => ~Sold(c) /\ ~Held(c)
  BY DEF SignInInvariant, SessionWasBought, RedeemerIsAlone, Sold, Held
<1>3. (BoughtBy(c) # {} <=> Sold(c)) /\ (Redeeming(c) # {} <=> Held(c))
  BY DEF BoughtBy, Redeeming, Sold, Held
<1>4. HolderOf(c) = IF Sold(c) THEN codes[c].email ELSE None
  <2>1. CASE BoughtBy(c) = {}
    BY <1>3, <2>1 DEF HolderOf
  <2>2. CASE BoughtBy(c) # {}
    <3> DEFINE s == CHOOSE x \in BoughtBy(c) : TRUE
    <3>1. s \in BoughtBy(c)
      BY <2>2
    <3> HIDE DEF s
    <3>2. users[sessions[s].user].email = codes[c].email
      BY <3>1 DEF SignInInvariant, SessionWasBought, BoughtBy
    <3> QED BY <1>3, <2>2, <3>2 DEF HolderOf, s
  <2> QED BY <2>1, <2>2
<1> QED BY <1>1, <1>2, <1>3, <1>4 DEF StageOf

LEMMA TracingNext == SignInInvariant' => Traced'
  BY Tracing, PTL

\* Who may issue a code, and who may start or end a redemption.
NoNewCode == \A c \in CodeId : codes[c].status = "none" =>
  codes'[c].status = "none" /\ codes'[c].email = codes[c].email
NoNewHolder == \A c \in CodeId : Held(c)' => Held(c)

LEMMA CodeIssue ==
  ASSUME TypeOK, [Next]_vars, \A r \in Request, d \in Digits : ~StoreCode(r, d)
  PROVE  NoNewCode
<1>1. CASE UNCHANGED codes
  BY <1>1 DEF NoNewCode
<1>2. CASE SweepCodes
  BY <1>2 DEF SweepCodes, NoNewCode
<1>3. ASSUME NEW r \in Request, VerifyAttempt(r) \/ VerifyLock(r) \/ VerifyConsume(r)
      PROVE  NoNewCode
  <2>1. \A c \in CodeId : codes[c].status = "none" => codes'[c] = codes[c]
    <3> DEFINE n == proc[r].code
    <3>1. codes' = codes \/ codes[n].status = "row"
      BY <1>3 DEF VerifyAttempt, VerifyLock, VerifyConsume
    <3>2. \/ codes' = codes
          \/ codes' = [codes EXCEPT ![n].attempts = @ + 1]
          \/ codes' = [codes EXCEPT ![n].locked = TRUE]
          \/ codes' = [codes EXCEPT ![n].status = "deleted"]
      BY <1>3 DEF VerifyAttempt, VerifyLock, VerifyConsume
    <3> HIDE DEF n
    <3> QED BY <3>1, <3>2, Shapes
  <2> QED BY <2>1 DEF NoNewCode
<1>4. \/ UNCHANGED codes \/ SweepCodes
      \/ \E r \in Request : VerifyAttempt(r) \/ VerifyLock(r) \/ VerifyConsume(r)
  BY DEF Next, RequestCode, VerifyCode, UseSession, Sweeper, vars, tables,
     RequestCodeBegin, RequestCodeRefused, LookupUser, SignupInsert, SignupConflict,
     SignupReadback, SendMail, VerifyBegin, VerifyNoCode, VerifySelect, VerifyUser,
     VerifyMint, VerifyLoad, Logout, SessionBegin, SessionSelect, SessionTouch,
     SessionLoad, SweepTick, SweepSessions, SweepFails, DeleteUser, Tick, Restart,
     StatementFails, LogoutFails
<1> QED BY <1>1, <1>2, <1>3, <1>4

\* Only the DELETE of verify-code starts a redemption.
LEMMA RedemptionStart ==
  ASSUME SignInInvariant, [Next]_vars,
         \A r \in Request : VerifyConsume(r) => Reply(r, "error")
  PROVE  NoNewHolder
<1>0. TypeOK
  BY DEF SignInInvariant
<1> SUFFICES \A q \in Request : Redeems(q)' => Redeems(q) /\ proc'[q].code = proc[q].code
  BY DEF NoNewHolder, Held
<1>1. CASE \A q \in Request : SlotKept(q)
  BY <1>1 DEF SlotKept, Redeems, At, Watched
<1>2. ASSUME NEW r \in Request, VerifyConsume(r)
      PROVE  \A q \in Request : SlotKept(q)
  BY <1>0, <1>2, ReplySlots DEF Response
<1>3. ASSUME NEW r \in Request, VerifyUser(r)
      PROVE  \A q \in Request : Redeems(q)' => Redeems(q) /\ proc'[q].code = proc[q].code
  <2>1. CASE Reply(r, "error")
    BY <1>0, <1>1, <2>1, ReplySlots DEF Response
  <2>2. ASSUME NEW u, proc' = [proc EXCEPT ![r] = [@ EXCEPT !.pc = "v_mint", !.user = u]]
        PROVE  \A q \in Request : Redeems(q)' => Redeems(q) /\ proc'[q].code = proc[q].code
    <3>1. [proc[r] EXCEPT !.pc = "v_mint", !.user = u].code = proc[r].code
      BY <1>0, Shapes DEF Proc
    <3>2. /\ proc'[r].code = proc[r].code
          /\ \A q \in Request : q # r => proc'[q] = proc[q]
      BY <1>0, <2>2, <3>1, UpdateSlots
    <3> QED BY <1>3, <3>2 DEF VerifyUser, Redeems, At
  <2> QED BY <1>3, <2>1, <2>2 DEF VerifyUser
<1>4. ASSUME NEW r \in Request, VerifyMint(r)
      PROVE  \A q \in Request : Redeems(q)' => Redeems(q) /\ proc'[q].code = proc[q].code
  <2>1. \A s : [proc[r] EXCEPT !.pc = "v_load", !.tok = s].pc = "v_load"
    BY <1>0, Shapes DEF Proc
  <2>2. proc'[r].pc = "v_load" /\ \A q \in Request : q # r => proc'[q] = proc[q]
    BY <1>0, <1>4, <2>1, UpdateSlots DEF VerifyMint
  <2> QED BY <2>2 DEF Redeems, At
<1> QED BY <1>1, <1>2, <1>3, <1>4, OtherSlots

\* Steps that issue no code, start no redemption and mint no session: some codes come
\* to nothing, as their rows are swept or their requests end.
LEMMA GiveUpStep ==
  ASSUME SignInInvariant, SignInInvariant', [Next]_vars,
         NoNewCode, NoNewHolder, NoNewSession
  PROVE  \E S \in SUBSET CodeId : Abstract!GiveUp(S)
<1> DEFINE S == {c \in CodeId : StageOf(c)' # StageOf(c)}
<1>1. CodesPersist /\ SessionsPersist
  BY Persistence DEF SignInInvariant
<1>2. \A c \in CodeId : Sold(c)' <=> Sold(c)
  BY <1>1 DEF SessionsPersist, NoNewSession, Sold
<1>3. \A c \in CodeId : codes'[c].email = codes[c].email
  BY <1>1, Tracing DEF CodesPersist, NoNewCode
<1>4. Traced /\ Traced'
  BY Tracing, TracingNext
<1>5. ASSUME NEW c \in S
      PROVE  StageOf(c) \in {"issued", "redeeming"} /\ StageOf(c)' = "void"
  BY <1>1, <1>2, <1>4 DEF Traced, CodesPersist, NoNewCode, NoNewHolder
<1>6. ASSUME NEW c \in CodeId
      PROVE  HolderOf(c)' = HolderOf(c)
  BY <1>2, <1>3, <1>4 DEF Traced
<1>7. Abstract!GiveUp(S)
  <2>1. \A c \in S : [d \in CodeId |-> StageOf(d)][c] \in {"issued", "redeeming"}
    BY <1>5
  <2>2. [c \in CodeId |-> StageOf(c)]'
          = [c \in CodeId |-> IF c \in S THEN "void" ELSE [d \in CodeId |-> StageOf(d)][c]]
    BY <1>5
  <2>3. [c \in CodeId |-> codes[c].email]' = [c \in CodeId |-> codes[c].email]
    BY <1>3
  <2>4. [c \in CodeId |-> HolderOf(c)]' = [c \in CodeId |-> HolderOf(c)]
    BY <1>6
  <2> HIDE DEF S
  <2> QED BY <2>1, <2>2, <2>3, <2>4 DEF Abstract!GiveUp
<1> QED BY <1>7

\* A step that leaves a code's row, its request and its session as they are.
CodeKept(c) ==
  /\ codes'[c].status = codes[c].status /\ codes'[c].email = codes[c].email
  /\ (Sold(c)' <=> Sold(c)) /\ (Held(c)' <=> Held(c))

LEMMA KeptTrace ==
  ASSUME Traced, Traced', NEW c \in CodeId, CodeKept(c)
  PROVE  StageOf(c)' = StageOf(c) /\ HolderOf(c)' = HolderOf(c)
  BY DEF Traced, CodeKept

\* A new row is a code issued for the address of the request.
LEMMA IssueStep ==
  ASSUME NEW r \in Request, NEW d \in Digits, StoreCode(r, d),
         SignInInvariant, SignInInvariant', Addressed
  PROVE  \E c \in CodeId, e \in Email : Abstract!Issue(c, e)
<1>0. TypeOK /\ FreshIds
  BY DEF SignInInvariant
<1>1. Traced /\ Traced'
  BY Tracing, TracingNext
<1> PICK n \in CodeId : n = serial.code + 1
  BY <1>0, SerialShape, UserAuthAssumption DEF StoreCode, CodeId
<1> PICK e \in Email : e = proc[r].email
  BY DEF StoreCode, Addressed, Addressing, At
<1>2. codes[n].status = "none"
  BY <1>0, SerialShape, UserAuthAssumption DEF CodeId, FreshIds
<1>3. /\ codes'[n].status = "row" /\ codes'[n].email = e
      /\ \A c \in CodeId : c # n => codes'[c] = codes[c]
  BY <1>0, <1>2, Shapes DEF StoreCode
<1>4. sessions' = sessions
  BY DEF StoreCode
<1>5. /\ \A q \in Request : q # r => proc'[q] = proc[q]
      /\ ~Redeems(r) /\ ~Redeems(r)'
  BY <1>0, GotoSlots DEF StoreCode, Redeems, At
<1>6. \A c \in CodeId : (Sold(c)' <=> Sold(c)) /\ (Held(c)' <=> Held(c))
  BY <1>4, <1>5 DEF Sold, Held, Redeems, At
<1>7. \A c \in CodeId : c # n => StageOf(c)' = StageOf(c) /\ HolderOf(c)' = HolderOf(c)
  BY <1>1, <1>3, <1>6, KeptTrace DEF CodeKept
<1>8. StageOf(n) = "none" /\ StageOf(n)' = "issued" /\ HolderOf(n)' = HolderOf(n)
  BY <1>1, <1>2, <1>3, <1>6 DEF Traced
<1>9. Abstract!Issue(n, e)
  <2>1. [c \in CodeId |-> StageOf(c)][n] = "none"
    BY <1>2, <1>8
  <2>2. [c \in CodeId |-> StageOf(c)]' = [[c \in CodeId |-> StageOf(c)] EXCEPT ![n] = "issued"]
    BY <1>2, <1>7, <1>8
  <2>3. [c \in CodeId |-> codes[c].email]' = [[c \in CodeId |-> codes[c].email] EXCEPT ![n] = e]
    BY <1>2, <1>3
  <2>4. [c \in CodeId |-> HolderOf(c)]' = [c \in CodeId |-> HolderOf(c)]
    BY <1>7, <1>8
  <2> QED BY <2>1, <2>2, <2>3, <2>4 DEF Abstract!Issue
<1> QED BY <1>9

\* The DELETE of a row that was there redeems its code.
LEMMA RedeemStep ==
  ASSUME NEW r \in Request, VerifyConsume(r), ~Reply(r, "error"),
         SignInInvariant, SignInInvariant'
  PROVE  \E c \in CodeId : Abstract!Redeem(c)
<1>0. TypeOK
  BY DEF SignInInvariant
<1> PICK n \in CodeId : n = proc[r].code
  BY DEF SignInInvariant, VerifyOnOwnRow, VerifyConsume, At
<1>1. Traced /\ Traced'
  BY Tracing, TracingNext
<1>2. /\ codes[n].status = "row" /\ Goto(r, "v_user")
      /\ codes' = [codes EXCEPT ![n].status = "deleted"] /\ sessions' = sessions
  BY DEF VerifyConsume
<1>3. /\ codes'[n].status = "deleted" /\ codes'[n].email = codes[n].email
      /\ \A c \in CodeId : c # n => codes'[c] = codes[c]
  BY <1>0, <1>2, Shapes DEF CodeRow
<1>4. /\ \A q \in Request : q # r => proc'[q] = proc[q]
      /\ proc'[r].pc = "v_user" /\ proc'[r].code = n
  BY <1>0, <1>2, GotoSlots
<1>5. ~Redeems(r)
  BY DEF VerifyConsume, Redeems, At
<1>6. \A c \in CodeId : Sold(c)' <=> Sold(c)
  BY <1>2 DEF Sold
<1>7. Held(n)' /\ \A c \in CodeId : c # n => (Held(c)' <=> Held(c))
  BY <1>4, <1>5 DEF Held, Redeems, At
<1>8. \A c \in CodeId : c # n => StageOf(c)' = StageOf(c) /\ HolderOf(c)' = HolderOf(c)
  BY <1>1, <1>3, <1>6, <1>7, KeptTrace DEF CodeKept
<1>9. StageOf(n) = "issued" /\ StageOf(n)' = "redeeming" /\ HolderOf(n)' = HolderOf(n)
  BY <1>1, <1>2, <1>3, <1>6, <1>7 DEF Traced
<1>10. Abstract!Redeem(n)
  <2>1. [c \in CodeId |-> StageOf(c)][n] = "issued"
    BY <1>2, <1>9
  <2>2. [c \in CodeId |-> StageOf(c)]'
          = [[c \in CodeId |-> StageOf(c)] EXCEPT ![n] = "redeeming"]
    BY <1>2, <1>8, <1>9
  <2>3. [c \in CodeId |-> codes[c].email]' = [c \in CodeId |-> codes[c].email]
    BY <1>3
  <2>4. [c \in CodeId |-> HolderOf(c)]' = [c \in CodeId |-> HolderOf(c)]
    BY <1>8, <1>9
  <2> QED BY <2>1, <2>2, <2>3, <2>4 DEF Abstract!Redeem
<1> QED BY <1>10

\* The INSERT of a session signs in the address of the code it was bought with.
LEMMA SignInAbstractStep ==
  ASSUME NEW r \in Request, VerifyMint(r), SignInInvariant, SignInInvariant'
  PROVE  \E c \in CodeId : Abstract!SignIn(c)
<1>0. TypeOK /\ FreshIds /\ At(r, "v_mint")
  BY DEF SignInInvariant, VerifyMint
<1> PICK n \in CodeId : n = proc[r].code
  BY <1>0 DEF SignInInvariant, VerifyOnOwnRow, At
<1> PICK t \in SessionId : t = serial.session + 1
  BY <1>0, SerialShape, UserAuthAssumption DEF VerifyMint, SessionId
<1>1. Traced /\ Traced'
  BY Tracing, TracingNext
<1>2. codes[n].status = "deleted" /\ Redeems(r) /\ codes' = codes
  BY <1>0 DEF SignInInvariant, VerifyOnOwnRow, RedeemerIsAlone, Redeems, At, VerifyMint
<1>3. sessions[t].status = "none"
  BY <1>0, SerialShape, UserAuthAssumption DEF SessionId, FreshIds
<1>4. /\ sessions'[t].status = "row" /\ sessions'[t].code = n
      /\ \A s \in SessionId : s # t => sessions'[s] = sessions[s]
  BY <1>0, <1>3, Shapes DEF VerifyMint
<1>5. /\ proc'[r].pc = "v_load"
      /\ \A q \in Request : q # r => proc'[q] = proc[q]
  <2>1. [proc[r] EXCEPT !.pc = "v_load", !.tok = t].pc = "v_load"
    BY <1>0, Shapes DEF Proc
  <2> QED BY <1>0, <2>1, Shapes DEF VerifyMint
<1>6. Held(n) /\ ~Sold(n)
  BY <1>2 DEF SignInInvariant, RedeemerIsAlone, Held, Sold
<1>7. Sold(n)' /\ \A c \in CodeId : c # n => (Sold(c)' <=> Sold(c))
  BY <1>3, <1>4 DEF Sold
<1>8. \A c \in CodeId : c # n => (Held(c)' <=> Held(c))
  BY <1>5 DEF Held, Redeems, At
<1>9. \A c \in CodeId : c # n => StageOf(c)' = StageOf(c) /\ HolderOf(c)' = HolderOf(c)
  BY <1>1, <1>2, <1>7, <1>8, KeptTrace DEF CodeKept
<1>10. /\ StageOf(n) = "redeeming" /\ StageOf(n)' = "signed_in"
       /\ HolderOf(n)' = codes[n].email
  BY <1>1, <1>2, <1>6, <1>7 DEF Traced
<1>11. Abstract!SignIn(n)
  <2>1. [c \in CodeId |-> StageOf(c)][n] = "redeeming"
    BY <1>2, <1>10
  <2>2. [c \in CodeId |-> StageOf(c)]'
          = [[c \in CodeId |-> StageOf(c)] EXCEPT ![n] = "signed_in"]
    BY <1>2, <1>9, <1>10
  <2>3. [c \in CodeId |-> HolderOf(c)]'
          = [[c \in CodeId |-> HolderOf(c)] EXCEPT ![n] = [c \in CodeId |-> codes[c].email][n]]
    BY <1>2, <1>9, <1>10
  <2>4. [c \in CodeId |-> codes[c].email]' = [c \in CodeId |-> codes[c].email]
    BY <1>2
  <2> QED BY <2>1, <2>2, <2>3, <2>4 DEF Abstract!SignIn
<1> QED BY <1>11

\* Every step of the handlers, the sweeper, the application and the process is a step
\* of OneTimeCode.
LEMMA AbstractStep ==
  ASSUME SignInInvariant, SignInInvariant', Addressed, [Next]_vars
  PROVE  Abstract!Next
<1>1. CASE \E r \in Request, d \in Digits : StoreCode(r, d)
  BY <1>1, IssueStep DEF Abstract!Next
<1>2. CASE \E r \in Request : VerifyConsume(r) /\ ~Reply(r, "error")
  BY <1>2, RedeemStep DEF Abstract!Next
<1>3. CASE \E r \in Request : VerifyMint(r)
  BY <1>3, SignInAbstractStep DEF Abstract!Next
<1>4. CASE /\ \A r \in Request, d \in Digits : ~StoreCode(r, d)
           /\ \A r \in Request : VerifyConsume(r) => Reply(r, "error")
           /\ \A r \in Request : ~VerifyMint(r)
  <2>1. NoNewCode /\ NoNewHolder /\ NoNewSession
    BY <1>4, CodeIssue, RedemptionStart, SessionsStep DEF SignInInvariant
  <2> QED BY <2>1, GiveUpStep DEF Abstract!Next
<1> QED BY <1>1, <1>2, <1>3, <1>4

LEMMA AbstractInit == Init => Abstract!Init
<1> SUFFICES ASSUME Init PROVE Abstract!Init
  OBVIOUS
<1>1. \A c \in CodeId : StageOf(c) = "none" /\ HolderOf(c) = None /\ codes[c].email = None
  <2>1. Traced
    BY SignInInit, Tracing
  <2>2. /\ \A c \in CodeId : codes[c].status = "none" /\ codes[c].email = None
        /\ \A s \in SessionId : sessions[s].status = "none"
    BY DEF Init
  <2> QED BY <2>1, <2>2 DEF Traced, Sold
<1> QED BY <1>1 DEF Abstract!Init

\* Four handlers, a sweeper, an application that deletes users, crashes and failing
\* statements, whichever way their statements interleave, together are a code that is
\* redeemed at most once, for one session of the address it was sent to.
THEOREM ImplementsOneTimeCodeHolds == Spec => ImplementsOneTimeCode
<1>1. Init => Addressed
  BY DEF Init, Idle, Addressed, Addressing
<1>2. TypeOK /\ Addressed /\ [Next]_vars => Addressed'
  BY AddressStep DEF Addressed, AddressKept
<1>3. SignInInvariant /\ SignInInvariant' /\ Addressed /\ [Next]_vars
        => [Abstract!Next]_<<[c \in CodeId |-> StageOf(c)], [c \in CodeId |-> codes[c].email],
                             [c \in CodeId |-> HolderOf(c)]>>
  BY AbstractStep
<1> QED
  BY <1>1, <1>2, <1>3, AbstractInit, SignInInvariantHolds, TypeCorrect, PTL
  DEF Spec, ImplementsOneTimeCode, Abstract!Spec
=============================================================================
