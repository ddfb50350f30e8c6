-------------------------- MODULE LiveReloadProofs --------------------------
(***************************************************************************)
(* What a settled tab shows and runs, and that the watcher misses no save, *)
(* for any number of tabs, of saves and of page loads and for any capacity *)
(* of the channels.                                                        *)
(*                                                                         *)
(* SettledTabCurrent speaks of a tab that has taken in all it was sent and *)
(* of a watcher that waits.  What makes it inductive is what it becomes in *)
(* between: the last event in the queue stands for the panel to come, a    *)
(* reload in the queue or a fetch not yet answered for the program to      *)
(* come, and the watcher's own step for what it has changed and not yet    *)
(* told.                                                                   *)
(***************************************************************************)
EXTENDS LiveReload, TLAPS

MaybeVersion == Version \cup {None}
Event == {e \in [type : {"reload", "ok", "error"}, msg : MaybeVersion] :
            e.type = "reload" => e.msg = None}
Fetch == [n : Nat, v : MaybeVersion]
TabState == [pc : {"closed", "loading", "booted", "subscribed", "open", "cut"},
             loads : Nat, ran : MaybeVersion, ranAt : Nat, panel : MaybeVersion,
             queue : Seq(Event), fetches : SUBSET Fetch, issued : Nat,
             behind : SUBSET {"panel", "program"}]
Build == [v : Version, kind : Kind]
WatcherStep == {"start", "wait", "reset", "parse", "load", "swap", "migrate", "fail",
                "clear", "tellError", "tellOk", "tellReload"}

TypeOK ==
  /\ disk \in Build
  /\ dev \in [pc : WatcherStep, build : Build, prev : Version]
  /\ lp \in [program : Version, error : MaybeVersion]
  /\ tab \in [Tab -> TabState]

\* While it tells the tabs, the watcher knows what the last error is.
WatcherKnows(d, p) ==
  /\ d.pc = "tellError" => p.error = d.build.v
  /\ d.pc \in {"tellOk", "tellReload"} => p.error = None

\* The fetches are numbered in the order of their issue; a page that has run its first
\* program has no other until it is told of one.
Numbered(s) ==
  /\ \A f \in s.fetches : f.n <= s.issued
  /\ s.ranAt <= s.issued
  /\ s.pc = "booted" => s.fetches = {}
  /\ s.pc = "loading" => \E f \in Fetch : s.fetches = {f}

\* A tab that is not subscribed has nothing queued, and none before Hello has a panel.
Quiet(s) ==
  /\ s.pc \in {"closed", "loading", "booted", "cut"} => s.queue = <<>>
  /\ s.pc \in {"closed", "loading", "booted", "subscribed"} => s.panel = None

Connected(s) == s.pc \in {"subscribed", "open"}

\* The panel the tab will show when it has handled its queue is the error on record.
PanelComing(s, d, p) ==
  Connected(s) /\ "panel" \notin s.behind /\ d.pc \notin {"tellError", "tellOk", "tellReload"} =>
    IF s.queue # <<>>
    THEN s.queue[Len(s.queue)].msg = p.error
    ELSE s.pc = "open" => s.panel = p.error

\* Every program that was swapped in has been announced, or its error is on record.
Announced(d, p) ==
  p.error = None /\ d.pc \notin {"migrate", "fail", "clear", "tellOk", "tellReload"}

NoReload(q) == \A i \in 1 .. Len(q) : q[i].type # "reload"

\* With no reload to come, the answer to the last fetch is the program served.
ProgramComing(s, d, p) ==
  Connected(s) /\ "program" \notin s.behind /\ Announced(d, p) /\ NoReload(s.queue) =>
    /\ \A f \in s.fetches : f.n = s.issued /\ f.v # None => f.v = p.program
    /\ s.ranAt = s.issued => s.ran = p.program

TabInv(s, d, p) == Numbered(s) /\ Quiet(s) /\ PanelComing(s, d, p) /\ ProgramComing(s, d, p)

IInv ==
  /\ TypeOK
  /\ WatcherKnows(dev, lp)
  /\ \A t \in Tab : TabInv(tab[t], dev, lp)

-----------------------------------------------------------------------------
(* The watcher's steps *)

Telling == {"tellError", "tellOk", "tellReload"}

\* A step that sends nothing keeps what a tab is promised, if it claims no more.
LEMMA SilentKeeps ==
  ASSUME NEW s, NEW d, NEW p, NEW d2, NEW p2, TabInv(s, d, p),
         d2.pc \notin Telling => d.pc \notin Telling /\ p2.error = p.error,
         Announced(d2, p2) => Announced(d, p) /\ p2.program = p.program
  PROVE  TabInv(s, d2, p2)
  <1>1. PanelComing(s, d2, p2)
    BY DEF TabInv, PanelComing, Telling
  <1>2. ProgramComing(s, d2, p2)
    BY DEF TabInv, ProgramComing
  <1>3. QED
    BY <1>1, <1>2 DEF TabInv

LEMMA SendType ==
  ASSUME NEW s \in TabState, NEW e \in Event
  PROVE  Send(s, e) \in TabState
  <1>1. CASE Len(s.queue) < QueueCap
    <2>1. Append(s.queue, e) \in Seq(Event) /\ s.behind \ {"panel"} \in SUBSET {"panel", "program"}
      BY DEF TabState
    <2>2. QED
      BY <1>1, <2>1 DEF Send, TabState
  <1>2. CASE ~(Len(s.queue) < QueueCap)
    <2>1. s.behind \cup {"panel"} \cup (IF e = ReloadEvent THEN {"program"} ELSE {})
            \in SUBSET {"panel", "program"}
      BY DEF TabState
    <2>2. QED
      BY <1>2, <2>1 DEF Send, TabState
  <1>3. QED
    BY <1>1, <1>2

\* An event that is sent, or known to be lost, is what the watcher had to tell.
LEMMA SendKeeps ==
  ASSUME NEW s \in TabState, NEW d, NEW p, NEW d2, NEW e \in Event, TabInv(s, d, p), Connected(s),
         d2.pc \notin Telling => e.msg = p.error,
         Announced(d2, p) => e = ReloadEvent
  PROVE  TabInv(Send(s, e), d2, p)
  <1> DEFINE s2 == Send(s, e)
  <1>1. /\ s2.pc = s.pc /\ s2.fetches = s.fetches /\ s2.issued = s.issued
        /\ s2.ranAt = s.ranAt /\ s2.panel = s.panel /\ s2.ran = s.ran
    BY DEF Send, TabState
  <1>2. Numbered(s2) /\ Quiet(s2)
    BY <1>1 DEF TabInv, Numbered, Quiet, Connected
  <1>3. CASE Len(s.queue) < QueueCap
    <2>1. s2.queue = Append(s.queue, e) /\ s.queue \in Seq(Event)
      BY <1>3 DEF Send, TabState
    <2>2. Len(s2.queue) \in 1 .. Len(s2.queue) /\ s2.queue # <<>> /\ s2.queue[Len(s2.queue)] = e
      BY <2>1
    <2> HIDE DEF s2
    <2>3. PanelComing(s2, d2, p)
      BY <2>2 DEF PanelComing, Telling
    <2>4. Announced(d2, p) => ~NoReload(s2.queue)
      BY <2>2 DEF NoReload, ReloadEvent
    <2>5. ProgramComing(s2, d2, p)
      BY <2>4 DEF ProgramComing
    <2>6. QED
      BY <1>2, <2>3, <2>5 DEF TabInv, s2
  <1>4. CASE ~(Len(s.queue) < QueueCap)
    <2>1. s2.behind = s.behind \cup {"panel"} \cup (IF e = ReloadEvent THEN {"program"} ELSE {})
      BY <1>4 DEF Send, TabState
    <2> HIDE DEF s2
    <2>2. PanelComing(s2, d2, p) /\ ProgramComing(s2, d2, p)
      BY <2>1 DEF PanelComing, ProgramComing
    <2>3. QED
      BY <1>2, <2>2 DEF TabInv, s2
  <1>5. QED
    BY <1>3, <1>4

LEMMA Events ==
  LiveReloadAssumption =>
    ReloadEvent \in Event /\ OkEvent \in Event /\ \A v \in Version : ErrorEvent(v) \in Event
  BY DEF ReloadEvent, OkEvent, ErrorEvent, Event, MaybeVersion

\* What every tab holds after a broadcast.
LEMMA BroadcastKeeps ==
  ASSUME IInv, NEW e \in Event, Broadcast(e), NEW d2,
         d2.pc \notin Telling => e.msg = lp.error,
         Announced(d2, lp) => e = ReloadEvent
  PROVE  tab' \in [Tab -> TabState] /\ \A t \in Tab : TabInv(tab'[t], d2, lp)
  <1> SUFFICES ASSUME NEW t \in Tab
               PROVE  tab'[t] \in TabState /\ TabInv(tab'[t], d2, lp)
    BY DEF Broadcast
  <1>1. tab[t] \in TabState /\ TabInv(tab[t], dev, lp)
    BY DEF IInv, TypeOK
  <1>2. CASE Subscribed(t)
    <2>1. tab'[t] = Send(tab[t], e) /\ Connected(tab[t])
      BY <1>2 DEF Broadcast, Subscribed, Connected
    <2>2. QED
      BY <1>1, <2>1, SendType, SendKeeps
  <1>3. CASE ~Subscribed(t)
    <2>1. tab'[t] = tab[t] /\ ~Connected(tab[t])
      BY <1>3 DEF Broadcast, Subscribed, Connected
    <2>2. QED
      BY <1>1, <2>1 DEF TabInv, PanelComing, ProgramComing
  <1>4. QED
    BY <1>2, <1>3

LEMMA WatcherTypes ==
  ASSUME TypeOK
  PROVE  /\ dev.pc \in WatcherStep /\ dev.build \in Build /\ dev.prev \in Version
         /\ disk \in Build /\ disk.v \in Version
         /\ \A step \in WatcherStep : [dev EXCEPT !.pc = step].pc = step
         /\ \A step \in WatcherStep : [dev EXCEPT !.pc = step].build = dev.build
         /\ \A step \in WatcherStep :
              [dev EXCEPT !.pc = step] \in [pc : WatcherStep, build : Build, prev : Version]
  BY DEF TypeOK, Build

LEMMA SilentStep ==
  ASSUME LiveReloadAssumption, IInv,
         FirstSnapshot \/ Tick \/ Reset \/ Parse \/ Load \/ Swap \/ Migrate \/ SetError \/ ClearError
  PROVE  IInv'
  <1> USE LiveReloadAssumption
  <1>1. TypeOK
    BY DEF IInv
  <1>2. tab' = tab /\ disk' = disk
    BY DEF FirstSnapshot, Tick, Reset, Parse, Load, Swap, Migrate, SetError, ClearError
  <1>3. TypeOK'
    <2>1. CASE FirstSnapshot \/ Tick \/ Parse
      BY <1>1, <1>2, <2>1, WatcherTypes DEF FirstSnapshot, Tick, Parse, TypeOK, WatcherStep, Build
    <2>2. CASE Reset \/ Load \/ Migrate
      BY <1>1, <1>2, <2>2, WatcherTypes DEF Reset, Load, Migrate, Goto, TypeOK, WatcherStep
    <2>3. CASE Swap \/ SetError \/ ClearError
      <3>1. lp' \in [program : Version, error : MaybeVersion]
        BY <1>1, <2>3, WatcherTypes DEF Swap, SetError, ClearError, TypeOK, MaybeVersion, Build
      <3>2. QED
        BY <1>1, <1>2, <2>3, <3>1, WatcherTypes DEF Swap, SetError, ClearError, Goto, TypeOK, WatcherStep
    <2>4. QED
      BY <2>1, <2>2, <2>3
  <1>4. /\ dev'.pc \notin Telling => dev.pc \notin Telling /\ lp'.error = lp.error
        /\ Announced(dev', lp') => Announced(dev, lp) /\ lp'.program = lp.program
        /\ WatcherKnows(dev', lp')
    <2>1. CASE FirstSnapshot \/ Tick \/ Reset \/ Parse
      BY <1>1, <2>1, WatcherTypes
         DEF FirstSnapshot, Tick, Reset, Parse, At, Goto, TypeOK, Telling, Announced, WatcherKnows, WatcherStep
    <2>2. CASE Load \/ Swap \/ Migrate
      BY <1>1, <2>2, WatcherTypes
         DEF Load, Swap, Migrate, At, Goto, TypeOK, Telling, Announced, WatcherKnows, WatcherStep
    <2>3. CASE SetError
      <3>1. dev.build.v \in Version /\ dev.build.v # None
        BY <1>1, WatcherTypes DEF Build
      <3>2. lp'.error = dev.build.v /\ dev'.pc = "tellError" /\ dev'.build = dev.build
        BY <1>1, <2>3, WatcherTypes DEF SetError, Goto, TypeOK, WatcherStep
      <3>3. QED
        BY <3>1, <3>2 DEF Telling, Announced, WatcherKnows
    <2>4. CASE ClearError
      <3>1. lp'.error = None /\ dev'.pc \in {"tellOk", "tellReload"}
        BY <1>1, <2>4, WatcherTypes DEF ClearError, Goto, TypeOK, WatcherStep
      <3>2. QED
        BY <3>1 DEF Telling, Announced, WatcherKnows
    <2>5. QED
      BY <2>1, <2>2, <2>3, <2>4
  <1>5. ASSUME NEW t \in Tab PROVE TabInv(tab'[t], dev', lp')
    BY <1>2, <1>4, SilentKeeps DEF IInv
  <1>6. QED
    BY <1>3, <1>4, <1>5 DEF IInv

LEMMA TellStep ==
  ASSUME LiveReloadAssumption, IInv, TellError \/ TellOk \/ TellReload
  PROVE  IInv'
  <1> USE LiveReloadAssumption
  <1>1. TypeOK /\ WatcherKnows(dev, lp)
    BY DEF IInv
  <1>2. PICK e \in Event, next \in {"wait", "tellReload"} :
           /\ Broadcast(e) /\ dev' = [dev EXCEPT !.pc = next]
           /\ UNCHANGED <<disk, lp, registry, first, good>>
           /\ e.msg = lp.error
           /\ next = "wait" => lp.error # None \/ e = ReloadEvent
           /\ next = "tellReload" => lp.error = None
    <2>1. CASE TellError
      <3>1. dev.build.v \in Version /\ lp.error = dev.build.v
        BY <1>1, <2>1, WatcherTypes DEF Build, WatcherKnows, TellError, Tell, At
      <3>2. ErrorEvent(dev.build.v) \in Event /\ ErrorEvent(dev.build.v).msg = lp.error
        BY <3>1, Events DEF ErrorEvent
      <3>3. QED
        BY <2>1, <3>1, <3>2 DEF TellError, Tell, Goto
    <2>2. CASE TellOk
      BY <1>1, <2>2, Events DEF TellOk, Tell, At, Goto, OkEvent, WatcherKnows
    <2>3. CASE TellReload
      BY <1>1, <2>3, Events DEF TellReload, Tell, At, Goto, ReloadEvent, WatcherKnows
    <2>4. QED
      BY <2>1, <2>2, <2>3
  <1>3. dev'.pc = next /\ lp' = lp /\ disk' = disk
    BY <1>1, <1>2, WatcherTypes DEF WatcherStep
  <1>4. tab' \in [Tab -> TabState] /\ \A t \in Tab : TabInv(tab'[t], dev', lp)
    <2>1. Announced(dev', lp) => e = ReloadEvent
      BY <1>2, <1>3 DEF Announced
    <2>2. QED
      BY <1>2, <2>1, BroadcastKeeps
  <1>5. dev' \in [pc : WatcherStep, build : Build, prev : Version]
    BY <1>1, <1>2, WatcherTypes DEF WatcherStep
  <1>6. TypeOK'
    BY <1>1, <1>3, <1>4, <1>5 DEF TypeOK
  <1>7. WatcherKnows(dev', lp')
    BY <1>2, <1>3 DEF WatcherKnows
  <1>8. QED
    BY <1>3, <1>4, <1>6, <1>7 DEF IInv

-----------------------------------------------------------------------------
(* The tabs' steps *)

LEMMA TabStep ==
  ASSUME IInv, NEW t \in Tab, NEW s \in TabState, Change(t, s), UNCHANGED Server,
         TabInv(s, dev, lp)
  PROVE  IInv'
  <1>1. UNCHANGED <<disk, dev, lp>>
    BY DEF Server, compiler
  <1>2. tab' \in [Tab -> TabState]
    BY DEF IInv, TypeOK, Change
  <1>3. ASSUME NEW u \in Tab PROVE TabInv(tab'[u], dev, lp)
    BY DEF IInv, TypeOK, Change
  <1>4. QED
    BY <1>1, <1>2, <1>3 DEF IInv, TypeOK

\* A page being loaded, and a tab that is closed, are promised nothing.
LEMMA Unconnected ==
  ASSUME LiveReloadAssumption, NEW loads \in Nat
  PROVE  LET page == [Blank EXCEPT !.pc = "loading", !.loads = loads,
                                   !.fetches = {[n |-> 1, v |-> None]}, !.issued = 1]
             away == [Blank EXCEPT !.loads = loads]
         IN  /\ page \in TabState /\ away \in TabState /\ Blank \in TabState
             /\ \A d, p : TabInv(page, d, p) /\ TabInv(away, d, p) /\ TabInv(Blank, d, p)
  <1> DEFINE page == [Blank EXCEPT !.pc = "loading", !.loads = loads,
                                   !.fetches = {[n |-> 1, v |-> None]}, !.issued = 1]
             away == [Blank EXCEPT !.loads = loads]
  <1>1. Blank \in TabState
    BY DEF Blank, TabState, MaybeVersion
  <1>2. [n |-> 1, v |-> None] \in Fetch
    BY DEF Fetch, MaybeVersion
  <1>3. page \in TabState /\ away \in TabState
    BY <1>1, <1>2 DEF TabState
  <1>4. ASSUME NEW s \in {page, away, Blank}, NEW d, NEW p PROVE TabInv(s, d, p)
    <2>1. /\ s.pc \in {"closed", "loading"} /\ s.queue = <<>> /\ s.panel = None /\ s.ranAt = 0
          /\ s.issued \in Nat /\ \A f \in s.fetches : f.n <= s.issued
          /\ s.pc = "loading" => \E f \in Fetch : s.fetches = {f}
      <3>1. CASE s = page
        BY <1>2, <3>1 DEF Blank
      <3>2. CASE s = away \/ s = Blank
        BY <3>2 DEF Blank
      <3>3. QED
        BY <1>4, <3>1, <3>2
    <2>2. ~Connected(s) /\ Quiet(s)
      BY <2>1 DEF Connected, Quiet
    <2>3. Numbered(s)
      BY <2>1 DEF Numbered
    <2>4. QED
      BY <2>2, <2>3 DEF TabInv, PanelComing, ProgramComing
  <1>5. QED
    BY <1>1, <1>3, <1>4

LEMMA PagesStep ==
  ASSUME LiveReloadAssumption, IInv, NEW t \in Tab, OpenPage(t) \/ Reconnect(t) \/ ClosePage(t)
  PROVE  IInv'
  <1>1. tab[t].loads \in Nat /\ tab[t].loads + 1 \in Nat
    BY DEF IInv, TypeOK, TabState
  <1>2. /\ NewPage(tab[t]) \in TabState /\ TabInv(NewPage(tab[t]), dev, lp)
        /\ [Blank EXCEPT !.loads = tab[t].loads] \in TabState
        /\ TabInv([Blank EXCEPT !.loads = tab[t].loads], dev, lp)
    BY <1>1, Unconnected DEF NewPage
  <1>3. CASE OpenPage(t) \/ Reconnect(t)
    BY <1>2, <1>3, TabStep DEF OpenPage, Reconnect
  <1>4. CASE ClosePage(t)
    BY <1>2, <1>4, TabStep DEF ClosePage
  <1>5. QED
    BY <1>3, <1>4

LEMMA CutStep ==
  ASSUME LiveReloadAssumption, IInv, NEW t \in Tab, Cut(t)
  PROVE  IInv'
  <1> DEFINE s == [tab[t] EXCEPT !.pc = "cut", !.queue = <<>>]
  <1>1. tab[t] \in TabState /\ TabInv(tab[t], dev, lp)
    BY DEF IInv, TypeOK
  <1>2. s \in TabState
    <2>1. <<>> \in Seq(Event)
      OBVIOUS
    <2>2. QED
      BY <1>1, <2>1 DEF TabState
  <1>3. TabInv(s, dev, lp)
    BY <1>1 DEF TabInv, Numbered, Quiet, PanelComing, ProgramComing, Connected, TabState
  <1>4. QED
    BY <1>2, <1>3, TabStep DEF Cut

LEMMA ServeProgramStep ==
  ASSUME LiveReloadAssumption, IInv, NEW t \in Tab, ServeProgram(t)
  PROVE  IInv'
  <1>1. tab[t] \in TabState /\ TabInv(tab[t], dev, lp) /\ lp.program \in Version
    BY DEF IInv, TypeOK
  <1>2. PICK f \in tab[t].fetches :
           /\ f.v = None
           /\ Change(t, [tab[t] EXCEPT !.fetches = (@ \ {f}) \cup {[f EXCEPT !.v = lp.program]}])
    BY DEF ServeProgram
  <1> DEFINE g == [f EXCEPT !.v = lp.program]
             fs == (tab[t].fetches \ {f}) \cup {g}
             s == [tab[t] EXCEPT !.fetches = fs]
  <1>3. f \in Fetch /\ g \in Fetch /\ g.n = f.n /\ g.v = lp.program
    BY <1>1 DEF TabState, Fetch, MaybeVersion
  <1>4. fs \in SUBSET Fetch
    BY <1>1, <1>3 DEF TabState
  <1>5. s \in TabState
    BY <1>1, <1>4 DEF TabState
  <1>6. /\ s.fetches = fs /\ s.pc = tab[t].pc /\ s.queue = tab[t].queue /\ s.panel = tab[t].panel
        /\ s.behind = tab[t].behind /\ s.issued = tab[t].issued /\ s.ran = tab[t].ran
        /\ s.ranAt = tab[t].ranAt
    BY <1>1 DEF TabState
  <1> HIDE DEF g, s
  <1>7. Numbered(s)
    <2>1. \A h \in fs : h.n <= s.issued
      BY <1>1, <1>3, <1>6 DEF TabInv, Numbered
    <2>2. s.pc # "booted"
      BY <1>1, <1>6 DEF TabInv, Numbered
    <2>3. s.pc = "loading" => fs = {g}
      BY <1>1, <1>6 DEF TabInv, Numbered
    <2>4. QED
      BY <1>1, <1>3, <1>6, <2>1, <2>2, <2>3 DEF TabInv, Numbered
  <1>8. Quiet(s) /\ PanelComing(s, dev, lp)
    BY <1>1, <1>6 DEF TabInv, Quiet, PanelComing, Connected
  <1>9. ProgramComing(s, dev, lp)
    BY <1>1, <1>3, <1>6 DEF TabInv, ProgramComing, Connected
  <1>10. QED
    BY <1>2, <1>5, <1>7, <1>8, <1>9, TabStep DEF TabInv, ServeProgram, s, g

LEMMA ArriveStep ==
  ASSUME LiveReloadAssumption, IInv, NEW t \in Tab, Arrive(t)
  PROVE  IInv'
  <1>1. tab[t] \in TabState /\ TabInv(tab[t], dev, lp)
    BY DEF IInv, TypeOK
  <1>2. PICK f \in tab[t].fetches :
           /\ f.v # None
           /\ Change(t, [tab[t] EXCEPT !.fetches = @ \ {f}, !.ran = f.v, !.ranAt = f.n,
                                       !.pc = IF @ = "loading" THEN "booted" ELSE @])
    BY DEF Arrive
  <1> DEFINE s == [tab[t] EXCEPT !.fetches = @ \ {f}, !.ran = f.v, !.ranAt = f.n,
                                 !.pc = IF @ = "loading" THEN "booted" ELSE @]
  <1>3. f \in Fetch /\ f.v \in MaybeVersion /\ f.n \in Nat
    BY <1>1 DEF TabState, Fetch
  <1>4. tab[t].fetches \ {f} \in SUBSET Fetch
        /\ (IF tab[t].pc = "loading" THEN "booted" ELSE tab[t].pc)
             \in {"closed", "loading", "booted", "subscribed", "open", "cut"}
    BY <1>1 DEF TabState
  <1>5. s \in TabState
    BY <1>1, <1>3, <1>4 DEF TabState
  <1>6. /\ s.fetches = tab[t].fetches \ {f} /\ s.ran = f.v /\ s.ranAt = f.n
        /\ s.pc = (IF tab[t].pc = "loading" THEN "booted" ELSE tab[t].pc)
        /\ s.queue = tab[t].queue /\ s.panel = tab[t].panel
        /\ s.behind = tab[t].behind /\ s.issued = tab[t].issued
    BY <1>1 DEF TabState
  <1> HIDE DEF s
  <1>7. Numbered(s)
    BY <1>1, <1>6 DEF TabInv, Numbered
  <1>8. Quiet(s) /\ PanelComing(s, dev, lp)
    BY <1>1, <1>6 DEF TabInv, Quiet, PanelComing, Connected
  <1>9. ProgramComing(s, dev, lp)
    BY <1>1, <1>2, <1>6 DEF TabInv, ProgramComing, Connected
  <1>10. QED
    BY <1>2, <1>5, <1>7, <1>8, <1>9, TabStep DEF TabInv, Arrive, s

LEMMA SubscribeStep ==
  ASSUME LiveReloadAssumption, IInv, NEW t \in Tab, Subscribe(t)
  PROVE  IInv'
  <1>1. tab[t] \in TabState /\ TabInv(tab[t], dev, lp)
    BY DEF IInv, TypeOK
  <1> DEFINE late == IF tab[t].ran = lp.program THEN {} ELSE {"program"}
             s == [tab[t] EXCEPT !.pc = "subscribed", !.behind = late]
  <1>2. s \in TabState
    BY <1>1 DEF TabState
  <1>3. /\ s.fetches = tab[t].fetches /\ s.ran = tab[t].ran /\ s.ranAt = tab[t].ranAt
        /\ s.pc = "subscribed" /\ s.queue = tab[t].queue /\ s.panel = tab[t].panel
        /\ s.behind = late /\ s.issued = tab[t].issued
    BY <1>1 DEF TabState
  <1> HIDE DEF s
  <1>4. tab[t].queue = <<>> /\ tab[t].panel = None /\ tab[t].fetches = {}
    BY <1>1 DEF TabInv, Quiet, Numbered, Subscribe
  <1>5. Numbered(s) /\ Quiet(s)
    BY <1>1, <1>3, <1>4 DEF TabInv, Numbered, Quiet
  <1>6. PanelComing(s, dev, lp)
    BY <1>3, <1>4 DEF PanelComing
  <1>7. ProgramComing(s, dev, lp)
    BY <1>3, <1>4 DEF ProgramComing
  <1>8. QED
    BY <1>2, <1>5, <1>6, <1>7, TabStep DEF TabInv, Subscribe, s

LEMMA HelloStep ==
  ASSUME LiveReloadAssumption, IInv, NEW t \in Tab, Hello(t)
  PROVE  IInv'
  <1>1. tab[t] \in TabState /\ TabInv(tab[t], dev, lp) /\ lp.error \in MaybeVersion
    BY DEF IInv, TypeOK
  <1> DEFINE shown == IF lp.error = None THEN tab[t].panel ELSE lp.error
             s == [tab[t] EXCEPT !.pc = "open", !.panel = shown]
  <1>2. s \in TabState
    BY <1>1 DEF TabState
  <1>3. /\ s.fetches = tab[t].fetches /\ s.ran = tab[t].ran /\ s.ranAt = tab[t].ranAt
        /\ s.pc = "open" /\ s.queue = tab[t].queue /\ s.panel = shown
        /\ s.behind = tab[t].behind /\ s.issued = tab[t].issued
    BY <1>1 DEF TabState
  <1> HIDE DEF s
  <1>4. Connected(tab[t]) /\ tab[t].panel = None
    BY <1>1 DEF TabInv, Quiet, Hello, Connected
  <1>5. Numbered(s) /\ Quiet(s)
    BY <1>1, <1>3 DEF TabInv, Numbered, Quiet
  <1>6. PanelComing(s, dev, lp)
    BY <1>1, <1>3, <1>4 DEF TabInv, PanelComing
  <1>7. ProgramComing(s, dev, lp)
    BY <1>1, <1>3, <1>4 DEF TabInv, ProgramComing
  <1>8. Change(t, s)
    BY DEF Hello, s
  <1>9. QED
    BY <1>2, <1>5, <1>6, <1>7, <1>8, TabStep DEF TabInv, Hello

\* The event handled was the last one exactly when nothing is left in the queue.
LEMMA Rest ==
  ASSUME NEW q \in Seq(Event), q # <<>>
  PROVE  /\ Head(q) \in Event /\ Tail(q) \in Seq(Event)
         /\ IF Tail(q) = <<>> THEN Head(q) = q[Len(q)]
                              ELSE Tail(q)[Len(Tail(q))] = q[Len(q)]
         /\ NoReload(Tail(q)) /\ Head(q).type # "reload" => NoReload(q)
  <1>1. /\ Len(q) \in Nat /\ Len(q) >= 1 /\ Head(q) = q[1] /\ Head(q) \in Event
        /\ Tail(q) \in Seq(Event) /\ Len(Tail(q)) = Len(q) - 1
        /\ \A i \in 1 .. Len(q) - 1 : Tail(q)[i] = q[i + 1]
    OBVIOUS
  <1>2. CASE Tail(q) = <<>>
    BY <1>1, <1>2 DEF NoReload
  <1>3. CASE Tail(q) # <<>>
    <2>1. Len(q) >= 2
      BY <1>1, <1>3
    <2>2. Tail(q)[Len(Tail(q))] = q[Len(q)]
      BY <1>1, <2>1
    <2>3. ASSUME NoReload(Tail(q)), Head(q).type # "reload", NEW i \in 1 .. Len(q)
          PROVE  q[i].type # "reload"
      <3>1. CASE i = 1
        BY <1>1, <2>3, <3>1
      <3>2. CASE i # 1
        <4>1. i - 1 \in 1 .. Len(Tail(q)) /\ Tail(q)[i - 1] = q[i]
          BY <1>1, <3>2
        <4>2. QED
          BY <2>3, <4>1 DEF NoReload
      <3>3. QED
        BY <3>1, <3>2
    <2>4. QED
      BY <1>1, <1>3, <2>2, <2>3 DEF NoReload
  <1>4. QED
    BY <1>2, <1>3

LEMMA HandleType ==
  ASSUME LiveReloadAssumption, NEW s \in TabState, NEW e \in Event
  PROVE  Handle(s, e) \in TabState
  <1>1. CASE e.type = "reload"
    <2>1. [n |-> s.issued + 1, v |-> None] \in Fetch /\ s.issued + 1 \in Nat
      BY DEF TabState, Fetch, MaybeVersion
    <2>2. /\ s.fetches \cup {[n |-> s.issued + 1, v |-> None]} \in SUBSET Fetch
          /\ s.behind \ {"program"} \in SUBSET {"panel", "program"}
      BY <2>1 DEF TabState
    <2>3. QED
      BY <1>1, <2>1, <2>2 DEF Handle, TabState, MaybeVersion
  <1>2. CASE e.type # "reload"
    BY <1>2 DEF Handle, TabState, Event
  <1>3. QED
    BY <1>1, <1>2

LEMMA DeliverStep ==
  ASSUME LiveReloadAssumption, IInv, NEW t \in Tab, Deliver(t)
  PROVE  IInv'
  <1>1. /\ tab[t] \in TabState /\ TabInv(tab[t], dev, lp)
        /\ tab[t].queue \in Seq(Event) /\ tab[t].queue # <<>> /\ tab[t].pc = "open"
    BY DEF IInv, TypeOK, Deliver, TabState
  <1> DEFINE q == tab[t].queue
             e == Head(q)
             s == Handle([tab[t] EXCEPT !.queue = Tail(@)], e)
             new == [n |-> tab[t].issued + 1, v |-> None]
  <1>2. /\ e \in Event /\ Tail(q) \in Seq(Event)
        /\ IF Tail(q) = <<>> THEN e = q[Len(q)] ELSE Tail(q)[Len(Tail(q))] = q[Len(q)]
        /\ NoReload(Tail(q)) /\ e.type # "reload" => NoReload(q)
    BY <1>1, Rest
  <1>3. e.msg \in MaybeVersion /\ new \in Fetch /\ new.n = tab[t].issued + 1 /\ new.v = None
        /\ tab[t].issued \in Nat
    BY <1>1, <1>2 DEF Event, Fetch, MaybeVersion, TabState
  <1>4. s \in TabState
    <2>1. [tab[t] EXCEPT !.queue = Tail(@)] \in TabState
      BY <1>1, <1>2 DEF TabState
    <2>2. QED
      BY <1>2, <2>1, HandleType
  <1>5. s.pc = "open" /\ s.queue = Tail(q) /\ s.ran = tab[t].ran /\ s.ranAt = tab[t].ranAt
    BY <1>1 DEF TabState, Handle
  <1>6. CASE e.type = "reload"
    <2>1. /\ s.fetches = tab[t].fetches \cup {new} /\ s.panel = None
          /\ s.behind = tab[t].behind \ {"program"} /\ s.issued = tab[t].issued + 1
      BY <1>1, <1>6 DEF TabState, Handle
    <2>2. e.msg = None
      BY <1>2, <1>6 DEF Event
    <2> HIDE DEF s, e, q, new
    <2>3. /\ \A f \in tab[t].fetches : f.n \in Nat /\ f.n <= tab[t].issued
          /\ tab[t].ranAt \in Nat /\ tab[t].ranAt <= tab[t].issued
      BY <1>1 DEF TabInv, Numbered, TabState, Fetch
    <2>4. Numbered(s) /\ Quiet(s)
      BY <1>3, <1>5, <2>1, <2>3 DEF Numbered, Quiet
    <2>5. PanelComing(s, dev, lp)
      BY <1>1, <1>2, <1>5, <2>1, <2>2 DEF TabInv, PanelComing, Connected, q
    <2>6. ProgramComing(s, dev, lp)
      <3>1. \A f \in s.fetches : f.n = s.issued => f = new
        BY <1>3, <2>1, <2>3
      <3>2. s.ranAt # s.issued
        BY <1>3, <1>5, <2>1, <2>3
      <3>3. QED
        BY <1>3, <3>1, <3>2 DEF ProgramComing
    <2>7. QED
      BY <1>4, <2>4, <2>5, <2>6, TabStep DEF TabInv, Deliver, s, e, q
  <1>7. CASE e.type # "reload"
    <2>1. /\ s.fetches = tab[t].fetches /\ s.panel = e.msg
          /\ s.behind = tab[t].behind /\ s.issued = tab[t].issued
      BY <1>1, <1>7 DEF TabState, Handle
    <2> HIDE DEF s, e, q, new
    <2>2. Numbered(s) /\ Quiet(s)
      BY <1>1, <1>5, <2>1 DEF TabInv, Numbered, Quiet
    <2>3. PanelComing(s, dev, lp)
      BY <1>1, <1>2, <1>5, <2>1 DEF TabInv, PanelComing, Connected, q
    <2>4. ProgramComing(s, dev, lp)
      BY <1>1, <1>2, <1>5, <1>7, <2>1 DEF TabInv, ProgramComing, Connected, q
    <2>5. QED
      BY <1>4, <2>2, <2>3, <2>4, TabStep DEF TabInv, Deliver, s, e, q
  <1>8. QED
    BY <1>6, <1>7

LEMMA InitIInv ==
  ASSUME LiveReloadAssumption, Init
  PROVE  IInv
  <1>1. 0 \in Version /\ Blank \in TabState
    <2>1. 0 \in Nat /\ 0 \in Version
      BY DEF Version, LiveReloadAssumption
    <2>2. QED
      BY <2>1, Unconnected
  <1>2. TypeOK
    BY <1>1 DEF Init, TypeOK, Build, Kind, WatcherStep, MaybeVersion
  <1>3. \A t \in Tab : TabInv(tab[t], dev, lp)
    BY Unconnected DEF Init
  <1>4. QED
    BY <1>2, <1>3 DEF Init, IInv, WatcherKnows

LEMMA NextIInv ==
  ASSUME LiveReloadAssumption, IInv, [Next]_vars
  PROVE  IInv'
  <1>1. ASSUME NEW k \in Kinds, Edit(k) PROVE IInv'
    <2>1. disk' \in Build /\ UNCHANGED <<dev, lp, tab>>
      BY <1>1 DEF IInv, TypeOK, Edit, compiler, Build, Version, LiveReloadAssumption
    <2>2. QED
      BY <2>1 DEF IInv, TypeOK
  <1>2. CASE Watcher
    BY <1>2, SilentStep, TellStep DEF Watcher
  <1>3. ASSUME NEW t \in Tab, OpenPage(t) \/ Browser(t) \/ Cut(t) \/ ClosePage(t) PROVE IInv'
    BY <1>3, PagesStep, CutStep, ServeProgramStep, ArriveStep, SubscribeStep, HelloStep, DeliverStep
       DEF Browser
  <1>4. CASE UNCHANGED vars
    BY <1>4 DEF vars, IInv, TypeOK
  <1>5. QED
    BY <1>1, <1>2, <1>3, <1>4 DEF Next

\* A settled tab shows the compile error there is, and runs the program being served,
\* however many tabs, saves and loads there are and whatever the channels hold (compile,
\* ServeReload, Broadcast, setupDevChannel).
THEOREM SettledTabCurrentHolds ==
  ASSUME LiveReloadAssumption
  PROVE  Spec => []SettledTabCurrent
  <1>1. IInv => SettledTabCurrent
    <2> SUFFICES ASSUME IInv, NEW t \in Tab, Settled(t)
                 PROVE  ShowsBuildError(t) /\ RunsServed(t)
      BY DEF SettledTabCurrent
    <2>1. /\ TabInv(tab[t], dev, lp) /\ dev.pc = "wait" /\ tab[t].pc = "open"
          /\ tab[t].queue = <<>> /\ Connected(tab[t])
      BY DEF IInv, Settled, At, Connected
    <2>2. ShowsBuildError(t)
      BY <2>1 DEF ShowsBuildError, TabInv, PanelComing
    <2>3. NoReload(tab[t].queue)
      BY <2>1 DEF NoReload
    <2>4. RunsServed(t)
      BY <2>1, <2>3 DEF RunsServed, TabInv, ProgramComing, Announced
    <2>5. QED
      BY <2>2, <2>4
  <1>2. Init => IInv
    BY InitIInv
  <1>3. IInv /\ [Next]_vars => IInv'
    BY NextIInv
  <1>4. QED
    BY <1>1, <1>2, <1>3, PTL DEF Spec

-----------------------------------------------------------------------------
(* The last save *)

\* What is compiled was on disk at or after the last snapshot, and nothing saved since
\* has its number.
BuildFollows ==
  /\ dev.prev <= disk.v /\ lp.program <= dev.build.v /\ dev.build.v <= disk.v
  /\ dev.build.v = disk.v => dev.build = disk
  /\ dev.pc \notin {"start", "wait", "reset", "parse"} => dev.prev <= dev.build.v

\* How far the compile has come, and what it has changed by then.
Compiling ==
  /\ dev.pc = "load" => dev.build.kind # "broken"
  /\ dev.pc \in {"swap", "migrate"} => registry = dev.build.v /\ dev.build.kind \in {"good", "blocked"}
  /\ dev.pc = "migrate" => lp.program = dev.build.v
  /\ dev.pc \in {"clear", "tellOk", "tellReload"} =>
       /\ dev.build.kind = "good"
       /\ registry = dev.build.v /\ lp.program = dev.build.v /\ good = dev.build.v
  /\ dev.pc \in {"tellOk", "tellReload"} => lp.error = None
  /\ dev.pc \in {"fail", "tellError"} => dev.build.kind # "good"
  /\ dev.pc = "tellError" => lp.error = dev.build.v

\* A watcher that waits has compiled what its snapshot saw, or has seen no save.
Waiting ==
  dev.pc = "wait" => dev.prev = first \/ (dev.prev <= dev.build.v /\ InEffect(dev.build))

LInv == BuildFollows /\ Compiling /\ Waiting

LEMMA LInvType ==
  ASSUME LiveReloadAssumption, TypeOK
  PROVE  /\ disk.v \in Nat /\ dev.build.v \in Nat /\ dev.prev \in Nat /\ lp.program \in Nat
         /\ disk.kind \in Kind /\ dev.build.kind \in Kind
  BY DEF TypeOK, Build, Version, LiveReloadAssumption

LEMMA InitLInv ==
  ASSUME LiveReloadAssumption, Init
  PROVE  LInv
  BY DEF Init, LInv, BuildFollows, Compiling, Waiting

LEMMA EditLInv ==
  ASSUME LiveReloadAssumption, TypeOK, LInv, NEW k \in Kinds, Edit(k)
  PROVE  LInv'
  <1>1. /\ UNCHANGED <<dev, lp, registry, good, first>>
        /\ disk'.v = disk.v + 1
    BY DEF Edit, compiler
  <1>2. BuildFollows'
    BY <1>1, LInvType DEF LInv, BuildFollows
  <1>3. Compiling' /\ Waiting'
    BY <1>1 DEF LInv, Compiling, Waiting, InEffect
  <1>4. QED
    BY <1>2, <1>3 DEF LInv

LEMMA WatcherLInv ==
  ASSUME LiveReloadAssumption, TypeOK, LInv, Watcher
  PROVE  LInv' /\ lp'.program >= lp.program
  <1> USE LiveReloadAssumption, LInvType, WatcherTypes DEF LInv
  <1>1. CASE FirstSnapshot
    <2>1. /\ dev'.pc = "wait" /\ dev'.prev = disk.v /\ dev'.build = dev.build /\ first' = disk.v
          /\ UNCHANGED <<disk, lp, registry, good>>
      BY <1>1 DEF FirstSnapshot, TypeOK
    <2>2. QED
      BY <2>1 DEF BuildFollows, Compiling, Waiting
  <1>2. CASE Tick
    <2>1. /\ dev'.pc = "reset" /\ dev'.prev = disk.v /\ dev'.build = dev.build
          /\ UNCHANGED <<disk, lp, registry, good, first>>
      BY <1>2 DEF Tick, TypeOK
    <2>2. QED
      BY <2>1 DEF BuildFollows, Compiling, Waiting
  <1>3. CASE Reset
    <2>1. /\ dev.pc = "reset" /\ dev'.pc = "parse" /\ dev'.prev = dev.prev /\ dev'.build = dev.build
          /\ UNCHANGED <<disk, lp, good, first>>
      BY <1>3 DEF Reset, At, Goto, TypeOK
    <2>2. QED
      BY <2>1 DEF BuildFollows, Compiling, Waiting
  <1>4. CASE Parse
    <2>1. /\ dev.pc = "parse" /\ dev'.prev = dev.prev /\ dev'.build = disk
          /\ dev'.pc = IF disk.kind = "broken" THEN "fail" ELSE "load"
          /\ UNCHANGED <<disk, lp, registry, good, first>>
      BY <1>4 DEF Parse, At, TypeOK
    <2>2. QED
      BY <2>1 DEF BuildFollows, Compiling, Waiting
  <1>5. CASE Load
    <2>1. /\ dev.pc = "load" /\ dev'.prev = dev.prev /\ dev'.build = dev.build
          /\ dev'.pc = IF dev.build.kind = "refused" THEN "fail" ELSE "swap"
          /\ registry' = dev.build.v
          /\ UNCHANGED <<disk, lp, good, first>>
      BY <1>5 DEF Load, At, Goto, TypeOK
    <2>2. QED
      BY <2>1 DEF BuildFollows, Compiling, Waiting, Kind
  <1>6. CASE Swap
    <2>1. /\ dev.pc = "swap" /\ dev'.pc = "migrate" /\ dev'.prev = dev.prev /\ dev'.build = dev.build
          /\ lp'.program = dev.build.v
          /\ UNCHANGED <<disk, registry, good, first>>
      BY <1>6 DEF Swap, At, Goto, TypeOK
    <2>2. QED
      BY <2>1 DEF BuildFollows, Compiling, Waiting
  <1>7. CASE Migrate
    <2>1. /\ dev.pc = "migrate" /\ dev'.prev = dev.prev /\ dev'.build = dev.build
          /\ IF dev.build.kind = "blocked" THEN dev'.pc = "fail"
                                           ELSE dev'.pc = "clear" /\ good' = dev.build.v
          /\ UNCHANGED <<disk, lp, registry, first>>
      BY <1>7 DEF Migrate, At, Goto, TypeOK
    <2>2. QED
      BY <2>1 DEF BuildFollows, Compiling, Waiting
  <1>8. CASE SetError
    <2>1. /\ dev.pc = "fail" /\ dev'.pc = "tellError" /\ dev'.prev = dev.prev /\ dev'.build = dev.build
          /\ lp'.error = dev.build.v /\ lp'.program = lp.program
          /\ UNCHANGED <<disk, registry, good, first>>
      BY <1>8 DEF SetError, At, Goto, TypeOK
    <2>2. QED
      BY <2>1 DEF BuildFollows, Compiling, Waiting
  <1>9. CASE ClearError
    <2>1. /\ dev.pc = "clear" /\ dev'.pc \in {"tellOk", "tellReload"}
          /\ dev'.prev = dev.prev /\ dev'.build = dev.build
          /\ lp'.error = None /\ lp'.program = lp.program
          /\ UNCHANGED <<disk, registry, good, first>>
      BY <1>9 DEF ClearError, At, Goto, TypeOK
    <2>2. QED
      BY <2>1 DEF BuildFollows, Compiling, Waiting
  <1>10. CASE TellError \/ TellOk \/ TellReload
    <2>1. /\ \/ dev.pc = "tellError" /\ dev'.pc = "wait"
             \/ dev.pc = "tellOk" /\ dev'.pc = "tellReload"
             \/ dev.pc = "tellReload" /\ dev'.pc = "wait"
          /\ dev'.prev = dev.prev /\ dev'.build = dev.build
          /\ UNCHANGED <<disk, lp, registry, good, first>>
      BY <1>10 DEF TellError, TellOk, TellReload, Tell, At, Goto, TypeOK
    <2>2. BuildFollows' /\ Compiling'
      BY <2>1 DEF BuildFollows, Compiling
    <2>3. dev.pc = "tellReload" => InEffect(dev.build)
      BY DEF Compiling, InEffect, TypeOK
    <2>4. dev.pc = "tellError" => InEffect(dev.build)
      BY DEF Compiling, InEffect
    <2>5. Waiting'
      BY <2>1, <2>3, <2>4 DEF BuildFollows, Waiting, InEffect
    <2>6. QED
      BY <2>1, <2>2, <2>5
  <1>11. QED
    BY <1>1, <1>2, <1>3, <1>4, <1>5, <1>6, <1>7, <1>8, <1>9, <1>10 DEF Watcher

LEMMA NextLInv ==
  ASSUME LiveReloadAssumption, TypeOK, LInv, [Next]_vars
  PROVE  LInv' /\ lp'.program >= lp.program
  <1>1. CASE UNCHANGED <<disk, compiler, first>>
    BY <1>1, LInvType DEF compiler, LInv, BuildFollows, Compiling, Waiting, InEffect
  <1>2. ASSUME NEW k \in Kinds, Edit(k) PROVE LInv' /\ lp'.program >= lp.program
    BY <1>2, EditLInv, LInvType DEF Edit, compiler
  <1>3. ASSUME NEW t \in Tab, OpenPage(t) \/ Browser(t) \/ Cut(t) \/ ClosePage(t)
        PROVE  UNCHANGED <<disk, compiler, first>>
    BY <1>3 DEF OpenPage, Browser, Cut, ClosePage, ServeProgram, Arrive, Subscribe, Hello,
                Deliver, Reconnect, Server
  <1>4. QED
    BY <1>1, <1>2, <1>3, WatcherLInv DEF Next, vars, compiler

LEMMA LInvHolds ==
  ASSUME LiveReloadAssumption
  PROVE  Spec => [](IInv /\ LInv)
  <1>1. Init => IInv /\ LInv
    BY InitIInv, InitLInv
  <1>2. IInv /\ LInv /\ [Next]_vars => (IInv /\ LInv)'
    BY NextIInv, NextLInv DEF IInv
  <1>3. QED
    BY <1>1, <1>2, PTL DEF Spec

\* A watcher that waits and sees no difference on disk has brought the last save into
\* effect, or has its error on record, unless its very first snapshot already saw it.
WaitsWithLastSave == At("wait") /\ disk.v = dev.prev => first = disk.v \/ InEffect(disk)

\* A save is never missed, and one that comes in the middle of a compile is compiled by
\* the next: the snapshot is taken before the compile (watchAndReload, compile).
THEOREM NoSaveIsMissed ==
  ASSUME LiveReloadAssumption
  PROVE  Spec => []WaitsWithLastSave
  <1>1. IInv /\ LInv => WaitsWithLastSave
    BY LInvType DEF IInv, LInv, BuildFollows, Waiting, WaitsWithLastSave, At
  <1>2. QED
    BY <1>1, LInvHolds, PTL

\* The program served never goes back to an older save (LiveProgram.set).
THEOREM ServedProgramAdvances ==
  ASSUME LiveReloadAssumption
  PROVE  Spec => [][lp'.program >= lp.program]_vars
  <1>1. IInv /\ LInv /\ [Next]_vars => [lp'.program >= lp.program]_vars
    BY NextLInv DEF IInv
  <1>2. QED
    BY <1>1, LInvHolds, PTL DEF Spec
=============================================================================
