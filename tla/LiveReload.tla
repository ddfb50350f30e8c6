----------------------------- MODULE LiveReload -----------------------------
(***************************************************************************)
(* The `mar dev` loop: a watcher that polls the source files, compiles     *)
(* them in the process that is serving requests, swaps what is served, and *)
(* tells every open browser tab over a server-sent event stream; and the   *)
(* tabs, which fetch the program, run it, and show the last compile error. *)
(*                                                                         *)
(* The watcher is one goroutine and each tab has one more that copies its  *)
(* channel to the stream.  Each lock of LiveProgram and of ReloadHub is    *)
(* held for one call, so every step below is one such call.                *)
(***************************************************************************)
EXTENDS Naturals, Sequences, FiniteSets

CONSTANTS
  Tab,         \* browser tabs
  None,
  Kinds,       \* how the compile of an edited version may end
  QueueCap,    \* capacity of a subscriber's channel (4 in the code)
  MaxEdits,    \* bound: saves of the source
  MaxLoads     \* bound: page loads of one tab, the reloads of a lost stream included

\* "broken": does not parse or type check.  "refused": its main is evaluated and the
\* App.* builtin rejects it.  "blocked": its migration fails.
Kind == {"good", "broken", "refused", "blocked"}
Version == 0 .. MaxEdits

ASSUME LiveReloadAssumption ==
  /\ Kinds \subseteq Kind
  /\ QueueCap \in Nat \ {0} /\ MaxEdits \in Nat /\ MaxLoads \in Nat
  /\ None \notin Version

VARIABLES
  disk,      \* the source files: version and how its compile ends
  dev,       \* the watcher: its step, the version it compiles, the last snapshot
  lp,        \* LiveProgram: the program served and the last compile error
  registry,  \* version that filled the process-wide tables of entities and path enums
  tab,       \* each tab, with the server's end of its stream
  first,     \* observer: the version the watcher's first snapshot saw
  good       \* observer: the last version whose compile returned without an error

vars == <<disk, dev, lp, registry, tab, first, good>>
compiler == <<dev, lp, registry, good>>

\* The events of the stream; what the watcher tells the tabs.
ReloadEvent == [type |-> "reload", msg |-> None]
OkEvent == [type |-> "ok", msg |-> None]
ErrorEvent(v) == [type |-> "error", msg |-> v]

\* A tab is closed, loading, booted, subscribed, open or cut (its stream is lost).  Its
\* fetches are requests for program.json, numbered in the order it issued them, with the
\* version they were answered with.
\* behind (observer): what an event this tab will never see should have changed.
Blank == [pc |-> "closed", loads |-> 0, ran |-> None, ranAt |-> 0, panel |-> None,
          queue |-> <<>>, fetches |-> {}, issued |-> 0, behind |-> {}]

Init ==
  /\ disk = [v |-> 0, kind |-> "good"]
  /\ dev = [pc |-> "start", build |-> [v |-> 0, kind |-> "good"], prev |-> 0]
  /\ lp = [program |-> 0, error |-> None]
  /\ registry = 0
  /\ tab = [t \in Tab |-> Blank]
  /\ first = None
  /\ good = 0

\* A save.  It may come at any time, in the middle of a compile too.
Edit(k) ==
  /\ disk.v < MaxEdits
  /\ disk' = [v |-> disk.v + 1, kind |-> k]
  /\ UNCHANGED <<compiler, tab, first>>

-----------------------------------------------------------------------------
(* The watcher. *)

At(step) == dev.pc = step
Goto(step) == dev' = [dev EXCEPT !.pc = step]

\* prev := snapshot(), in the goroutine, some time after the first compile.
FirstSnapshot ==
  /\ At("start")
  /\ dev' = [dev EXCEPT !.pc = "wait", !.prev = disk.v]
  /\ first' = disk.v
  /\ UNCHANGED <<disk, lp, registry, tab, good>>

\* The snapshot precedes the compile: what is saved meanwhile differs from it.
Tick ==
  /\ At("wait")
  /\ disk.v # dev.prev
  /\ dev' = [dev EXCEPT !.pc = "reset", !.prev = disk.v]
  /\ UNCHANGED <<disk, lp, registry, tab, first, good>>

\* ResetForReload empties the tables while the served program still uses them.
Reset ==
  /\ At("reset")
  /\ registry' = None
  /\ Goto("parse")
  /\ UNCHANGED <<disk, lp, tab, first, good>>

Parse ==
  /\ At("parse")
  /\ dev' = [dev EXCEPT !.build = disk,
                        !.pc = IF disk.kind = "broken" THEN "fail" ELSE "load"]
  /\ UNCHANGED <<disk, lp, registry, tab, first, good>>

\* Evaluating the modules fills the tables, then main calls the App.* builtin.
Load ==
  /\ At("load")
  /\ registry' = dev.build.v
  /\ Goto(IF dev.build.kind = "refused" THEN "fail" ELSE "swap")
  /\ UNCHANGED <<disk, lp, tab, first, good>>

\* Mutant: The snapshot is taken when the compile is over, not before.
Swap_Resnapshots ==
  /\ At("swap")
  /\ lp' = [lp EXCEPT !.program = dev.build.v]
  /\ dev' = [dev EXCEPT !.pc = "migrate", !.prev = disk.v]
  /\ UNCHANGED <<disk, registry, tab, first, good>>

Swap ==
  /\ At("swap")
  /\ lp' = [lp EXCEPT !.program = dev.build.v]
  /\ Goto("migrate")
  /\ UNCHANGED <<disk, registry, tab, first, good>>

\* RunBootMigrations and bootAdminPanel: compile returns.
Migrate ==
  /\ At("migrate")
  /\ IF dev.build.kind = "blocked"
     THEN Goto("fail") /\ UNCHANGED good
     ELSE Goto("clear") /\ good' = dev.build.v
  /\ UNCHANGED <<disk, lp, registry, tab, first>>

SetError ==
  /\ At("fail")
  /\ lp' = [lp EXCEPT !.error = dev.build.v]
  /\ Goto("tellError")
  /\ UNCHANGED <<disk, registry, tab, first, good>>

ClearError ==
  /\ At("clear")
  /\ lp' = [lp EXCEPT !.error = None]
  /\ Goto(IF lp.error = None THEN "tellReload" ELSE "tellOk")
  /\ UNCHANGED <<disk, registry, tab, first, good>>

\* The hub's clients: from subscribe to the end of the handler.
Subscribed(t) == tab[t].pc \in {"subscribed", "open"}

\* A full channel drops the event.  An event sets the whole panel, so the next one
\* that gets through makes up for a lost one there.
Send(s, e) ==
  IF Len(s.queue) < QueueCap
  THEN [s EXCEPT !.queue = Append(@, e), !.behind = @ \ {"panel"}]
  ELSE [s EXCEPT !.behind = @ \cup {"panel"} \cup
                            (IF e = ReloadEvent THEN {"program"} ELSE {})]

Broadcast(e) == tab' = [t \in Tab |-> IF Subscribed(t) THEN Send(tab[t], e) ELSE tab[t]]

Tell(step, e, next) ==
  /\ At(step)
  /\ Broadcast(e)
  /\ Goto(next)
  /\ UNCHANGED <<disk, lp, registry, first, good>>

TellError == Tell("tellError", ErrorEvent(dev.build.v), "wait")
TellOk == Tell("tellOk", OkEvent, "tellReload")
TellReload == Tell("tellReload", ReloadEvent, "wait")

Watcher == \/ FirstSnapshot \/ Tick \/ Reset \/ Parse \/ Load \/ Swap \/ Migrate
           \/ SetError \/ ClearError \/ TellError \/ TellOk \/ TellReload

-----------------------------------------------------------------------------
(* The tabs. *)

Change(t, s) == tab' = [tab EXCEPT ![t] = s]
Server == <<disk, compiler, first>>

\* A page load starts fetching the program before the runtime is there to run it.
NewPage(s) == [Blank EXCEPT !.pc = "loading", !.loads = s.loads + 1,
                            !.fetches = {[n |-> 1, v |-> None]}, !.issued = 1]

OpenPage(t) ==
  /\ tab[t].pc = "closed"
  /\ tab[t].loads < MaxLoads
  /\ Change(t, NewPage(tab[t]))
  /\ UNCHANGED Server

\* The server answers with the program of that moment; answers may arrive in any order.
ServeProgram(t) ==
  /\ \E f \in tab[t].fetches :
       /\ f.v = None
       /\ Change(t, [tab[t] EXCEPT !.fetches = (@ \ {f}) \cup {[f EXCEPT !.v = lp.program]}])
  /\ UNCHANGED Server

\* Mutant: The page runs its program and never opens the stream.
Arrive_NoChannel(t) ==
  /\ \E f \in tab[t].fetches :
       /\ f.v # None
       /\ Change(t, [tab[t] EXCEPT !.fetches = @ \ {f}, !.ran = f.v, !.ranAt = f.n])
  /\ UNCHANGED Server

\* marRun of whatever arrives.  The first program also makes the page ready to subscribe.
Arrive(t) ==
  /\ \E f \in tab[t].fetches :
       /\ f.v # None
       /\ Change(t, [tab[t] EXCEPT !.fetches = @ \ {f}, !.ran = f.v, !.ranAt = f.n,
                                   !.pc = IF @ = "loading" THEN "booted" ELSE @])
  /\ UNCHANGED Server

\* setupDevChannel opens the stream: ServeReload subscribes first.  A program replaced
\* between the fetch and this may have been announced to nobody.
Subscribe(t) ==
  /\ tab[t].pc = "booted"
  /\ Change(t, [tab[t] EXCEPT !.pc = "subscribed",
                              !.behind = IF tab[t].ran = lp.program THEN {} ELSE {"program"}])
  /\ UNCHANGED Server

\* Mutant: A new stream is not told of the error there is.
Hello_Silent(t) ==
  /\ tab[t].pc = "subscribed"
  /\ Change(t, [tab[t] EXCEPT !.pc = "open"])
  /\ UNCHANGED Server

\* Then it reads LastError and sends it, ahead of everything in the channel.
Hello(t) ==
  /\ tab[t].pc = "subscribed"
  /\ Change(t, [tab[t] EXCEPT !.pc = "open", !.panel = IF lp.error = None THEN @ ELSE lp.error])
  /\ UNCHANGED Server

\* What onmessage does with an event; a reload fetches the program anew.
Handle(s, e) ==
  IF e.type = "reload"
  THEN [s EXCEPT !.panel = None, !.issued = @ + 1, !.behind = @ \ {"program"},
                 !.fetches = @ \cup {[n |-> s.issued + 1, v |-> None]}]
  ELSE [s EXCEPT !.panel = e.msg]

Deliver(t) ==
  /\ tab[t].pc = "open"
  /\ tab[t].queue # <<>>
  /\ Change(t, Handle([tab[t] EXCEPT !.queue = Tail(@)], Head(tab[t].queue)))
  /\ UNCHANGED Server

\* The stream breaks: the handler unsubscribes, what the channel held is lost.
Cut(t) ==
  /\ Subscribed(t)
  /\ tab[t].loads < MaxLoads
  /\ Change(t, [tab[t] EXCEPT !.pc = "cut", !.queue = <<>>])
  /\ UNCHANGED Server

\* EventSource reconnects, and the second onopen reloads the page.
Reconnect(t) ==
  /\ tab[t].pc = "cut"
  /\ Change(t, NewPage(tab[t]))
  /\ UNCHANGED Server

\* The user closes the tab.
ClosePage(t) ==
  /\ tab[t].pc # "closed"
  /\ Change(t, [Blank EXCEPT !.loads = tab[t].loads])
  /\ UNCHANGED Server

Browser(t) == \/ ServeProgram(t) \/ Arrive(t) \/ Subscribe(t) \/ Hello(t) \/ Deliver(t)
              \/ Reconnect(t)

Next == \/ \E k \in Kinds : Edit(k)
        \/ Watcher
        \/ \E t \in Tab : OpenPage(t) \/ Browser(t) \/ Cut(t) \/ ClosePage(t)

Spec == Init /\ [][Next]_vars

\* The ticker fires and the watcher's loop goes on; a request that was sent is answered,
\* a handler and an event loop make progress.  Nobody has to save, open or cut.
FairSpec == Spec /\ WF_vars(Watcher) /\ \A t \in Tab : WF_vars(Browser(t))

-----------------------------------------------------------------------------
(* Properties *)

\* The watcher has nothing to do, and the tab has taken in all it was sent.
Settled(t) == At("wait") /\ tab[t].pc = "open" /\ tab[t].queue = <<>>

\* A settled tab shows the compile error there is, whenever it connected: ServeReload
\* subscribes before it reads the last error, so an error is either read or received
\* (unless the channel was full and nothing has been sent since).  And while the last
\* compile succeeded it runs the program being served, but for three reasons: its stream
\* began after the program it loaded was replaced, its channel was full, or an earlier
\* fetch was answered after the last one.
ShowsBuildError(t) == "panel" \notin tab[t].behind => tab[t].panel = lp.error
RunsServed(t) ==
  /\ tab[t].fetches = {} /\ lp.error = None
  /\ "program" \notin tab[t].behind /\ tab[t].ranAt = tab[t].issued
  => tab[t].ran = lp.program
SettledTabCurrent == \A t \in Tab : Settled(t) => ShowsBuildError(t) /\ RunsServed(t)

\* A good save is served with its own tables; of any other the error is on record.
InEffect(save) ==
  IF save.kind = "good"
  THEN lp = [program |-> save.v, error |-> None] /\ registry = save.v /\ good = save.v
  ELSE lp.error = save.v

\* What is saved is served: once nobody saves any more the last version is served with
\* its own tables, or its error is on record (unless the watcher's first snapshot
\* already saw it).
LastSaveTakesEffect == <>[](first = disk.v \/ InEffect(disk))

\* No tab waits for ever: every open tab ends up connected with its events handled and
\* its fetches answered.
TabsSettle == \A t \in Tab : <>[](tab[t].pc = "closed" \/
                                  (tab[t].pc = "open" /\ tab[t].queue = <<>> /\ tab[t].fetches = {}))
=============================================================================
