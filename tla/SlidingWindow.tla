--------------------------- MODULE SlidingWindow ---------------------------
(***************************************************************************)
(* The limiter of the sign-in endpoints: at most Max events per key in any *)
(* Window ticks.  Allow reads the clock under the lock, so the hits of a   *)
(* key are in order; only the sweep of idle keys uses an earlier time.     *)
(***************************************************************************)
EXTENDS Naturals, Sequences, FiniteSets

CONSTANTS
  Sender,   \* the keys: email addresses, or client addresses
  Never,
  Max,      \* hits allowed per window (3 per email, 20 per address in the code)
  Window,   \* the window (an hour in the code)
  MaxClock  \* bound: the clock

SlidingWindowAssumption == Max \in Nat \ {0} /\ Window \in Nat \ {0} /\ MaxClock \in Nat /\ Never \notin Nat

VARIABLES
  clock,
  hits,      \* Limiter.hits: the times kept for each key; <<>> when it has no entry
  received,  \* the tick the eviction loop received, until it holds the lock
  retry,     \* for each key: when the last refusal said a new attempt would be allowed
  events     \* observer: the times at which each key was allowed

windowVars == <<clock, hits, received, retry, events>>

WindowInit ==
  /\ clock = 0
  /\ hits = [k \in Sender |-> <<>>]
  /\ received = Never
  /\ retry = [k \in Sender |-> Never]
  /\ events = [k \in Sender |-> <<>>]

WindowPass ==
  /\ clock < MaxClock
  /\ clock' = clock + 1
  /\ UNCHANGED <<hits, received, retry, events>>

\* Mutant: A hit exactly Window ago still counts.
InWindow_Closed(t, at) == t + Window >= at

\* t.After(now - window)
InWindow(t, at) == t + Window > at

\* The loop that drops the entries outside of the window.
Fresh(s, at) ==
  LET kept[i \in 0 .. Len(s)] ==
        IF i = 0 THEN <<>>
        ELSE IF InWindow(s[i], at) THEN Append(kept[i - 1], s[i]) ELSE kept[i - 1]
  IN  kept[Len(s)]
Kept(k) == Fresh(hits[k], clock)

Allow(k) ==
  /\ Len(Kept(k)) < Max
  /\ hits' = [hits EXCEPT ![k] = Append(Kept(k), clock)]
  /\ events' = [events EXCEPT ![k] = Append(@, clock)]
  /\ retry' = [retry EXCEPT ![k] = Never]
  /\ UNCHANGED <<clock, received>>

Refuse(k) ==
  /\ Len(Kept(k)) >= Max
  /\ hits' = [hits EXCEPT ![k] = Kept(k)]
  /\ retry' = [retry EXCEPT ![k] = Kept(k)[1] + Window]
  /\ UNCHANGED <<clock, received, events>>

ReceiveTick ==
  /\ received = Never
  /\ received' = clock
  /\ UNCHANGED <<clock, hits, retry, events>>

\* A key whose newest hit is out of the window is dropped: there is nothing to keep.
EvictIdle ==
  /\ received # Never
  /\ hits' = [k \in Sender |->
                IF hits[k] # <<>> /\ ~InWindow(hits[k][Len(hits[k])], received)
                THEN <<>> ELSE hits[k]]
  /\ received' = Never
  /\ UNCHANGED <<clock, retry, events>>

WindowNext == WindowPass \/ ReceiveTick \/ EvictIdle \/ \E k \in Sender : Allow(k) \/ Refuse(k)

WindowSpec == WindowInit /\ [][WindowNext]_windowVars

-----------------------------------------------------------------------------
\* No window of the given length ever holds more than Max events of a key, whatever is
\* evicted in between; and once the time a refusal announced has come, the next attempt
\* is allowed (Allow, evict).
WindowBound ==
  \A k \in Sender :
    /\ \A i \in 1 .. Len(events[k]) - Max : events[k][i] + Window <= events[k][i + Max]
    /\ retry[k] # Never /\ clock >= retry[k] => Len(Kept(k)) < Max

-----------------------------------------------------------------------------
(* What the limiter promises: the decisions of one that forgets nothing.   *)

\* The events of the window that ends now, of all there ever were.
Recent(k) == {i \in 1 .. Len(events[k]) : InWindow(events[k][i], clock)}

ExactInit ==
  /\ clock = 0
  /\ retry = [k \in Sender |-> Never]
  /\ events = [k \in Sender |-> <<>>]

ExactPass == clock' = clock + 1 /\ UNCHANGED <<retry, events>>

ExactAllow(k) ==
  /\ Cardinality(Recent(k)) < Max
  /\ events' = [events EXCEPT ![k] = Append(@, clock)]
  /\ retry' = [retry EXCEPT ![k] = Never]
  /\ UNCHANGED clock

\* When the oldest of the last Max events leaves the window, there is room for one.
ExactRefuse(k) ==
  /\ Cardinality(Recent(k)) >= Max
  /\ retry' = [retry EXCEPT ![k] = events[k][Len(events[k]) - Max + 1] + Window]
  /\ UNCHANGED <<clock, events>>

ExactNext == ExactPass \/ \E k \in Sender : ExactAllow(k) \/ ExactRefuse(k)

\* "no information to keep" (auth/ratelimit.go): dropping hits and whole keys changes no
\* decision and no announced time (Allow, evict).
ExactSpec == ExactInit /\ [][ExactNext]_<<clock, retry, events>>
=============================================================================
