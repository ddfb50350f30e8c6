---------------------------- MODULE TokenBucket ----------------------------
(***************************************************************************)
(* The gateway rate limiter: one token bucket per client address, shared   *)
(* by the goroutines that serve its requests.  A request reads the clock   *)
(* and only then takes the lock, so of two requests for a key the one with *)
(* the earlier time may be the second to touch the bucket.                 *)
(*                                                                         *)
(* Time is in ticks and tokens are in ticks too: a bucket gains one unit a *)
(* tick and a request costs TokenTicks units.                              *)
(***************************************************************************)
EXTENDS Integers

CONSTANTS
  Key,          \* client addresses
  Caller,       \* goroutines that serve requests
  Absent,
  Burst,        \* Policy.Burst
  TokenTicks,   \* 1 / Policy.Rate
  IdleTicks,    \* idleThreshold, an hour in the code
  MaxWait,      \* how long a caller waits for the lock, at most
  MaxTime       \* bound: the clock

Bucket == [tokens : Int, last : Nat]

TokenBucketAssumption ==
  /\ Burst \in Nat \ {0} /\ TokenTicks \in Nat \ {0}
  /\ IdleTicks \in Nat /\ MaxWait \in Nat /\ MaxTime \in Nat
  /\ Absent \notin Key \cup Int \cup Bucket

\* The refill of a whole bucket, and two waits for the lock, take less than the idle
\* threshold.  mar.json may say otherwise (requestsPerMinute 1 with burst 10000).
RefillsBeforeIdle == Burst * TokenTicks + 2 * MaxWait <= IdleTicks

VARIABLES
  now,      \* the clock
  keys,     \* Limiter.keys: the bucket of each key, or Absent
  call,     \* each caller: the key it calls Allow for and the time it sampled
  sweep,    \* the tick the eviction loop received, until it holds the lock
  first,    \* observer: the sample that created the first bucket of each key
  admitted  \* observer: requests admitted for each key

bucketVars == <<now, keys, call, sweep, first, admitted>>

Capacity == Burst * TokenTicks
Idle == [key |-> Absent, at |-> 0]

BucketInit ==
  /\ now = 0
  /\ keys = [k \in Key |-> Absent]
  /\ call = [c \in Caller |-> Idle]
  /\ sweep = Absent
  /\ first = [k \in Key |-> Absent]
  /\ admitted = [k \in Key |-> 0]

\* Time passes, but nobody waits for the lock longer than MaxWait.
Pass ==
  /\ now < MaxTime
  /\ \A c \in Caller : call[c].key # Absent => now < call[c].at + MaxWait
  /\ sweep # Absent => now < sweep + MaxWait
  /\ now' = now + 1
  /\ UNCHANGED <<keys, call, sweep, first, admitted>>

\* now := time.Now(), before l.mu.Lock().
Sample(c, k) ==
  /\ call[c].key = Absent
  /\ call' = [call EXCEPT ![c] = [key |-> k, at |-> now]]
  /\ UNCHANGED <<now, keys, sweep, first, admitted>>

LowerOf(a, b) == IF a < b THEN a ELSE b
Refilled(b, at) == LowerOf(b.tokens + (at - b.last), Capacity)

Admit(c, k, left) ==
  /\ keys' = [keys EXCEPT ![k] = [tokens |-> left - TokenTicks, last |-> call[c].at]]
  /\ admitted' = [admitted EXCEPT ![k] = @ + 1]

\* First seen: a full bucket, less one token.
AllowFirst(c) ==
  LET k == call[c].key IN
  /\ k # Absent
  /\ keys[k] = Absent
  /\ Admit(c, k, Capacity)
  /\ first' = [first EXCEPT ![k] = IF @ = Absent THEN call[c].at ELSE @]
  /\ call' = [call EXCEPT ![c] = Idle]
  /\ UNCHANGED <<now, sweep>>

\* Mutant: A refusal keeps the refilled tokens but not the time they were counted to.
AllowAgain_KeepsLast(c) ==
  LET k == call[c].key
      left == Refilled(keys[k], call[c].at)
  IN
  /\ k # Absent
  /\ keys[k] # Absent
  /\ \/ left >= TokenTicks /\ Admit(c, k, left)
     \/ left < TokenTicks /\ keys' = [keys EXCEPT ![k].tokens = left] /\ UNCHANGED admitted
  /\ call' = [call EXCEPT ![c] = Idle]
  /\ UNCHANGED <<now, sweep, first>>

AllowAgain(c) ==
  LET k == call[c].key
      left == Refilled(keys[k], call[c].at)
  IN
  /\ k # Absent
  /\ keys[k] # Absent
  /\ \/ left >= TokenTicks /\ Admit(c, k, left)
     \/ /\ left < TokenTicks
        /\ keys' = [keys EXCEPT ![k] = [tokens |-> left, last |-> call[c].at]]
        /\ UNCHANGED admitted
  /\ call' = [call EXCEPT ![c] = Idle]
  /\ UNCHANGED <<now, sweep, first>>

\* now := <-tick.C; the sweep of the whole map is one critical section.
EvictTick ==
  /\ sweep = Absent
  /\ sweep' = now
  /\ UNCHANGED <<now, keys, call, first, admitted>>

Evict ==
  /\ sweep # Absent
  /\ keys' = [k \in Key |-> IF keys[k] # Absent /\ sweep - keys[k].last > IdleTicks
                            THEN Absent ELSE keys[k]]
  /\ sweep' = Absent
  /\ UNCHANGED <<now, call, first, admitted>>

BucketNext ==
  \/ Pass \/ EvictTick \/ Evict
  \/ \E c \in Caller : (\E k \in Key : Sample(c, k)) \/ AllowFirst(c) \/ AllowAgain(c)

BucketSpec == BucketInit /\ [][BucketNext]_bucketVars

-----------------------------------------------------------------------------
BucketTypeOK ==
  /\ now \in Nat
  /\ keys \in [Key -> Bucket \cup {Absent}]
  /\ call \in [Caller -> [key : Key \cup {Absent}, at : Nat]]
  /\ sweep \in Nat \cup {Absent}
  /\ first \in [Key -> Nat \cup {Absent}]
  /\ admitted \in [Key -> Nat]

\* However the samples are reordered between the clock and the lock, and although idle
\* buckets are thrown away, a key is never admitted more than the burst and what the
\* rate yields since its first request (Allow, evict).
AdmittedBound ==
  RefillsBeforeIdle =>
    \A k \in Key : admitted[k] > 0 =>
      admitted[k] * TokenTicks <= Capacity + (now - first[k])
=============================================================================
