--------------------------- MODULE LimiterProofs ---------------------------
(***************************************************************************)
(* The bounds of the two limiters, and that neither forgets what matters.  *)
(*                                                                         *)
(* The bucket's bound on the admissions of a key holds for every burst,    *)
(* rate, number of callers and order of their steps.  What makes it        *)
(* inductive is the bucket's age, last - tokens: the time at which it      *)
(* would have been empty.  A refill never lowers it, not even one with an  *)
(* earlier time, an admission raises it by one token, and no admission can *)
(* raise it past the time of its own sample.                               *)
(*                                                                         *)
(* The window's bound holds for every limit, length and use.  The hits a   *)
(* key has are the last of all its events, and every event before them has *)
(* left the window; the loop that drops the old ones keeps it so, because  *)
(* the hits are in order.                                                  *)
(*                                                                         *)
(* Two refinements say the same of every answer: the bucket decides as an  *)
(* account of the key that is never dropped, and the hits as the whole     *)
(* history of the key.                                                     *)
(***************************************************************************)
EXTENDS TokenBucket, SlidingWindow, WellFoundedInduction, SequenceTheorems,
        FiniteSetTheorems, TLAPS

Age(b) == b.last - b.tokens

\* Nobody waits for the lock longer than MaxWait.
WaitsBounded ==
  /\ \A c \in Caller : call[c].key # Absent => call[c].at <= now /\ now <= call[c].at + MaxWait
  /\ sweep # Absent => sweep <= now /\ now <= sweep + MaxWait

Cost(k) == admitted[k] * TokenTicks

BucketInv(k) ==
  keys[k] # Absent =>
    /\ first[k] # Absent
    /\ Age(keys[k]) <= now
    /\ Age(keys[k]) <= keys[k].last + MaxWait
    /\ keys[k].last <= now
    /\ Cost(k) <= Capacity - first[k] + Age(keys[k])

\* After an eviction the next bucket may start with any sample not yet applied.
EvictedInv(k) ==
  keys[k] = Absent /\ first[k] # Absent =>
    /\ Cost(k) <= now - first[k]
    /\ \A c \in Caller : call[c].key # Absent => Cost(k) <= call[c].at - first[k]

SeenInv(k) == first[k] = Absent <=> admitted[k] = 0

IInv ==
  /\ BucketTypeOK
  /\ WaitsBounded
  /\ \A k \in Key : BucketInv(k) /\ EvictedInv(k) /\ SeenInv(k)

\* One token more costs TokenTicks more.
LEMMA CostStep ==
  ASSUME NEW a \in Nat, NEW t \in Nat
  PROVE  (a + 1) * t = a * t + t /\ a * t \in Nat /\ 0 * t = 0
  OBVIOUS

LEMMA CapacityFacts ==
  ASSUME TokenBucketAssumption
  PROVE  Capacity \in Nat /\ TokenTicks \in Nat \ {0} /\ TokenTicks <= Capacity
  <1> DEFINE b == Burst - 1
  <1>1. b \in Nat /\ TokenTicks \in Nat /\ Burst = b + 1
    BY DEF TokenBucketAssumption
  <1>2. (b + 1) * TokenTicks = b * TokenTicks + TokenTicks /\ b * TokenTicks \in Nat
    BY <1>1, CostStep
  <1>3. QED
    BY <1>1, <1>2 DEF Capacity, TokenBucketAssumption

USE DEF Idle, Bucket

LEMMA CostTyped ==
  ASSUME TokenBucketAssumption, BucketTypeOK, NEW k \in Key
  PROVE  Cost(k) \in Nat
  BY CostStep DEF Cost, BucketTypeOK, TokenBucketAssumption

LEMMA InitIInv ==
  ASSUME TokenBucketAssumption, BucketInit
  PROVE  IInv
  BY DEF BucketInit, IInv, BucketTypeOK, WaitsBounded, BucketInv, EvictedInv, SeenInv

LEMMA TickIInv ==
  ASSUME TokenBucketAssumption, IInv, Pass
  PROVE  IInv'
  <1>1. BucketTypeOK'
    BY DEF IInv, BucketTypeOK, Pass
  <1>2. WaitsBounded'
    BY DEF IInv, BucketTypeOK, WaitsBounded, Pass, TokenBucketAssumption
  <1>3. ASSUME NEW k \in Key PROVE (BucketInv(k) /\ EvictedInv(k) /\ SeenInv(k))'
    <2>1. Cost(k)' = Cost(k) /\ Cost(k) \in Nat
      BY CostTyped DEF Cost, Pass, IInv
    <2>2. QED
      BY <2>1 DEF IInv, BucketTypeOK, BucketInv, EvictedInv, SeenInv, Age, Pass
  <1>4. QED
    BY <1>1, <1>2, <1>3 DEF IInv

LEMMA SampleIInv ==
  ASSUME TokenBucketAssumption, IInv, NEW c \in Caller, NEW k \in Key, Sample(c, k)
  PROVE  IInv'
  <1>1. BucketTypeOK'
    BY DEF IInv, BucketTypeOK, Sample
  <1>2. WaitsBounded'
    BY DEF IInv, BucketTypeOK, WaitsBounded, Sample, TokenBucketAssumption
  <1>3. ASSUME NEW j \in Key PROVE (BucketInv(j) /\ EvictedInv(j) /\ SeenInv(j))'
    <2>1. Cost(j)' = Cost(j) /\ Cost(j) \in Nat
      BY CostTyped DEF Cost, Sample, IInv
    <2>2. QED
      BY <2>1 DEF IInv, BucketTypeOK, BucketInv, EvictedInv, SeenInv, Age, Sample
  <1>4. QED
    BY <1>1, <1>2, <1>3 DEF IInv

\* A key another caller asks for keeps its facts: its bucket, its first sample and its
\* admissions do not change, and no new sample of it appears.
LEMMA OtherKeyKept ==
  ASSUME TokenBucketAssumption, IInv, NEW c \in Caller, NEW k \in Key,
         keys'[k] = keys[k], first'[k] = first[k], admitted'[k] = admitted[k],
         now' = now, call' = [call EXCEPT ![c] = Idle]
  PROVE  (BucketInv(k) /\ EvictedInv(k) /\ SeenInv(k))'
  <1>1. Cost(k)' = Cost(k)
    BY DEF Cost
  <1>2. \A d \in Caller : call'[d].key # Absent => call[d].key # Absent /\ call'[d].at = call[d].at
    BY DEF IInv, BucketTypeOK
  <1>3. QED
    BY <1>1, <1>2 DEF IInv, BucketInv, EvictedInv, SeenInv, Age

LEMMA AllowFirstIInv ==
  ASSUME TokenBucketAssumption, IInv, NEW c \in Caller, AllowFirst(c)
  PROVE  IInv'
  <1>a. PICK k \in Key : k = call[c].key /\ k # Absent
    BY DEF IInv, BucketTypeOK, AllowFirst
  <1>b. PICK s \in Nat : s = call[c].at
    BY DEF IInv, BucketTypeOK
  <1>1. k \in Key /\ s \in Nat /\ k # Absent /\ k = call[c].key /\ s = call[c].at
    BY <1>a, <1>b
  <1>2. s <= now /\ now <= s + MaxWait
    BY <1>1 DEF IInv, WaitsBounded
  <1>3. Capacity \in Nat /\ TokenTicks \in Nat \ {0} /\ TokenTicks <= Capacity /\ MaxWait \in Nat
    BY CapacityFacts DEF TokenBucketAssumption
  <1>4. /\ keys' = [keys EXCEPT ![k] = [tokens |-> Capacity - TokenTicks, last |-> s]]
        /\ admitted' = [admitted EXCEPT ![k] = @ + 1]
        /\ first' = [first EXCEPT ![k] = IF @ = Absent THEN s ELSE @]
        /\ call' = [call EXCEPT ![c] = Idle]
        /\ keys[k] = Absent
        /\ now' = now /\ sweep' = sweep
    BY <1>1 DEF AllowFirst, Admit
  <1>5. BucketTypeOK'
    BY <1>1, <1>3, <1>4 DEF IInv, BucketTypeOK
  <1>6. WaitsBounded'
    BY <1>4 DEF IInv, BucketTypeOK, WaitsBounded
  <1>7. Cost(k) \in Nat /\ Cost(k)' = Cost(k) + TokenTicks
    <2>1. admitted[k] \in Nat /\ admitted'[k] = admitted[k] + 1
      BY <1>1, <1>4 DEF IInv, BucketTypeOK
    <2>2. (admitted[k] + 1) * TokenTicks = admitted[k] * TokenTicks + TokenTicks
      BY <1>3, <2>1, CostStep
    <2>3. Cost(k) \in Nat
      BY <1>1, CostTyped DEF IInv
    <2>4. QED
      BY <2>1, <2>2, <2>3 DEF Cost
  <1>8. (BucketInv(k) /\ EvictedInv(k) /\ SeenInv(k))'
    <2>1. keys'[k] = [tokens |-> Capacity - TokenTicks, last |-> s]
      BY <1>1, <1>4 DEF IInv, BucketTypeOK
    <2>2. keys'[k].last = s /\ keys'[k].tokens = Capacity - TokenTicks
      BY <2>1
    <2>3. Cost(k)' <= Capacity - first'[k] + (s - (Capacity - TokenTicks))
      <3>1. CASE first[k] = Absent
        <4>1. Cost(k) = 0
          BY <1>1, <1>3, <3>1, CostStep DEF IInv, SeenInv, Cost
        <4>2. first'[k] = s
          BY <1>1, <1>4, <3>1 DEF IInv, BucketTypeOK
        <4>3. QED
          BY <1>1, <1>3, <1>7, <4>1, <4>2
      <3>2. CASE first[k] # Absent
        <4>1. first'[k] = first[k] /\ first[k] \in Nat
          BY <1>1, <1>4, <3>2 DEF IInv, BucketTypeOK
        <4>2. Cost(k) <= s - first[k]
          BY <1>1, <1>4, <3>2 DEF IInv, EvictedInv
        <4>3. QED
          BY <1>1, <1>3, <1>7, <4>1, <4>2
      <3>3. QED
        BY <3>1, <3>2
    <2>4. first'[k] # Absent /\ admitted'[k] # 0 /\ keys'[k] # Absent
      <3>1. keys'[k] \in Bucket /\ Absent \notin Bucket /\ Absent \notin Nat
        BY <1>1, <1>3, <2>1 DEF TokenBucketAssumption
      <3>2. admitted'[k] = admitted[k] + 1 /\ admitted[k] \in Nat
        BY <1>1, <1>4 DEF IInv, BucketTypeOK
      <3>3. first'[k] # Absent
        BY <1>1, <1>4, <3>1 DEF IInv, BucketTypeOK
      <3>4. QED
        BY <3>1, <3>2, <3>3
    <2>5. QED
      <3>1. now \in Nat /\ now' = now
        BY <1>4 DEF IInv, BucketTypeOK
      <3>2. BucketInv(k)'
        BY <1>1, <1>2, <1>3, <2>2, <2>3, <2>4, <3>1 DEF BucketInv, Age
      <3>3. EvictedInv(k)' /\ SeenInv(k)'
        BY <2>4 DEF EvictedInv, SeenInv
      <3>4. QED
        BY <3>2, <3>3
  <1>9. ASSUME NEW j \in Key PROVE (BucketInv(j) /\ EvictedInv(j) /\ SeenInv(j))'
    <2>1. CASE j = k
      BY <1>8, <2>1
    <2>2. CASE j # k
      <3>1. keys'[j] = keys[j] /\ first'[j] = first[j] /\ admitted'[j] = admitted[j]
        BY <1>1, <1>4, <2>2 DEF IInv, BucketTypeOK
      <3>2. QED
        BY <1>4, <3>1, OtherKeyKept
    <2>3. QED
      BY <2>1, <2>2
  <1>10. QED
    BY <1>5, <1>6, <1>9 DEF IInv

\* A refill in ticks: the age never falls, and stays at or below the sample's own time
\* plus the wait.
LEMMA RefillFacts ==
  ASSUME NEW b \in Bucket, NEW s \in Nat, Capacity \in Nat
  PROVE  /\ Refilled(b, s) \in Int /\ Age(b) \in Int
         /\ Age(b) <= s - Refilled(b, s)
         /\ s - Refilled(b, s) <= Age(b) \/ s - Refilled(b, s) = s - Capacity
  BY DEF Refilled, LowerOf, Age

LEMMA AllowAgainIInv ==
  ASSUME TokenBucketAssumption, IInv, NEW c \in Caller, AllowAgain(c)
  PROVE  IInv'
  <1>a. PICK k \in Key : k = call[c].key /\ k # Absent
    BY DEF IInv, BucketTypeOK, AllowAgain
  <1>b. PICK s \in Nat : s = call[c].at
    BY DEF IInv, BucketTypeOK
  <1>c. PICK b \in Bucket : b = keys[k]
    BY <1>a DEF IInv, BucketTypeOK, AllowAgain
  <1>1. Capacity \in Nat /\ TokenTicks \in Nat \ {0} /\ TokenTicks <= Capacity /\ MaxWait \in Nat
    BY CapacityFacts DEF TokenBucketAssumption
  <1>d. PICK left \in Int : left = Refilled(b, s)
    BY <1>1, RefillFacts
  <1>2. s <= now /\ now <= s + MaxWait /\ now \in Nat
    BY <1>a, <1>b DEF IInv, WaitsBounded, BucketTypeOK
  <1>3. /\ Age(b) <= s - left
        /\ s - left <= Age(b) \/ s - left = s - Capacity
        /\ Age(b) \in Int /\ Age(b) <= now
    <2>1. Age(keys[k]) <= now
      BY <1>a DEF IInv, BucketInv, AllowAgain
    <2>2. QED
      BY <1>1, <1>d, <1>c, <2>1, RefillFacts
  <1>4. /\ keys[k] # Absent /\ first[k] # Absent /\ first[k] \in Nat
        /\ Cost(k) \in Nat /\ Cost(k) <= Capacity - first[k] + Age(b)
    BY <1>a, <1>c, CostTyped DEF IInv, BucketTypeOK, BucketInv, AllowAgain
  <1>5. /\ call' = [call EXCEPT ![c] = Idle]
        /\ now' = now /\ sweep' = sweep /\ first' = first
    BY DEF AllowAgain
  <1>6. \/ /\ left >= TokenTicks
           /\ keys' = [keys EXCEPT ![k] = [tokens |-> left - TokenTicks, last |-> s]]
           /\ admitted' = [admitted EXCEPT ![k] = @ + 1]
        \/ /\ left < TokenTicks
           /\ keys' = [keys EXCEPT ![k] = [tokens |-> left, last |-> s]]
           /\ admitted' = admitted
    BY <1>a, <1>b, <1>c, <1>d DEF AllowAgain, Admit
  <1>7. BucketTypeOK'
    BY <1>a, <1>b, <1>d, <1>1, <1>5, <1>6 DEF IInv, BucketTypeOK
  <1>8. WaitsBounded'
    BY <1>5 DEF IInv, BucketTypeOK, WaitsBounded
  <1>9. (BucketInv(k) /\ EvictedInv(k) /\ SeenInv(k))'
    <2>1. CASE left >= TokenTicks
      <3>1. keys'[k] = [tokens |-> left - TokenTicks, last |-> s]
        BY <1>6, <2>1, <1>a, <1>1 DEF IInv, BucketTypeOK
      <3>2. admitted[k] \in Nat /\ admitted'[k] = admitted[k] + 1
        BY <1>6, <2>1, <1>a, <1>1 DEF IInv, BucketTypeOK
      <3>3. Cost(k)' = Cost(k) + TokenTicks
        BY <3>2, <1>1, CostStep DEF Cost
      <3>4. keys'[k] # Absent /\ keys'[k].last = s /\ keys'[k].tokens = left - TokenTicks
        BY <3>1, <1>c, <1>d, <1>1 DEF TokenBucketAssumption
      <3>5. BucketInv(k)'
        BY <1>b, <1>1, <1>2, <1>3, <1>4, <1>5, <2>1, <3>3, <3>4 DEF BucketInv, Age
      <3>6. EvictedInv(k)' /\ SeenInv(k)'
        BY <3>2, <3>4, <1>4, <1>5 DEF EvictedInv, SeenInv
      <3>7. QED
        BY <3>5, <3>6
    <2>2. CASE left < TokenTicks
      <3>1. keys'[k] = [tokens |-> left, last |-> s]
        BY <1>6, <2>2, <1>a, <1>1 DEF IInv, BucketTypeOK
      <3>2. admitted' = admitted /\ Cost(k)' = Cost(k)
        BY <1>6, <2>2, <1>1 DEF Cost
      <3>3. keys'[k] # Absent /\ keys'[k].last = s /\ keys'[k].tokens = left
        BY <3>1 DEF TokenBucketAssumption
      <3>4. Age(b) <= s + MaxWait
        BY <1>b, <1>1, <1>2, <1>3
      <3>5. BucketInv(k)'
        BY <1>b, <1>1, <1>2, <1>3, <1>4, <1>5, <2>2, <3>2, <3>3, <3>4 DEF BucketInv, Age
      <3>6. EvictedInv(k)' /\ SeenInv(k)'
        BY <1>a, <3>2, <3>3, <1>5 DEF EvictedInv, SeenInv, IInv
      <3>7. QED
        BY <3>5, <3>6
    <2>3. QED
      BY <1>1, <1>d, <2>1, <2>2
  <1>10. ASSUME NEW j \in Key PROVE (BucketInv(j) /\ EvictedInv(j) /\ SeenInv(j))'
    <2>1. CASE j = k
      BY <1>9, <2>1
    <2>2. CASE j # k
      <3>1. keys'[j] = keys[j] /\ first'[j] = first[j] /\ admitted'[j] = admitted[j]
        BY <1>5, <1>6, <2>2 DEF IInv, BucketTypeOK
      <3>2. QED
        BY <1>5, <3>1, OtherKeyKept
    <2>3. QED
      BY <2>1, <2>2
  <1>11. QED
    BY <1>7, <1>8, <1>10 DEF IInv

LEMMA EvictTickIInv ==
  ASSUME TokenBucketAssumption, IInv, EvictTick
  PROVE  IInv'
  <1>1. BucketTypeOK' /\ WaitsBounded'
    BY DEF IInv, BucketTypeOK, WaitsBounded, EvictTick, TokenBucketAssumption
  <1>2. ASSUME NEW k \in Key PROVE (BucketInv(k) /\ EvictedInv(k) /\ SeenInv(k))'
    BY DEF IInv, BucketInv, EvictedInv, SeenInv, Age, Cost, EvictTick
  <1>3. QED
    BY <1>1, <1>2 DEF IInv

\* An evicted bucket is older than any sample not yet applied by more than a whole refill.
LEMMA EvictIInv ==
  ASSUME TokenBucketAssumption, RefillsBeforeIdle, IInv, Evict
  PROVE  IInv'
  <1>1. Capacity \in Nat /\ MaxWait \in Nat /\ IdleTicks \in Nat
        /\ Capacity + 2 * MaxWait <= IdleTicks
    BY CapacityFacts DEF TokenBucketAssumption, RefillsBeforeIdle, Capacity
  <1>2. BucketTypeOK'
    BY DEF IInv, BucketTypeOK, Evict
  <1>3. WaitsBounded'
    BY DEF IInv, BucketTypeOK, WaitsBounded, Evict
  <1>4. ASSUME NEW k \in Key PROVE (BucketInv(k) /\ EvictedInv(k) /\ SeenInv(k))'
    <2>1. Cost(k)' = Cost(k) /\ Cost(k) \in Nat /\ first' = first /\ call' = call /\ now' = now
      BY CostTyped DEF Cost, IInv, Evict
    <2>2. SeenInv(k)'
      BY DEF IInv, SeenInv, Evict
    <2>3. CASE keys'[k] = keys[k]
      BY <2>1, <2>2, <2>3 DEF IInv, BucketInv, EvictedInv, Age
    <2>4. CASE keys'[k] # keys[k]
      <3>1. keys[k] # Absent /\ sweep - keys[k].last > IdleTicks /\ keys'[k] = Absent /\ sweep # Absent
        BY <2>4 DEF Evict
      <3>2. /\ keys[k] \in Bucket /\ sweep \in Nat /\ now \in Nat /\ sweep <= now
            /\ first[k] # Absent /\ first[k] \in Nat
        BY <3>1 DEF IInv, BucketTypeOK, WaitsBounded, BucketInv
      <3>3. Cost(k) <= Capacity - first[k] + Age(keys[k]) /\ Age(keys[k]) <= keys[k].last + MaxWait
        BY <3>1 DEF IInv, BucketInv
      <3>4. Age(keys[k]) \in Int
        BY <3>2 DEF Age
      <3>5. Cost(k) + first[k] <= now - MaxWait
        BY <1>1, <2>1, <3>1, <3>2, <3>3, <3>4
      <3>6. ASSUME NEW d \in Caller, call[d].key # Absent
            PROVE  Cost(k) <= call[d].at - first[k]
        <4>1. call[d].at \in Nat /\ now <= call[d].at + MaxWait
          BY <3>6 DEF IInv, BucketTypeOK, WaitsBounded
        <4>2. QED
          BY <1>1, <2>1, <3>2, <3>5, <4>1
      <3>7. Cost(k) <= now - first[k]
        BY <1>1, <2>1, <3>2, <3>5
      <3>8. QED
        BY <2>1, <2>2, <3>1, <3>6, <3>7 DEF BucketInv, EvictedInv
    <2>5. QED
      BY <2>3, <2>4
  <1>5. QED
    BY <1>2, <1>3, <1>4 DEF IInv

LEMMA IInvStep ==
  ASSUME TokenBucketAssumption, RefillsBeforeIdle, IInv, [BucketNext]_bucketVars
  PROVE  IInv'
  <1>1. CASE Pass
    BY <1>1, TickIInv
  <1>2. ASSUME NEW c \in Caller, NEW k \in Key, Sample(c, k) PROVE IInv'
    BY <1>2, SampleIInv
  <1>3. ASSUME NEW c \in Caller, AllowFirst(c) PROVE IInv'
    BY <1>3, AllowFirstIInv
  <1>4. ASSUME NEW c \in Caller, AllowAgain(c) PROVE IInv'
    BY <1>4, AllowAgainIInv
  <1>5. CASE EvictTick
    BY <1>5, EvictTickIInv
  <1>6. CASE Evict
    BY <1>6, EvictIInv
  <1>7. CASE UNCHANGED bucketVars
    BY <1>7 DEF bucketVars, IInv, BucketTypeOK, WaitsBounded, BucketInv, EvictedInv, SeenInv, Cost, Age
  <1>8. QED
    BY <1>1, <1>2, <1>3, <1>4, <1>5, <1>6, <1>7 DEF BucketNext

\* The types, and the bound on the admissions of every key, whatever the burst, the rate,
\* the number of callers and the order in which they take the lock (Allow, evict).
THEOREM AdmittedBoundHolds ==
  ASSUME TokenBucketAssumption, RefillsBeforeIdle
  PROVE  BucketSpec => [](BucketTypeOK /\ AdmittedBound)
  <1>1. BucketInit => IInv
    BY InitIInv
  <1>2. IInv /\ [BucketNext]_bucketVars => IInv'
    BY IInvStep
  <1>3. IInv => BucketTypeOK /\ AdmittedBound
    <2> SUFFICES ASSUME IInv, NEW k \in Key, admitted[k] > 0
                 PROVE  admitted[k] * TokenTicks <= Capacity + (now - first[k])
      BY DEF AdmittedBound, IInv
    <2>1. Capacity \in Nat /\ now \in Nat /\ first[k] # Absent /\ first[k] \in Nat /\ Cost(k) \in Nat
      BY CapacityFacts, CostTyped DEF IInv, BucketTypeOK, SeenInv
    <2>2. CASE keys[k] = Absent
      BY <2>1, <2>2 DEF IInv, EvictedInv, Cost
    <2>3. CASE keys[k] # Absent
      <3>1. Age(keys[k]) \in Int /\ Age(keys[k]) <= now
        BY <2>3 DEF IInv, BucketTypeOK, BucketInv, Age
      <3>2. QED
        BY <2>1, <2>3, <3>1 DEF IInv, BucketInv, Cost
    <2>4. QED
      BY <2>2, <2>3
  <1>4. QED
    BY <1>1, <1>2, <1>3, PTL DEF BucketSpec

-----------------------------------------------------------------------------
(* The account that is never dropped                                       *)

VARIABLES
  empty,    \* history: when the account of each key would be empty, Absent before its first request
  refused   \* history: requests refused for each key

accountVars == <<now, call, admitted, empty, refused>>

\* What the limiter promises: a key has an account from its first request on, which fills up
\* to the burst and is charged for every request that is admitted; nothing else is kept, and
\* nothing is dropped.
Level(k, at) == IF empty[k] = Absent THEN Capacity ELSE LowerOf(at - empty[k], Capacity)
Charged(k, at) == at - Level(k, at) + TokenTicks

AccountInit ==
  /\ now = 0
  /\ call = [c \in Caller |-> Idle]
  /\ admitted = [k \in Key |-> 0]
  /\ empty = [k \in Key |-> Absent]
  /\ refused = [k \in Key |-> 0]

AccountPass == now' = now + 1 /\ UNCHANGED <<call, admitted, empty, refused>>

AccountSample(c, k) ==
  /\ call[c].key = Absent
  /\ call' = [call EXCEPT ![c] = [key |-> k, at |-> now]]
  /\ UNCHANGED <<now, admitted, empty, refused>>

AccountAdmits(c) ==
  LET k == call[c].key
      at == call[c].at
  IN
  /\ k # Absent
  /\ Level(k, at) >= TokenTicks
  /\ empty' = [empty EXCEPT ![k] = Charged(k, at)]
  /\ admitted' = [admitted EXCEPT ![k] = @ + 1]
  /\ call' = [call EXCEPT ![c] = Idle]
  /\ UNCHANGED <<now, refused>>

AccountRefuses(c) ==
  LET k == call[c].key
      at == call[c].at
  IN
  /\ k # Absent
  /\ Level(k, at) < TokenTicks
  /\ refused' = [refused EXCEPT ![k] = @ + 1]
  /\ call' = [call EXCEPT ![c] = Idle]
  /\ UNCHANGED <<now, admitted, empty>>

AccountNext ==
  \/ AccountPass
  \/ \E c \in Caller : (\E k \in Key : AccountSample(c, k)) \/ AccountAdmits(c) \/ AccountRefuses(c)

AccountSpec == AccountInit /\ [][AccountNext]_accountVars

\* The buckets with the two history variables, which take note of a decision and never
\* have a part in it.
Noted(c) ==
  LET k == call[c].key
      at == call[c].at
  IN
  IF admitted' = admitted
  THEN refused' = [refused EXCEPT ![k] = @ + 1] /\ UNCHANGED empty
  ELSE empty' = [empty EXCEPT ![k] = Charged(k, at)] /\ UNCHANGED refused

Quiet == Pass \/ EvictTick \/ Evict \/ \E c \in Caller, k \in Key : Sample(c, k)

HistoryInit ==
  /\ BucketInit
  /\ empty = [k \in Key |-> Absent]
  /\ refused = [k \in Key |-> 0]

HistoryNext ==
  \/ Quiet /\ UNCHANGED <<empty, refused>>
  \/ \E c \in Caller : (AllowFirst(c) \/ AllowAgain(c)) /\ Noted(c)

HistorySpec == HistoryInit /\ [][HistoryNext]_<<bucketVars, empty, refused>>

\* A bucket holds what the account does; of a key that has none, the account has been full
\* for longer than any request has waited.
HistoryInv ==
  /\ empty \in [Key -> Int \cup {Absent}]
  /\ refused \in [Key -> Nat]
  /\ \A k \in Key :
       /\ keys[k] # Absent => empty[k] = keys[k].last - keys[k].tokens
       /\ keys[k] = Absent /\ empty[k] # Absent => empty[k] + Capacity + MaxWait <= now

LEMMA HistoryInitInv ==
  ASSUME TokenBucketAssumption, HistoryInit
  PROVE  IInv /\ HistoryInv /\ AccountInit
  <1>1. IInv
    BY InitIInv DEF HistoryInit
  <1>2. AccountInit
    BY DEF HistoryInit, BucketInit, AccountInit
  <1>3. HistoryInv
    BY DEF HistoryInit, BucketInit, HistoryInv
  <1>4. QED
    BY <1>1, <1>2, <1>3

\* The decision of a bucket, and what it leaves, are those of the account.
LEMMA FirstIsAccount ==
  ASSUME TokenBucketAssumption, IInv, HistoryInv, NEW c \in Caller, AllowFirst(c), Noted(c)
  PROVE  AccountAdmits(c) /\ HistoryInv'
  <1>a. PICK k \in Key : k = call[c].key /\ k # Absent
    BY DEF IInv, BucketTypeOK, AllowFirst
  <1>b. PICK s \in Nat : s = call[c].at
    BY DEF IInv, BucketTypeOK
  <1>1. Capacity \in Nat /\ TokenTicks \in Nat \ {0} /\ TokenTicks <= Capacity /\ MaxWait \in Nat
    BY CapacityFacts DEF TokenBucketAssumption
  <1>2. /\ keys' = [keys EXCEPT ![k] = [tokens |-> Capacity - TokenTicks, last |-> s]]
        /\ admitted' = [admitted EXCEPT ![k] = @ + 1]
        /\ call' = [call EXCEPT ![c] = Idle]
        /\ keys[k] = Absent
        /\ now' = now
    BY <1>a, <1>b DEF AllowFirst, Admit
  <1>3. admitted' # admitted
    BY <1>a, <1>2 DEF IInv, BucketTypeOK
  <1>4. empty' = [empty EXCEPT ![k] = Charged(k, s)] /\ refused' = refused
    BY <1>a, <1>b, <1>3 DEF Noted
  <1>5. Level(k, s) = Capacity
    <2>1. CASE empty[k] = Absent
      BY <2>1 DEF Level
    <2>2. CASE empty[k] # Absent
      <3>1. empty[k] \in Int /\ empty[k] + Capacity + MaxWait <= now /\ now <= s + MaxWait /\ now \in Nat
        BY <1>a, <1>b, <1>2, <2>2 DEF HistoryInv, IInv, WaitsBounded, BucketTypeOK
      <3>2. s - empty[k] >= Capacity
        BY <1>1, <3>1
      <3>3. QED
        BY <1>1, <2>2, <3>1, <3>2 DEF Level, LowerOf
    <2>3. QED
      BY <2>1, <2>2
  <1>6. AccountAdmits(c)
    BY <1>a, <1>b, <1>1, <1>2, <1>4, <1>5 DEF AccountAdmits
  <1>7. HistoryInv'
    <2>1. Charged(k, s) = s - (Capacity - TokenTicks) /\ Charged(k, s) \in Int
      BY <1>1, <1>5 DEF Charged
    <2>2. empty' \in [Key -> Int \cup {Absent}] /\ refused' \in [Key -> Nat]
      BY <1>a, <1>4, <2>1 DEF HistoryInv
    <2>3. ASSUME NEW j \in Key
          PROVE  /\ keys'[j] # Absent => empty'[j] = keys'[j].last - keys'[j].tokens
                 /\ keys'[j] = Absent /\ empty'[j] # Absent => empty'[j] + Capacity + MaxWait <= now'
      <3>1. CASE j = k
        <4>1. keys'[j] = [tokens |-> Capacity - TokenTicks, last |-> s] /\ empty'[j] = Charged(k, s)
          BY <1>a, <1>2, <1>4, <3>1 DEF IInv, BucketTypeOK, HistoryInv
        <4>2. keys'[j] # Absent
          BY <1>1, <4>1 DEF TokenBucketAssumption
        <4>3. QED
          BY <2>1, <4>1, <4>2
      <3>2. CASE j # k
        BY <1>a, <1>2, <1>4, <3>2 DEF IInv, BucketTypeOK, HistoryInv
      <3>3. QED
        BY <3>1, <3>2
    <2>4. QED
      BY <2>2, <2>3 DEF HistoryInv
  <1>8. QED
    BY <1>6, <1>7

LEMMA AgainIsAccount ==
  ASSUME TokenBucketAssumption, IInv, HistoryInv, NEW c \in Caller, AllowAgain(c), Noted(c)
  PROVE  (AccountAdmits(c) \/ AccountRefuses(c)) /\ HistoryInv'
  <1>a. PICK k \in Key : k = call[c].key /\ k # Absent
    BY DEF IInv, BucketTypeOK, AllowAgain
  <1>b. PICK s \in Nat : s = call[c].at
    BY DEF IInv, BucketTypeOK
  <1>c. PICK b \in Bucket : b = keys[k]
    BY <1>a DEF IInv, BucketTypeOK, AllowAgain
  <1>1. Capacity \in Nat /\ TokenTicks \in Nat \ {0} /\ TokenTicks <= Capacity /\ MaxWait \in Nat
    BY CapacityFacts DEF TokenBucketAssumption
  <1>d. PICK left \in Int : left = Refilled(b, s)
    BY <1>1, RefillFacts
  <1>2. empty[k] = b.last - b.tokens /\ empty[k] \in Int /\ empty[k] # Absent
    BY <1>a, <1>c DEF HistoryInv, AllowAgain, TokenBucketAssumption
  <1>3. Level(k, s) = left
    BY <1>c, <1>d, <1>2 DEF Level, Refilled, LowerOf
  <1>4. call' = [call EXCEPT ![c] = Idle] /\ now' = now
    BY DEF AllowAgain
  <1>5. \/ /\ left >= TokenTicks
           /\ keys' = [keys EXCEPT ![k] = [tokens |-> left - TokenTicks, last |-> s]]
           /\ admitted' = [admitted EXCEPT ![k] = @ + 1]
        \/ /\ left < TokenTicks
           /\ keys' = [keys EXCEPT ![k] = [tokens |-> left, last |-> s]]
           /\ admitted' = admitted
    BY <1>a, <1>b, <1>c, <1>d DEF AllowAgain, Admit
  <1>6. CASE left >= TokenTicks
    <2>1. /\ keys' = [keys EXCEPT ![k] = [tokens |-> left - TokenTicks, last |-> s]]
          /\ admitted' = [admitted EXCEPT ![k] = @ + 1]
      BY <1>1, <1>5, <1>6
    <2>2. admitted' # admitted
      BY <1>a, <2>1 DEF IInv, BucketTypeOK
    <2>3. empty' = [empty EXCEPT ![k] = s - left + TokenTicks] /\ refused' = refused
      BY <1>a, <1>b, <1>3, <2>2 DEF Noted, Charged
    <2>4. AccountAdmits(c)
      BY <1>a, <1>b, <1>3, <1>4, <1>6, <2>1, <2>3 DEF AccountAdmits, Charged
    <2>5. empty' \in [Key -> Int \cup {Absent}] /\ refused' \in [Key -> Nat]
      BY <1>1, <2>3 DEF HistoryInv
    <2>6. ASSUME NEW j \in Key
          PROVE  /\ keys'[j] # Absent => empty'[j] = keys'[j].last - keys'[j].tokens
                 /\ keys'[j] = Absent /\ empty'[j] # Absent => empty'[j] + Capacity + MaxWait <= now'
      <3>1. CASE j = k
        <4>1. /\ keys'[j] = [tokens |-> left - TokenTicks, last |-> s]
              /\ empty'[j] = s - left + TokenTicks
          BY <1>a, <2>1, <2>3, <3>1 DEF IInv, BucketTypeOK, HistoryInv
        <4>2. keys'[j] # Absent
          BY <1>1, <4>1 DEF TokenBucketAssumption
        <4>3. QED
          BY <1>1, <4>1, <4>2
      <3>2. CASE j # k
        BY <1>a, <1>4, <2>1, <2>3, <3>2 DEF IInv, BucketTypeOK, HistoryInv
      <3>3. QED
        BY <3>1, <3>2
    <2>7. QED
      BY <2>4, <2>5, <2>6 DEF HistoryInv
  <1>7. CASE left < TokenTicks
    <2>1. keys' = [keys EXCEPT ![k] = [tokens |-> left, last |-> s]] /\ admitted' = admitted
      BY <1>1, <1>5, <1>7
    <2>2. refused' = [refused EXCEPT ![k] = @ + 1] /\ empty' = empty
      BY <1>a, <2>1 DEF Noted
    <2>3. AccountRefuses(c)
      BY <1>a, <1>b, <1>3, <1>4, <1>7, <2>1, <2>2 DEF AccountRefuses
    <2>4. empty' \in [Key -> Int \cup {Absent}] /\ refused' \in [Key -> Nat]
      BY <1>a, <2>2 DEF HistoryInv
    <2>5. s - left = b.last - b.tokens
      BY <1>1, <1>c, <1>d, <1>7 DEF Refilled, LowerOf
    <2>6. ASSUME NEW j \in Key
          PROVE  /\ keys'[j] # Absent => empty'[j] = keys'[j].last - keys'[j].tokens
                 /\ keys'[j] = Absent /\ empty'[j] # Absent => empty'[j] + Capacity + MaxWait <= now'
      <3>1. CASE j = k
        <4>1. keys'[j] = [tokens |-> left, last |-> s] /\ empty'[j] = empty[k]
          BY <1>a, <2>1, <2>2, <3>1 DEF IInv, BucketTypeOK
        <4>2. keys'[j] # Absent
          BY <4>1 DEF TokenBucketAssumption
        <4>3. QED
          BY <1>2, <2>5, <4>1, <4>2
      <3>2. CASE j # k
        BY <1>a, <1>4, <2>1, <2>2, <3>2 DEF IInv, BucketTypeOK, HistoryInv
      <3>3. QED
        BY <3>1, <3>2
    <2>7. QED
      BY <2>3, <2>4, <2>6 DEF HistoryInv
  <1>8. QED
    BY <1>1, <1>6, <1>7

\* A bucket that is dropped has been full for longer than any request has waited.
LEMMA EvictIsQuiet ==
  ASSUME TokenBucketAssumption, RefillsBeforeIdle, IInv, HistoryInv, Evict,
         UNCHANGED <<empty, refused>>
  PROVE  HistoryInv'
  <1>1. Capacity \in Nat /\ MaxWait \in Nat /\ IdleTicks \in Nat
        /\ Capacity + 2 * MaxWait <= IdleTicks
    BY CapacityFacts DEF TokenBucketAssumption, RefillsBeforeIdle, Capacity
  <1>2. ASSUME NEW k \in Key
        PROVE  /\ keys'[k] # Absent => empty'[k] = keys'[k].last - keys'[k].tokens
               /\ keys'[k] = Absent /\ empty'[k] # Absent => empty'[k] + Capacity + MaxWait <= now'
    <2>1. now' = now /\ empty' = empty
      BY DEF Evict
    <2>2. CASE keys'[k] = keys[k]
      BY <2>1, <2>2 DEF HistoryInv
    <2>3. CASE keys'[k] # keys[k]
      <3>1. keys[k] # Absent /\ sweep - keys[k].last > IdleTicks /\ keys'[k] = Absent /\ sweep # Absent
        BY <2>3 DEF Evict
      <3>2. keys[k] \in Bucket /\ sweep \in Nat /\ now \in Nat /\ sweep <= now
        BY <3>1 DEF IInv, BucketTypeOK, WaitsBounded
      <3>3. Age(keys[k]) <= keys[k].last + MaxWait /\ empty[k] = Age(keys[k])
        BY <3>1 DEF IInv, BucketInv, HistoryInv, Age
      <3>4. Age(keys[k]) \in Int /\ keys[k].last \in Nat
        BY <3>2 DEF Age
      <3>5. empty[k] + Capacity + MaxWait <= now
        BY <1>1, <3>1, <3>2, <3>3, <3>4
      <3>6. QED
        BY <2>1, <3>1, <3>5
    <2>4. QED
      BY <2>2, <2>3
  <1>3. QED
    BY <1>2 DEF HistoryInv

LEMMA QuietKeepsHistory ==
  ASSUME TokenBucketAssumption, RefillsBeforeIdle, IInv, HistoryInv, Quiet,
         UNCHANGED <<empty, refused>>
  PROVE  HistoryInv' /\ [AccountNext]_accountVars
  <1>1. CASE Pass
    <2>1. HistoryInv'
      BY <1>1, CapacityFacts DEF Pass, HistoryInv, IInv, BucketTypeOK, TokenBucketAssumption
    <2>2. AccountPass
      BY <1>1 DEF Pass, AccountPass
    <2>3. QED
      BY <2>1, <2>2 DEF AccountNext
  <1>2. CASE EvictTick
    BY <1>2 DEF EvictTick, HistoryInv, accountVars
  <1>3. CASE Evict
    <2>1. HistoryInv'
      BY <1>3, EvictIsQuiet
    <2>2. UNCHANGED accountVars
      BY <1>3 DEF Evict, accountVars
    <2>3. QED
      BY <2>1, <2>2
  <1>4. ASSUME NEW c \in Caller, NEW k \in Key, Sample(c, k)
        PROVE  HistoryInv' /\ [AccountNext]_accountVars
    <2>1. HistoryInv'
      BY <1>4 DEF Sample, HistoryInv
    <2>2. AccountSample(c, k)
      BY <1>4 DEF Sample, AccountSample
    <2>3. QED
      BY <2>1, <2>2 DEF AccountNext
  <1>5. QED
    BY <1>1, <1>2, <1>3, <1>4 DEF Quiet

\* Every request is decided as by an account that is never dropped: neither the sweep of
\* idle keys, nor samples applied out of order, nor a refusal that stores what it has
\* refilled is ever to be noticed, for every burst, rate and number of callers for which a
\* bucket refills before it counts as idle (Allow, evict).
THEOREM BucketForgetsNothing ==
  ASSUME TokenBucketAssumption, RefillsBeforeIdle
  PROVE  HistorySpec => AccountSpec
  <1> DEFINE Both == IInv /\ HistoryInv
             historyVars == <<bucketVars, empty, refused>>
  <1>1. HistoryInit => Both /\ AccountInit
    BY HistoryInitInv
  <1>2. Both /\ [HistoryNext]_historyVars => Both' /\ [AccountNext]_accountVars
    <2> SUFFICES ASSUME IInv, HistoryInv, [HistoryNext]_historyVars
                 PROVE  Both' /\ [AccountNext]_accountVars
      OBVIOUS
    <2>1. IInv'
      <3>1. [BucketNext]_bucketVars
        BY DEF HistoryNext, Quiet, BucketNext
      <3>2. QED
        BY <3>1, IInvStep
    <2>2. CASE Quiet /\ UNCHANGED <<empty, refused>>
      BY <2>1, <2>2, QuietKeepsHistory
    <2>3. ASSUME NEW c \in Caller, AllowFirst(c) \/ AllowAgain(c), Noted(c)
          PROVE  Both' /\ [AccountNext]_accountVars
      <3>1. HistoryInv' /\ (AccountAdmits(c) \/ AccountRefuses(c))
        BY <2>3, FirstIsAccount, AgainIsAccount
      <3>2. QED
        BY <2>1, <3>1 DEF AccountNext
    <2>4. CASE UNCHANGED historyVars
      <3>1. HistoryInv' /\ UNCHANGED accountVars
        BY <2>4 DEF HistoryInv, bucketVars, accountVars
      <3>2. QED
        BY <2>1, <3>1
    <2>5. QED
      BY <2>2, <2>3, <2>4 DEF HistoryNext
  <1>3. QED
    BY <1>1, <1>2, PTL DEF HistorySpec, AccountSpec

-----------------------------------------------------------------------------
(* The sliding window *)

Sorted(s) == \A i, j \in 1 .. Len(s) : i <= j => s[i] <= s[j]

\* The first n entries of s are out of the window and the others are in it.
Cut(s, at, n) ==
  /\ n \in 0 .. Len(s)
  /\ \A i \in 1 .. n : ~InWindow(s[i], at)
  /\ \A i \in n + 1 .. Len(s) : InWindow(s[i], at)

LEMMA Least ==
  ASSUME NEW S \in SUBSET Nat, S # {}
  PROVE  \E x \in S : \A y \in S : x <= y
  <1> DEFINE R == {p \in Nat \X Nat : p[1] < p[2]}
  <1>1. IsWellFoundedOn(R, Nat)
    BY NatLessThanWellFounded DEF OpToRel
  <1>2. PICK x \in S : \A y \in S : ~(<<y, x>> \in R)
    BY <1>1, WFMin
  <1>3. \A y \in S : ~(y < x)
    BY <1>2
  <1>4. QED
    BY <1>3

LEMMA CutExists ==
  ASSUME SlidingWindowAssumption, NEW s \in Seq(Nat), Sorted(s), NEW at \in Nat
  PROVE  \E n \in 0 .. Len(s) : Cut(s, at, n)
  <1> DEFINE S == {i \in 1 .. Len(s) + 1 : i = Len(s) + 1 \/ InWindow(s[i], at)}
  <1>1. S \in SUBSET Nat /\ Len(s) + 1 \in S
    OBVIOUS
  <1>2. PICK m \in S : \A y \in S : m <= y
    BY <1>1, Least
  <1>3. m - 1 \in 0 .. Len(s) /\ \A i \in 1 .. m - 1 : ~InWindow(s[i], at)
    BY <1>2
  <1>4. ASSUME NEW i \in m .. Len(s) PROVE InWindow(s[i], at)
    <2>1. m \in 1 .. Len(s) /\ i \in 1 .. Len(s) /\ InWindow(s[m], at) /\ m <= i
      BY <1>2
    <2>2. s[m] <= s[i] /\ s[m] \in Nat /\ s[i] \in Nat
      BY <2>1 DEF Sorted
    <2>3. QED
      BY <2>1, <2>2 DEF InWindow, SlidingWindowAssumption
  <1>5. Cut(s, at, m - 1)
    BY <1>2, <1>3, <1>4 DEF Cut
  <1>6. QED
    BY <1>3, <1>5

\* The loop's result after i entries, when the first n of them are dropped.
LoopAt(s, n, i) == IF i <= n THEN <<>> ELSE SubSeq(s, n + 1, i)

LEMMA LoopStep ==
  ASSUME NEW s \in Seq(Nat), NEW at \in Nat, NEW n \in 0 .. Len(s), Cut(s, at, n),
         NEW i \in 1 .. Len(s)
  PROVE  LoopAt(s, n, i) =
           IF InWindow(s[i], at) THEN Append(LoopAt(s, n, i - 1), s[i]) ELSE LoopAt(s, n, i - 1)
  <1>1. CASE i <= n
    BY <1>1 DEF Cut, LoopAt
  <1>2. CASE i = n + 1
    <2>1. InWindow(s[i], at) /\ LoopAt(s, n, i - 1) = <<>> /\ LoopAt(s, n, i) = SubSeq(s, i, i)
      BY <1>2 DEF Cut, LoopAt
    <2>2. SubSeq(s, i, i) = SubSeq(s, i, i - 1) \o <<s[i]>> /\ SubSeq(s, i, i - 1) = <<>>
      BY SubSeqRecursiveSecond, SubSeqEmpty
    <2>3. <<>> \o <<s[i]>> = Append(<<>>, s[i])
      OBVIOUS
    <2>4. QED
      BY <2>1, <2>2, <2>3
  <1>3. CASE i > n + 1
    <2>1. /\ LoopAt(s, n, i) = SubSeq(s, n + 1, i)
          /\ LoopAt(s, n, i - 1) = SubSeq(s, n + 1, i - 1) /\ InWindow(s[i], at)
      BY <1>3 DEF Cut, LoopAt
    <2>2. SubSeq(s, n + 1, i) = Append(SubSeq(s, n + 1, i - 1), s[i])
      BY <1>3, SubSeqRecursiveSecond
    <2>3. QED
      BY <2>1, <2>2
  <1>4. QED
    BY <1>1, <1>2, <1>3

\* What the dropping loop computes.
LEMMA FreshIsSuffix ==
  ASSUME NEW s \in Seq(Nat), NEW at \in Nat, NEW n \in 0 .. Len(s), Cut(s, at, n)
  PROVE  Fresh(s, at) = LoopAt(s, n, Len(s))
  <1> DEFINE Loop(g) == [i \in 0 .. Len(s) |->
                           IF i = 0 THEN <<>>
                           ELSE IF InWindow(s[i], at) THEN Append(g[i - 1], s[i]) ELSE g[i - 1]]
             f == [i \in 0 .. Len(s) |-> LoopAt(s, n, i)]
             kept == CHOOSE g : g = Loop(g)
  <1>1. f = Loop(f)
    <2> SUFFICES ASSUME NEW i \in 0 .. Len(s)
                 PROVE  f[i] = IF i = 0 THEN <<>>
                               ELSE IF InWindow(s[i], at) THEN Append(f[i - 1], s[i]) ELSE f[i - 1]
      OBVIOUS
    <2>1. f[i] = LoopAt(s, n, i) /\ (i # 0 => f[i - 1] = LoopAt(s, n, i - 1))
      OBVIOUS
    <2> HIDE DEF f
    <2>2. i # 0 => LoopAt(s, n, i) =
            IF InWindow(s[i], at) THEN Append(LoopAt(s, n, i - 1), s[i]) ELSE LoopAt(s, n, i - 1)
      BY LoopStep
    <2>3. LoopAt(s, n, 0) = <<>>
      BY DEF LoopAt
    <2>4. QED
      BY <2>1, <2>2, <2>3
  <1>2. kept = Loop(kept)
    <2>1. \E g : g = Loop(g)
      BY <1>1
    <2>2. QED
      BY <2>1, Zenon
  <1>3. \A i \in 0 .. Len(s) : kept[i] = f[i]
    <2> DEFINE T == {i \in 0 .. Len(s) : kept[i] # f[i]}
    <2> SUFFICES ASSUME T # {} PROVE FALSE
      OBVIOUS
    <2>1. T \in SUBSET Nat
      OBVIOUS
    <2>2. PICK i \in T : \A y \in T : i <= y
      BY <2>1, Least
    <2> HIDE DEF kept, f
    <2>3. i # 0
      BY <1>1, <1>2, <2>2
    <2>4. i \in 1 .. Len(s) /\ i - 1 \in 0 .. Len(s) /\ i - 1 \notin T
      BY <2>2, <2>3
    <2>5. kept[i - 1] = f[i - 1]
      BY <2>4
    <2>6. kept[i] = f[i]
      BY <1>1, <1>2, <2>4, <2>5
    <2>7. QED
      BY <2>2, <2>6
  <1>4. Fresh(s, at) = kept[Len(s)]
    BY DEF Fresh
  <1>5. f[Len(s)] = LoopAt(s, n, Len(s))
    OBVIOUS
  <1> HIDE DEF kept, f
  <1>6. QED
    BY <1>3, <1>4, <1>5

WindowTypeOK ==
  /\ clock \in Nat
  /\ hits \in [Sender -> Seq(Nat)]
  /\ received \in Nat \cup {Never}
  /\ retry \in [Sender -> Nat \cup {Never}]
  /\ events \in [Sender -> Seq(Nat)]

\* Of a key whose events are es: the hits hs kept are its last ones, at most Max, and the
\* events before them have left the window by `at`.
InOrder(es, at) == Sorted(es) /\ \A i \in 1 .. Len(es) : es[i] <= at
LastOf(hs, es) ==
  /\ Len(hs) <= Len(es)
  /\ \A i \in 1 .. Len(hs) : hs[i] = es[Len(es) - Len(hs) + i]
GoneBefore(hs, es, at) ==
  \A i \in 1 .. Len(es) - Len(hs) : es[i] + Window <= at
AtMostMax(es) == \A i \in 1 .. Len(es) - Max : es[i] + Window <= es[i + Max]

\* When the time of the last refusal comes, the oldest hit has left.
RetryTrue(hs, t) == t # Never => hs = <<>> \/ hs[1] + Window <= t

KeyInv(hs, es, t, at) ==
  /\ InOrder(es, at) /\ LastOf(hs, es) /\ GoneBefore(hs, es, at) /\ AtMostMax(es)
  /\ Len(hs) <= Max
  /\ RetryTrue(hs, t)

WindowInv ==
  /\ WindowTypeOK
  /\ received # Never => received <= clock
  /\ \A k \in Sender : KeyInv(hits[k], events[k], retry[k], clock)

\* The hits kept are the end of the hits there were.
LEMMA KeptFacts ==
  ASSUME SlidingWindowAssumption, NEW hs \in Seq(Nat), NEW es \in Seq(Nat), NEW at \in Nat,
         InOrder(es, at), LastOf(hs, es)
  PROVE  \E n \in 0 .. Len(hs) :
           LET kept == Fresh(hs, at) IN
           /\ \A i \in 1 .. n : hs[i] + Window <= at
           /\ kept \in Seq(Nat) /\ Len(kept) = Len(hs) - n
           /\ \A i \in 1 .. Len(kept) : kept[i] = hs[n + i] /\ InWindow(kept[i], at)
  <1>1. Sorted(hs)
    <2> SUFFICES ASSUME NEW i \in 1 .. Len(hs), NEW j \in 1 .. Len(hs), i <= j
                 PROVE  hs[i] <= hs[j]
      BY DEF Sorted
    <2> DEFINE d == Len(es) - Len(hs)
    <2>1. d + i \in 1 .. Len(es) /\ d + j \in 1 .. Len(es) /\ d + i <= d + j
      BY DEF LastOf
    <2>2. es[d + i] <= es[d + j]
      BY <2>1 DEF InOrder, Sorted
    <2>3. hs[i] = es[d + i] /\ hs[j] = es[d + j]
      BY DEF LastOf
    <2>4. QED
      BY <2>2, <2>3
  <1>2. PICK n \in 0 .. Len(hs) : Cut(hs, at, n)
    BY <1>1, CutExists
  <1> DEFINE kept == Fresh(hs, at)
  <1>3. kept = IF Len(hs) <= n THEN <<>> ELSE SubSeq(hs, n + 1, Len(hs))
    BY <1>2, FreshIsSuffix DEF LoopAt
  <1>4. \A i \in 1 .. n : hs[i] + Window <= at
    <2> SUFFICES ASSUME NEW i \in 1 .. n PROVE hs[i] + Window <= at
      OBVIOUS
    <2>1. hs[i] \in Nat /\ ~InWindow(hs[i], at)
      BY <1>2 DEF Cut
    <2>2. QED
      BY <2>1 DEF InWindow, SlidingWindowAssumption
  <1>5. /\ kept \in Seq(Nat) /\ Len(kept) = Len(hs) - n
        /\ \A i \in 1 .. Len(kept) : kept[i] = hs[n + i]
    <2> HIDE DEF kept
    <2>1. CASE Len(hs) <= n
      <3>1. n = Len(hs) /\ kept = <<>>
        BY <1>3, <2>1
      <3>2. QED
        BY <3>1
    <2>2. CASE Len(hs) > n
      <3>1. kept = SubSeq(hs, n + 1, Len(hs)) /\ \A i \in n + 1 .. Len(hs) : hs[i] \in Nat
        BY <1>3, <2>2
      <3>2. /\ kept \in Seq(Nat) /\ Len(kept) = Len(hs) - (n + 1) + 1
            /\ \A i \in 1 .. Len(hs) - (n + 1) + 1 : kept[i] = hs[n + 1 + i - 1]
        BY <2>2, <3>1, SubSeqProperties
      <3>3. QED
        BY <2>2, <3>2
    <2>3. QED
      BY <2>1, <2>2
  <1>6. \A i \in 1 .. Len(kept) : InWindow(kept[i], at)
    <2> HIDE DEF kept
    <2>1. \A i \in 1 .. Len(kept) : n + i \in n + 1 .. Len(hs)
      BY <1>5
    <2>2. QED
      BY <1>2, <1>5, <2>1 DEF Cut
  <1>7. QED
    BY <1>4, <1>5, <1>6

\* Dropping the hits that left the window changes nothing that matters.
LEMMA KeptKeeps ==
  ASSUME SlidingWindowAssumption, NEW hs \in Seq(Nat), NEW es \in Seq(Nat), NEW at \in Nat,
         NEW t, KeyInv(hs, es, t, at)
  PROVE  LET kept == Fresh(hs, at) IN
         /\ kept \in Seq(Nat) /\ Len(kept) <= Len(hs)
         /\ LastOf(kept, es) /\ GoneBefore(kept, es, at)
  <1>1. PICK n \in 0 .. Len(hs) :
           LET kept == Fresh(hs, at) IN
           /\ \A i \in 1 .. n : hs[i] + Window <= at
           /\ kept \in Seq(Nat) /\ Len(kept) = Len(hs) - n
           /\ \A i \in 1 .. Len(kept) : kept[i] = hs[n + i] /\ InWindow(kept[i], at)
    BY KeptFacts DEF KeyInv
  <1> DEFINE kept == Fresh(hs, at)
             d == Len(es) - Len(hs)
  <1>2. /\ \A i \in 1 .. n : hs[i] + Window <= at
        /\ kept \in Seq(Nat) /\ Len(kept) = Len(hs) - n
        /\ \A i \in 1 .. Len(kept) : kept[i] = hs[n + i]
    BY <1>1
  <1> HIDE DEF kept
  <1>3. Len(hs) <= Len(es) /\ \A i \in 1 .. Len(hs) : hs[i] = es[d + i]
    BY DEF KeyInv, LastOf
  <1>4. LastOf(kept, es)
    <2>1. Len(kept) \in Nat /\ Len(kept) <= Len(es)
      BY <1>2, <1>3
    <2>2. ASSUME NEW i \in 1 .. Len(kept) PROVE kept[i] = es[Len(es) - Len(kept) + i]
      <3>1. n + i \in 1 .. Len(hs) /\ kept[i] = hs[n + i]
        BY <1>2
      <3>2. hs[n + i] = es[d + (n + i)] /\ d + (n + i) = Len(es) - Len(kept) + i
        BY <1>2, <1>3, <3>1
      <3>3. QED
        BY <3>1, <3>2
    <2>3. QED
      BY <2>1, <2>2 DEF LastOf
  <1>5. GoneBefore(kept, es, at)
    <2> SUFFICES ASSUME NEW i \in 1 .. Len(es) - Len(kept) PROVE es[i] + Window <= at
      BY DEF GoneBefore
    <2>1. CASE i <= d
      BY <2>1, <1>3 DEF KeyInv, GoneBefore
    <2>2. CASE i > d
      <3>1. i - d \in 1 .. n /\ i - d \in 1 .. Len(hs)
        BY <1>2, <1>3, <2>2
      <3>2. hs[i - d] = es[d + (i - d)] /\ hs[i - d] + Window <= at
        BY <1>2, <1>3, <3>1
      <3>3. d + (i - d) = i
        BY <1>3
      <3>4. QED
        BY <3>2, <3>3
    <2>3. QED
      BY <1>3, <2>1, <2>2
  <1>6. QED
    BY <1>2, <1>4, <1>5 DEF kept

\* An allowed event: with fewer than Max hits left, the Max-th event before it has left
\* the window.
LEMMA AllowKeeps ==
  ASSUME SlidingWindowAssumption, NEW hs \in Seq(Nat), NEW es \in Seq(Nat), NEW at \in Nat,
         NEW t, KeyInv(hs, es, t, at), Len(Fresh(hs, at)) < Max
  PROVE  KeyInv(Append(Fresh(hs, at), at), Append(es, at), Never, at)
  <1> DEFINE kept == Fresh(hs, at)
             hs2 == Append(kept, at)
             es2 == Append(es, at)
  <1>1. kept \in Seq(Nat) /\ Len(kept) < Max /\ LastOf(kept, es) /\ GoneBefore(kept, es, at)
    BY KeptKeeps
  <1> HIDE DEF kept
  <1>2. /\ hs2 \in Seq(Nat) /\ Len(hs2) = Len(kept) + 1 /\ hs2[Len(hs2)] = at
        /\ \A i \in 1 .. Len(kept) : hs2[i] = kept[i]
    BY <1>1
  <1>3. /\ es2 \in Seq(Nat) /\ Len(es2) = Len(es) + 1 /\ es2[Len(es2)] = at
        /\ \A i \in 1 .. Len(es) : es2[i] = es[i]
    OBVIOUS
  <1>4. /\ Len(kept) <= Len(es) /\ \A i \in 1 .. Len(kept) : kept[i] = es[Len(es) - Len(kept) + i]
        /\ \A i \in 1 .. Len(es) - Len(kept) : es[i] + Window <= at
    BY <1>1 DEF LastOf, GoneBefore
  <1>5. Sorted(es) /\ (\A i \in 1 .. Len(es) : es[i] <= at) /\ AtMostMax(es)
    BY DEF KeyInv, InOrder
  <1> HIDE DEF hs2, es2
  <1>6. InOrder(es2, at)
    <2>1. ASSUME NEW i \in 1 .. Len(es2) PROVE es2[i] <= at
      <3>1. CASE i = Len(es2)
        BY <1>3, <3>1
      <3>2. CASE i # Len(es2)
        <4>1. i \in 1 .. Len(es)
          BY <1>3, <3>2
        <4>2. QED
          BY <1>3, <1>5, <4>1
      <3>3. QED
        BY <3>1, <3>2
    <2>2. ASSUME NEW i \in 1 .. Len(es2), NEW j \in 1 .. Len(es2), i <= j PROVE es2[i] <= es2[j]
      <3>1. CASE j = Len(es2)
        BY <1>3, <2>1, <3>1
      <3>2. CASE j # Len(es2)
        <4>1. i \in 1 .. Len(es) /\ j \in 1 .. Len(es)
          BY <1>3, <2>2, <3>2
        <4>2. es2[i] = es[i] /\ es2[j] = es[j] /\ es[i] <= es[j]
          BY <1>3, <1>5, <2>2, <4>1 DEF Sorted
        <4>3. QED
          BY <4>2
      <3>3. QED
        BY <3>1, <3>2
    <2>3. QED
      BY <2>1, <2>2 DEF InOrder, Sorted
  <1>7. LastOf(hs2, es2)
    <2>1. Len(hs2) <= Len(es2)
      BY <1>1, <1>2, <1>3, <1>4
    <2>2. ASSUME NEW i \in 1 .. Len(hs2) PROVE hs2[i] = es2[Len(es2) - Len(hs2) + i]
      <3>1. CASE i = Len(hs2)
        <4>1. Len(es2) - Len(hs2) + i = Len(es2)
          BY <1>1, <1>2, <1>3, <3>1
        <4>2. QED
          BY <1>2, <1>3, <3>1, <4>1
      <3>2. CASE i # Len(hs2)
        <4> DEFINE d == Len(es) - Len(kept)
        <4>1. i \in 1 .. Len(kept) /\ d + i \in 1 .. Len(es) /\ Len(es2) - Len(hs2) + i = d + i
          BY <1>1, <1>2, <1>3, <1>4, <3>2
        <4>2. hs2[i] = kept[i] /\ kept[i] = es[d + i] /\ es2[d + i] = es[d + i]
          BY <1>2, <1>3, <1>4, <4>1
        <4>3. QED
          BY <4>1, <4>2
      <3>3. QED
        BY <3>1, <3>2
    <2>3. QED
      BY <2>1, <2>2 DEF LastOf
  <1>8. GoneBefore(hs2, es2, at)
    <2> SUFFICES ASSUME NEW i \in 1 .. Len(es2) - Len(hs2) PROVE es2[i] + Window <= at
      BY DEF GoneBefore
    <2> DEFINE n == Len(es)
    <2> DEFINE k == Len(kept)
    <2>1. n \in Nat /\ k \in Nat /\ Len(es2) = n + 1 /\ Len(hs2) = k + 1
      <3>1. n \in Nat
        BY LenProperties
      <3>2. k \in Nat
        BY <1>1, LenProperties
      <3>3. Len(es2) = n + 1 /\ Len(hs2) = k + 1
        BY <1>2, <1>3
      <3>4. QED
        BY <3>1, <3>2, <3>3
    <2>2. i \in 1 .. (n + 1) - (k + 1)
      BY <2>1
    <2> HIDE DEF n, k
    <2>3. i \in 1 .. n - k /\ i \in 1 .. n
      BY <2>1, <2>2
    <2>4. QED
      BY <1>3, <1>4, <2>3 DEF n, k
  <1>9. AtMostMax(es2)
    <2> SUFFICES ASSUME NEW i \in 1 .. Len(es2) - Max PROVE es2[i] + Window <= es2[i + Max]
      BY DEF AtMostMax
    <2>0. Max \in Nat \ {0} /\ Window \in Nat
      BY DEF SlidingWindowAssumption
    <2>1. CASE i + Max = Len(es2)
      <3>1. i \in 1 .. Len(es) - Len(kept) /\ i \in 1 .. Len(es)
        BY <1>1, <1>3, <2>0, <2>1
      <3>2. es2[i] = es[i] /\ es[i] + Window <= at
        BY <1>3, <1>4, <3>1
      <3>3. es2[i + Max] = at
        BY <1>3, <2>1
      <3>4. QED
        BY <3>2, <3>3
    <2>2. CASE i + Max # Len(es2)
      <3> DEFINE n == Len(es)
      <3>0. n \in Nat /\ Len(es2) = n + 1
        BY <1>3
      <3> HIDE DEF n
      <3>1. i \in 1 .. n - Max /\ i \in 1 .. n /\ i + Max \in 1 .. n
        BY <2>0, <2>2, <3>0
      <3>2. es[i] + Window <= es[i + Max]
        BY <1>5, <3>1 DEF AtMostMax, n
      <3>3. es2[i] = es[i] /\ es2[i + Max] = es[i + Max]
        BY <1>3, <3>1 DEF n
      <3>4. QED
        BY <3>2, <3>3
    <2>3. QED
      BY <2>1, <2>2
  <1>10. Len(hs2) <= Max
    BY <1>1, <1>2 DEF SlidingWindowAssumption
  <1>11. KeyInv(hs2, es2, Never, at)
    BY <1>6, <1>7, <1>8, <1>9, <1>10 DEF KeyInv, RetryTrue
  <1>12. QED
    BY <1>11 DEF hs2, es2, kept

\* A refusal keeps the hits in the window, and announces when the first of them leaves it.
LEMMA RefuseKeeps ==
  ASSUME SlidingWindowAssumption, NEW hs \in Seq(Nat), NEW es \in Seq(Nat), NEW at \in Nat,
         NEW t, KeyInv(hs, es, t, at), Len(Fresh(hs, at)) >= Max
  PROVE  /\ KeyInv(Fresh(hs, at), es, Fresh(hs, at)[1] + Window, at)
         /\ Fresh(hs, at)[1] + Window \in Nat
  <1> DEFINE kept == Fresh(hs, at)
  <1>1. /\ kept \in Seq(Nat) /\ Len(kept) <= Len(hs) /\ Len(kept) >= Max
        /\ LastOf(kept, es) /\ GoneBefore(kept, es, at)
    BY KeptKeeps
  <1> HIDE DEF kept
  <1>2. kept[1] + Window \in Nat /\ RetryTrue(kept, kept[1] + Window)
    BY <1>1 DEF SlidingWindowAssumption, RetryTrue
  <1>3. InOrder(es, at) /\ AtMostMax(es) /\ Len(kept) <= Max
    BY <1>1 DEF KeyInv, SlidingWindowAssumption
  <1>4. KeyInv(kept, es, kept[1] + Window, at)
    BY <1>1, <1>2, <1>3 DEF KeyInv
  <1>5. QED
    BY <1>2, <1>4 DEF kept

\* When the newest hit has left the window, by a tick not later than now, all have.
LEMMA EvictKeeps ==
  ASSUME SlidingWindowAssumption, NEW hs \in Seq(Nat), NEW es \in Seq(Nat), NEW at \in Nat,
         NEW t, KeyInv(hs, es, t, at), hs # <<>>,
         NEW tick \in Nat, tick <= at, ~InWindow(hs[Len(hs)], tick)
  PROVE  KeyInv(<<>>, es, t, at)
  <1>1. /\ Len(hs) <= Len(es) /\ Len(hs) \in 1 .. Len(hs)
        /\ hs[Len(hs)] = es[Len(es) - Len(hs) + Len(hs)] /\ Len(es) - Len(hs) + Len(hs) = Len(es)
    BY DEF KeyInv, LastOf
  <1>2. hs[Len(hs)] = es[Len(es)] /\ es[Len(es)] \in Nat /\ Len(es) \in 1 .. Len(es)
    BY <1>1
  <1>3. es[Len(es)] + Window <= at
    <2>1. ~(es[Len(es)] + Window > tick)
      BY <1>2 DEF InWindow
    <2>2. QED
      BY <1>2, <2>1 DEF SlidingWindowAssumption
  <1>4. GoneBefore(<<>>, es, at)
    <2> SUFFICES ASSUME NEW i \in 1 .. Len(es) PROVE es[i] + Window <= at
      BY DEF GoneBefore
    <2>1. es[i] <= es[Len(es)]
      BY <1>2 DEF KeyInv, InOrder, Sorted
    <2>2. QED
      BY <1>2, <1>3, <2>1 DEF SlidingWindowAssumption
  <1>5. LastOf(<<>>, es) /\ Len(<<>>) <= Max /\ RetryTrue(<<>>, t)
    BY DEF LastOf, RetryTrue, SlidingWindowAssumption
  <1>6. QED
    BY <1>4, <1>5 DEF KeyInv

LEMMA PassKeeps ==
  ASSUME SlidingWindowAssumption, NEW hs \in Seq(Nat), NEW es \in Seq(Nat), NEW at \in Nat,
         NEW t, KeyInv(hs, es, t, at)
  PROVE  KeyInv(hs, es, t, at + 1)
  <1>1. InOrder(es, at + 1)
    BY DEF KeyInv, InOrder
  <1>2. GoneBefore(hs, es, at + 1)
    BY DEF KeyInv, GoneBefore, SlidingWindowAssumption
  <1>3. QED
    BY <1>1, <1>2 DEF KeyInv

LEMMA WindowPassInv ==
  ASSUME SlidingWindowAssumption, WindowInv, WindowPass
  PROVE  WindowInv'
  <1>1. WindowTypeOK' /\ (received # Never => received <= clock)'
    BY DEF WindowInv, WindowTypeOK, WindowPass
  <1>2. ASSUME NEW k \in Sender PROVE KeyInv(hits[k], events[k], retry[k], clock)'
    <2>1. hits[k] \in Seq(Nat) /\ events[k] \in Seq(Nat) /\ clock \in Nat
      BY DEF WindowInv, WindowTypeOK
    <2>2. KeyInv(hits[k], events[k], retry[k], clock + 1)
      BY <2>1, PassKeeps DEF WindowInv
    <2>3. QED
      BY <2>2 DEF WindowPass
  <1>3. QED
    BY <1>1, <1>2 DEF WindowInv

LEMMA AllowInv ==
  ASSUME SlidingWindowAssumption, WindowInv, NEW s \in Sender, Allow(s)
  PROVE  WindowInv'
  <1>1. hits[s] \in Seq(Nat) /\ events[s] \in Seq(Nat) /\ clock \in Nat
    BY DEF WindowInv, WindowTypeOK
  <1>2. Fresh(hits[s], clock) \in Seq(Nat)
    BY <1>1, KeptKeeps DEF WindowInv
  <1>3. KeyInv(Append(Fresh(hits[s], clock), clock), Append(events[s], clock), Never, clock)
    BY <1>1, AllowKeeps DEF WindowInv, Allow, Kept
  <1>4. WindowTypeOK' /\ (received # Never => received <= clock)'
    BY <1>1, <1>2 DEF WindowInv, WindowTypeOK, Allow, Kept
  <1>5. ASSUME NEW k \in Sender PROVE KeyInv(hits[k], events[k], retry[k], clock)'
    <2>1. CASE k = s
      <3>1. /\ hits'[k] = Append(Fresh(hits[s], clock), clock)
            /\ events'[k] = Append(events[s], clock) /\ retry'[k] = Never /\ clock' = clock
        BY <2>1 DEF WindowInv, WindowTypeOK, Allow, Kept
      <3>2. QED
        BY <1>3, <3>1
    <2>2. CASE k # s
      BY <2>2 DEF WindowInv, WindowTypeOK, Allow
    <2>3. QED
      BY <2>1, <2>2
  <1>6. QED
    BY <1>4, <1>5 DEF WindowInv

LEMMA RefuseInv ==
  ASSUME SlidingWindowAssumption, WindowInv, NEW s \in Sender, Refuse(s)
  PROVE  WindowInv'
  <1>1. hits[s] \in Seq(Nat) /\ events[s] \in Seq(Nat) /\ clock \in Nat
    BY DEF WindowInv, WindowTypeOK
  <1>2. Fresh(hits[s], clock) \in Seq(Nat)
    BY <1>1, KeptKeeps DEF WindowInv
  <1>3. /\ KeyInv(Fresh(hits[s], clock), events[s], Fresh(hits[s], clock)[1] + Window, clock)
        /\ Fresh(hits[s], clock)[1] + Window \in Nat
    BY <1>1, RefuseKeeps DEF WindowInv, Refuse, Kept
  <1>4. WindowTypeOK' /\ (received # Never => received <= clock)'
    BY <1>1, <1>2, <1>3 DEF WindowInv, WindowTypeOK, Refuse, Kept
  <1>5. ASSUME NEW k \in Sender PROVE KeyInv(hits[k], events[k], retry[k], clock)'
    <2>1. CASE k = s
      <3>1. /\ hits'[k] = Fresh(hits[s], clock) /\ events'[k] = events[s]
            /\ retry'[k] = Fresh(hits[s], clock)[1] + Window /\ clock' = clock
        BY <2>1 DEF WindowInv, WindowTypeOK, Refuse, Kept
      <3>2. QED
        BY <1>3, <3>1
    <2>2. CASE k # s
      BY <2>2 DEF WindowInv, WindowTypeOK, Refuse
    <2>3. QED
      BY <2>1, <2>2
  <1>6. QED
    BY <1>4, <1>5 DEF WindowInv

LEMMA EvictIdleInv ==
  ASSUME SlidingWindowAssumption, WindowInv, EvictIdle
  PROVE  WindowInv'
  <1>1. WindowTypeOK' /\ (received # Never => received <= clock)'
    BY DEF WindowInv, WindowTypeOK, EvictIdle
  <1>2. received \in Nat /\ received <= clock
    BY DEF WindowInv, WindowTypeOK, EvictIdle
  <1>3. ASSUME NEW k \in Sender PROVE KeyInv(hits[k], events[k], retry[k], clock)'
    <2>1. hits[k] \in Seq(Nat) /\ events[k] \in Seq(Nat) /\ clock \in Nat
      BY DEF WindowInv, WindowTypeOK
    <2>2. CASE hits[k] # <<>> /\ ~InWindow(hits[k][Len(hits[k])], received)
      <3>1. KeyInv(<<>>, events[k], retry[k], clock)
        BY <1>2, <2>1, <2>2, EvictKeeps DEF WindowInv
      <3>2. hits'[k] = <<>>
        BY <2>2 DEF EvictIdle
      <3>3. QED
        BY <3>1, <3>2 DEF EvictIdle
    <2>3. CASE ~(hits[k] # <<>> /\ ~InWindow(hits[k][Len(hits[k])], received))
      <3>1. hits'[k] = hits[k]
        BY <2>3 DEF EvictIdle
      <3>2. QED
        BY <3>1 DEF EvictIdle, WindowInv
    <2>4. QED
      BY <2>2, <2>3
  <1>4. QED
    BY <1>1, <1>3 DEF WindowInv

LEMMA WindowInvImplies ==
  ASSUME SlidingWindowAssumption, WindowInv
  PROVE  WindowBound
  <1> SUFFICES ASSUME NEW k \in Sender
               PROVE  /\ AtMostMax(events[k])
                      /\ retry[k] # Never /\ clock >= retry[k] => Len(Kept(k)) < Max
    BY DEF WindowBound, AtMostMax
  <1>1. /\ hits[k] \in Seq(Nat) /\ events[k] \in Seq(Nat) /\ clock \in Nat
        /\ retry[k] \in Nat \cup {Never} /\ KeyInv(hits[k], events[k], retry[k], clock)
    BY DEF WindowInv, WindowTypeOK
  <1>2. ASSUME retry[k] # Never, clock >= retry[k] PROVE Len(Kept(k)) < Max
    <2> DEFINE hs == hits[k]
               kept == Fresh(hs, clock)
    <2>1. PICK n \in 0 .. Len(hs) :
             /\ kept \in Seq(Nat) /\ Len(kept) = Len(hs) - n
             /\ \A i \in 1 .. Len(kept) : kept[i] = hs[n + i] /\ InWindow(kept[i], clock)
      <3> HIDE DEF hs
      <3>1. hs \in Seq(Nat) /\ InOrder(events[k], clock) /\ LastOf(hs, events[k])
        BY <1>1 DEF KeyInv, hs
      <3>2. QED
        BY <1>1, <3>1, KeptFacts
    <2>2. Len(hs) <= Max /\ (hs = <<>> \/ hs[1] + Window <= retry[k])
      BY <1>1, <1>2 DEF KeyInv, RetryTrue
    <2>3. hs \in Seq(Nat) /\ Kept(k) = kept /\ Max \in Nat \ {0} /\ Window \in Nat
      BY <1>1 DEF Kept, SlidingWindowAssumption
    <2> HIDE DEF kept, hs
    <2>4. CASE hs = <<>>
      BY <2>1, <2>3, <2>4
    <2>5. CASE hs # <<>>
      <3>1. hs[1] \in Nat /\ hs[1] + Window <= clock /\ Len(hs) >= 1
        BY <1>1, <1>2, <2>2, <2>3, <2>5
      <3>2. n # 0
        <4> SUFFICES ASSUME n = 0 PROVE FALSE
          OBVIOUS
        <4>1. 1 \in 1 .. Len(kept) /\ n + 1 = 1
          BY <2>1, <2>3, <3>1
        <4>2. kept[1] = hs[1] /\ InWindow(kept[1], clock)
          BY <2>1, <4>1
        <4>3. QED
          BY <1>1, <2>3, <3>1, <4>2 DEF InWindow
      <3>3. QED
        BY <2>1, <2>2, <2>3, <3>2
    <2>6. QED
      BY <2>4, <2>5
  <1>3. QED
    BY <1>1, <1>2 DEF KeyInv

\* The invariant of the window limiter.
LEMMA WindowInvHolds ==
  ASSUME SlidingWindowAssumption
  PROVE  WindowSpec => []WindowInv
  <1>1. WindowInit => WindowInv
    BY DEF WindowInit, WindowInv, WindowTypeOK, KeyInv, InOrder, Sorted, LastOf, GoneBefore,
           AtMostMax, RetryTrue, SlidingWindowAssumption
  <1>2. WindowInv /\ [WindowNext]_windowVars => WindowInv'
    <2> SUFFICES ASSUME WindowInv, [WindowNext]_windowVars PROVE WindowInv'
      OBVIOUS
    <2>1. CASE WindowPass
      BY <2>1, WindowPassInv
    <2>2. CASE ReceiveTick
      BY <2>2 DEF WindowInv, WindowTypeOK, ReceiveTick
    <2>3. CASE EvictIdle
      BY <2>3, EvictIdleInv
    <2>4. ASSUME NEW s \in Sender, Allow(s) PROVE WindowInv'
      BY <2>4, AllowInv
    <2>5. ASSUME NEW s \in Sender, Refuse(s) PROVE WindowInv'
      BY <2>5, RefuseInv
    <2>6. CASE UNCHANGED windowVars
      BY <2>6 DEF WindowInv, WindowTypeOK, windowVars
    <2>7. QED
      BY <2>1, <2>2, <2>3, <2>4, <2>5, <2>6 DEF WindowNext
  <1>3. QED
    BY <1>1, <1>2, PTL DEF WindowSpec

\* No window holds more than Max events of a key and an announced retry is granted, for
\* every limit, length of the window and number of keys (Allow, evict).
THEOREM WindowBoundHolds ==
  ASSUME SlidingWindowAssumption
  PROVE  WindowSpec => []WindowBound
  <1>1. WindowInv => WindowBound
    BY WindowInvImplies
  <1>2. QED
    BY <1>1, WindowInvHolds, PTL

-----------------------------------------------------------------------------
(* The limiter that forgets nothing *)

\* Of all the events of a key, those in the window are as many as the hits that are kept.
LEMMA RecentAreKept ==
  ASSUME SlidingWindowAssumption, NEW hs \in Seq(Nat), NEW es \in Seq(Nat), NEW at \in Nat,
         NEW t, KeyInv(hs, es, t, at)
  PROVE  /\ Cardinality({i \in 1 .. Len(es) : InWindow(es[i], at)}) = Len(Fresh(hs, at))
         /\ LastOf(Fresh(hs, at), es) /\ Fresh(hs, at) \in Seq(Nat)
  <1> DEFINE kept == Fresh(hs, at)
             recent == {i \in 1 .. Len(es) : InWindow(es[i], at)}
             d == Len(es) - Len(kept)
  <1>1. kept \in Seq(Nat) /\ LastOf(kept, es) /\ GoneBefore(kept, es, at)
    BY KeptKeeps
  <1>2. \A i \in 1 .. Len(kept) : InWindow(kept[i], at)
    BY KeptFacts DEF KeyInv
  <1> HIDE DEF kept
  <1>3. d \in Nat /\ Len(es) \in Nat /\ Len(kept) = Len(es) - d
    BY <1>1 DEF LastOf
  <1>4. ASSUME NEW i \in d + 1 .. Len(es) PROVE InWindow(es[i], at)
    <2>1. i - d \in 1 .. Len(kept) /\ d + (i - d) = i
      BY <1>3
    <2>2. kept[i - d] = es[d + (i - d)]
      BY <1>1, <2>1 DEF LastOf
    <2>3. QED
      BY <1>2, <2>1, <2>2
  <1>5. ASSUME NEW i \in 1 .. d PROVE ~InWindow(es[i], at)
    <2>1. i \in 1 .. Len(es) /\ es[i] + Window <= at
      BY <1>1, <1>3 DEF GoneBefore
    <2>2. QED
      BY <2>1 DEF InWindow, SlidingWindowAssumption
  <1> HIDE DEF d
  <1>6. recent = d + 1 .. Len(es)
    <2>1. ASSUME NEW i \in 1 .. Len(es), InWindow(es[i], at) PROVE i \in d + 1 .. Len(es)
      <3>1. i \notin 1 .. d
        BY <1>5, <2>1
      <3>2. QED
        BY <1>3, <3>1
    <2>2. \A i \in d + 1 .. Len(es) : i \in 1 .. Len(es)
      BY <1>3
    <2>3. QED
      BY <1>4, <2>1, <2>2
  <1>7. Cardinality(d + 1 .. Len(es)) = Len(kept)
    <2>1. CASE d + 1 > Len(es)
      <3>1. d + 1 .. Len(es) = {} /\ Len(kept) = 0
        BY <1>1, <1>3, <2>1
      <3>2. QED
        BY <3>1, FS_EmptySet
    <2>2. CASE d + 1 <= Len(es)
      <3>1. Cardinality(d + 1 .. Len(es)) = Len(es) - (d + 1) + 1
        BY <1>3, <2>2, FS_Interval
      <3>2. QED
        BY <1>3, <3>1
    <2>3. QED
      BY <1>3, <2>1, <2>2
  <1>8. QED
    BY <1>1, <1>6, <1>7 DEF kept

\* Each step of the limiter is one of the limiter that keeps every event, or a stutter.
LEMMA WindowStepIsExact ==
  ASSUME SlidingWindowAssumption, WindowInv, [WindowNext]_windowVars
  PROVE  [ExactNext]_<<clock, retry, events>>
  <1> DEFINE kept(k) == Fresh(hits[k], clock)
  <1>1. ASSUME NEW k \in Sender
        PROVE  /\ hits[k] \in Seq(Nat) /\ events[k] \in Seq(Nat) /\ clock \in Nat
               /\ KeyInv(hits[k], events[k], retry[k], clock)
    BY DEF WindowInv, WindowTypeOK
  <1>2. ASSUME NEW k \in Sender
        PROVE  /\ Cardinality(Recent(k)) = Len(kept(k))
               /\ LastOf(kept(k), events[k]) /\ kept(k) \in Seq(Nat)
    BY <1>1, RecentAreKept DEF Recent
  <1>3. ASSUME NEW k \in Sender, Allow(k) PROVE ExactNext
    <2>1. ExactAllow(k)
      BY <1>2, <1>3 DEF Allow, ExactAllow, Kept
    <2>2. QED
      BY <2>1 DEF ExactNext
  <1>4. ASSUME NEW k \in Sender, Refuse(k) PROVE ExactNext
    <2>1. Len(kept(k)) >= Max /\ retry' = [retry EXCEPT ![k] = kept(k)[1] + Window]
          /\ clock' = clock /\ events' = events
      BY <1>4 DEF Refuse, Kept
    <2>2. Len(kept(k)) = Max
      <3>1. Len(kept(k)) <= Len(hits[k]) /\ Len(hits[k]) <= Max
        BY <1>1, KeptKeeps DEF KeyInv
      <3>2. QED
        BY <1>1, <1>2, <2>1, <3>1 DEF SlidingWindowAssumption
    <2>3. kept(k)[1] = events[k][Len(events[k]) - Max + 1]
      <3>1. 1 \in 1 .. Len(kept(k))
        BY <2>2 DEF SlidingWindowAssumption
      <3>2. kept(k)[1] = events[k][Len(events[k]) - Len(kept(k)) + 1]
        BY <1>2, <3>1 DEF LastOf
      <3>3. QED
        BY <2>2, <3>2
    <2>4. ExactRefuse(k)
      BY <1>2, <2>1, <2>3 DEF ExactRefuse
    <2>5. QED
      BY <2>4 DEF ExactNext
  <1>5. CASE WindowPass
    BY <1>5 DEF WindowPass, ExactNext, ExactPass
  <1>6. CASE ReceiveTick \/ EvictIdle \/ UNCHANGED windowVars
    BY <1>6 DEF ReceiveTick, EvictIdle, windowVars
  <1>7. QED
    BY <1>3, <1>4, <1>5, <1>6 DEF WindowNext

\* What a limiter that keeps every event would decide, and announce, this one does: no
\* hit and no key that it drops is missed, for every limit, length of the window and
\* number of keys (Allow, evict).
THEOREM WindowForgetsNothing ==
  ASSUME SlidingWindowAssumption
  PROVE  WindowSpec => ExactSpec
  <1>1. WindowInit => ExactInit
    BY DEF WindowInit, ExactInit
  <1>2. WindowSpec => []WindowInv
    BY WindowInvHolds
  <1>3. WindowInv /\ [WindowNext]_windowVars => [ExactNext]_<<clock, retry, events>>
    BY WindowStepIsExact
  <1>4. QED
    BY <1>1, <1>2, <1>3, PTL DEF WindowSpec, ExactSpec
=============================================================================
