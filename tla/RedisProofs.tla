----------------------------- MODULE RedisProofs -----------------------------
(***************************************************************************)
(* Proofs about what the API keeps in Redis: TokenBucket, for every rate,  *)
(* capacity, slack and grain of the clock, and DashboardCache, for every   *)
(* number of requests, life of an entry and timeout.                       *)
(***************************************************************************)
EXTENDS TokenBucket, DashboardCache, Integers, TLAPS
-----------------------------------------------------------------------------
(* TokenBucket.                                                            *)

\* Rounding up loses nothing: in FillTime seconds an empty bucket fills up.
LEMMA FillTimeFills == FillTime \in Nat /\ FillTime * Rate >= Capacity
<1>1. FillTime \in Nat
  BY BucketAssumption DEF FillTime
<1>2. Capacity + Rate - 1 < (FillTime + 1) * Rate
  BY BucketAssumption DEF FillTime
<1> QED BY <1>1, <1>2, BucketAssumption

\* The constants that the steps compute with.
LEMMA BucketConstants ==
  /\ One \in Nat \ {0} /\ Full \in Nat /\ Life \in Nat /\ Rate \in Nat \ {0}
  /\ One <= Full
  /\ Life * One \in Nat
  /\ (Life * One) * Rate >= Full
<1>1. One \in Nat \ {0} /\ Full \in Nat /\ Life \in Nat /\ One <= Full
      /\ Rate \in Nat \ {0} /\ Life * One \in Nat
  BY BucketAssumption, FillTimeFills DEF One, Full, Life
<1>2. Life * Rate >= Capacity
  BY FillTimeFills, BucketAssumption DEF Life
<1>3. (Life * One) * Rate = (Life * Rate) * One
  BY <1>1
<1>4. (Life * Rate) * One >= Capacity * One
  BY <1>1, <1>2, BucketAssumption
<1> QED BY <1>1, <1>3, <1>4, BucketAssumption DEF Full

\* What an expired key would hold is a full bucket.
LEMMA ExpiredIsFull == BucketInv => ExpiryIsInvisible
<1> SUFFICES ASSUME BucketInv, written, now >= key.expires
             PROVE  key.tokens + (now - key.time) * Rate >= Full
  BY DEF ExpiryIsInvisible
<1>1. /\ key.tokens \in Nat /\ key.time \in Nat /\ now \in Nat
      /\ key.time <= now /\ key.expires = key.time + Life * One
  BY BucketConstants, BucketAssumption DEF BucketInv, TypeOK
<1>2. now - key.time \in Nat /\ now - key.time >= Life * One
  BY <1>1, BucketConstants
<1>3. (now - key.time) * Rate >= (Life * One) * Rate
  BY <1>2, BucketConstants
<1>4. (now - key.time) * Rate \in Nat /\ (Life * One) * Rate \in Nat
  BY <1>2, BucketConstants
<1> QED BY <1>1, <1>3, <1>4, BucketConstants

\* The level of the bucket, whether or not Redis has dropped the key.
LEMMA LevelIs ==
  ASSUME BucketInv
  PROVE  /\ Refilled \in 0..Full
         /\ Refilled = IF written
                       THEN Bucket!Capped(key.tokens + (now - key.time) * Rate)
                       ELSE Full
         /\ key.tokens \in 0..Full /\ key.time \in Nat /\ now \in Nat
         /\ key.time <= now
         /\ (now - key.time) * Rate \in Nat
<1>1. /\ key.tokens \in 0..Full /\ key.time \in Nat /\ now \in Nat
      /\ key.time <= now
  BY BucketConstants, BucketAssumption DEF BucketInv, TypeOK
<1>2. (now - key.time) * Rate \in Nat
  <2>1. now - key.time \in Nat
    BY <1>1
  <2> QED BY <2>1, BucketConstants
<1>3. Bucket!Full = Full
  BY DEF Bucket!Full, Full, Bucket!One, One
<1>4. CASE Stored
  BY <1>1, <1>2, <1>3, <1>4, BucketConstants
     DEF Refilled, Tokens, Last, Stored, Bucket!Capped
<1>5. CASE ~Stored
  <2>1. Refilled = Full
    BY <1>1, <1>5, BucketConstants DEF Refilled, Tokens, Last
  <2>2. CASE written
    <3>1. now >= key.expires
      BY <1>1, <1>5, <2>2 DEF Stored, BucketInv, TypeOK
    <3>2. key.tokens + (now - key.time) * Rate >= Full
      BY <2>2, <3>1, ExpiredIsFull DEF ExpiryIsInvisible
    <3> QED BY <1>1, <1>2, <1>3, <2>1, <2>2, <3>2, BucketConstants
            DEF Bucket!Capped
  <2> QED BY <1>1, <1>2, <2>1, <2>2, BucketConstants
<1> QED BY <1>1, <1>2, <1>4, <1>5

\* What a key that never expires would hold.
Level ==
    IF written THEN Bucket!Capped(key.tokens + (now - key.time) * Rate)
               ELSE Full

LevelFact == Refilled = Level

\* The level as one formula, to be used for the next state too.
LEMMA LevelHolds == BucketInv => LevelFact
  BY LevelIs DEF LevelFact, Level

\* The invariant is inductive.
LEMMA BucketStep == BucketInv /\ [Next]_vars => BucketInv'
<1> SUFFICES ASSUME BucketInv, [Next]_vars PROVE BucketInv'
  OBVIOUS
<1>0. /\ now \in 0..MaxTime /\ written \in BOOLEAN
      /\ since \in [0..MaxTime -> Nat]
      /\ key \in [tokens : 0..Full, time : 0..now, expires : Nat]
  BY DEF BucketInv, TypeOK
<1>1. CASE UNCHANGED vars
  BY <1>1 DEF vars, BucketInv, TypeOK
<1>2. CASE Tick
  <2>1. now' \in 0..MaxTime /\ 0..now \subseteq 0..now'
    BY <1>0, <1>2, BucketAssumption DEF Tick
  <2>2. key \in [tokens : 0..Full, time : 0..now', expires : Nat]
    BY <1>0, <2>1
  <2> QED BY <1>0, <1>2, <2>1, <2>2 DEF Tick, BucketInv, TypeOK
<1>3. ASSUME NEW n \in 0..Full, key' = Stamp(n), now' = now, written' = TRUE,
             since' \in [0..MaxTime -> Nat]
      PROVE  BucketInv'
  <2>0. now \in Nat /\ Life * One \in Nat
    BY <1>0, BucketConstants, BucketAssumption
  <2>1. now \in 0..now /\ now + Life * One \in Nat
    BY <2>0
  <2>2. Stamp(n) \in [tokens : 0..Full, time : 0..now, expires : Nat]
    BY <2>1 DEF Stamp
  <2>3. key'.expires = key'.time + Life * One
    BY <1>3 DEF Stamp
  <2> QED BY <1>0, <1>3, <2>2, <2>3 DEF BucketInv, TypeOK
<1>4. CASE Allowed
  <2>1. Refilled - One \in 0..Full
    BY <1>4, LevelIs, BucketConstants DEF Allowed
  <2>2. since' \in [0..MaxTime -> Nat]
    BY <1>0, <1>4 DEF Allowed
  <2> QED BY <1>3, <1>4, <2>1, <2>2 DEF Allowed
<1>5. CASE Denied
  BY <1>0, <1>3, <1>5, LevelIs DEF Denied
<1> QED BY <1>1, <1>2, <1>4, <1>5 DEF Next

\* The bucket's invariant holds in every state.
THEOREM BucketInvariant == Spec => []BucketInv
<1>1. Init => BucketInv
  <2> SUFFICES ASSUME Init PROVE BucketInv
    OBVIOUS
  <2>1. 0 \in 0..MaxTime /\ 0 \in 0..Full /\ 0 \in 0..0
    BY BucketAssumption, BucketConstants
  <2>2. key \in [tokens : 0..Full, time : 0..now, expires : Nat]
    BY <2>1 DEF Init
  <2>3. since \in [0..MaxTime -> Nat]
    BY DEF Init
  <2> QED BY <2>1, <2>2, <2>3 DEF Init, BucketInv, TypeOK
<1> QED BY <1>1, BucketStep, PTL DEF Spec

\* Redis forgets only full buckets.
THEOREM ExpiryNeverShows == Spec => []ExpiryIsInvisible
  BY BucketInvariant, ExpiredIsFull, PTL

\* The abstract bucket counts in the same units.
LEMMA LevelUnits == Bucket!Full = Full /\ Bucket!One = One
  BY DEF Bucket!Full, Full, Bucket!One, One

\* Every step of the script, and of the clock under it, is a step of the
\* continuous bucket or changes nothing there.
LEMMA LevelStep ==
  BucketInv /\ BucketInv' /\ [Next]_vars => [Bucket!RNext]_(Bucket!rateVars)
<1> SUFFICES ASSUME BucketInv, BucketInv', [Next]_vars
             PROVE  Bucket!RNext \/ UNCHANGED Bucket!rateVars
  OBVIOUS
<1> DEFINE sum == key.tokens + (now - key.time) * Rate
<1>1. CASE UNCHANGED vars
  <2>1. Refilled' = Refilled
    BY <1>1 DEF vars, Refilled, Tokens, Last, Stored
  <2> QED BY <1>1, <2>1 DEF vars, Bucket!rateVars
<1>2. CASE Tick
  <2>1. (now + 1 - key.time) * Rate = (now - key.time) * Rate + Rate
    BY LevelIs, BucketConstants
  <2>2. Refilled' = IF written THEN Bucket!Capped(sum + Rate) ELSE Full
    <3>1. LevelFact'
      BY LevelHolds, PTL
    <3>2. written' = written /\ key' = key /\ now' = now + 1
      BY <1>2 DEF Tick
    <3>3. key.tokens + (now + 1 - key.time) * Rate = sum + Rate
      BY <2>1, LevelIs, BucketConstants
    <3>4. Level' = IF written
                   THEN Bucket!Capped(key.tokens
                                        + (now + 1 - key.time) * Rate)
                   ELSE Full
      <4>1. Full' = Full /\ Bucket!Full' = Bucket!Full
        BY DEF Full, One, Bucket!Full, Bucket!One
      <4>2. CASE written
        <5>1. written'
          BY <3>2, <4>2
        <5>2. now + 1 - key.time = now' - key'.time
          BY <3>2, LevelIs
        <5>3. key'.tokens + (now' - key'.time) * Rate
                = key.tokens + (now + 1 - key.time) * Rate
          BY <3>2, <5>2, LevelIs, BucketConstants
        <5> QED BY <4>1, <4>2, <5>1, <5>3 DEF Level, Bucket!Capped
      <4>3. CASE ~written
        <5>1. ~written'
          BY <3>2, <4>3
        <5> QED BY <4>1, <4>3, <5>1 DEF Level
      <4> QED BY <4>2, <4>3
    <3>5. Refilled' = Level'
      BY <3>1 DEF LevelFact
    <3> QED BY <3>3, <3>4, <3>5
  <2>3. Refilled' = Bucket!Capped(Refilled + Rate)
    BY LevelUnits, <2>2, LevelIs, BucketConstants DEF Bucket!Capped
  <2> QED BY <1>2, <2>3 DEF Tick, Bucket!RNext, Bucket!RTick
<1>3. ASSUME NEW n \in 0..Full, key' = Stamp(n), now' = now, written' = TRUE
      PROVE  Refilled' = n
  <2>1. /\ key'.tokens = n /\ key'.time = now
        /\ key'.expires = now + Life * One
    BY <1>3 DEF Stamp
  <2>2. now \in Nat
    BY LevelIs
  <2>3. Life * One > 0
    <3>1. Life # 0
      BY FillTimeFills, BucketAssumption DEF Life
    <3> QED BY <3>1, BucketConstants
  <2>4. Stored'
    BY <1>3, <2>1, <2>2, <2>3, BucketConstants DEF Stored
  <2>5. Refilled' = IF n + 0 * Rate > Full THEN Full ELSE n + 0 * Rate
    BY <1>3, <2>1, <2>2, <2>4 DEF Refilled, Tokens, Last
  <2> QED BY <2>5, BucketConstants
<1>4. CASE Allowed
  <2>1. Refilled - One \in 0..Full
    BY <1>4, LevelIs, BucketConstants DEF Allowed
  <2>2. Refilled' = Refilled - One
    BY <1>3, <1>4, <2>1 DEF Allowed
  <2> QED BY LevelUnits, <1>4, <2>2 DEF Allowed, Bucket!RNext, Bucket!RAllow
<1>5. CASE Denied
  <2>1. Refilled' = Refilled
    BY <1>3, <1>5, LevelIs DEF Denied
  <2> QED BY <1>5, <2>1 DEF Denied, Bucket!rateVars
<1> QED BY <1>1, <1>2, <1>4, <1>5 DEF Next

\* The lazily refilled, expiring key implements the continuous bucket.
THEOREM BucketImplementsRateLimit == Spec => ImplementsRateLimit
<1>1. Init => Bucket!RInit
  <2> SUFFICES ASSUME Init PROVE Bucket!RInit
    OBVIOUS
  <2>1. Refilled = Full
    BY BucketConstants DEF Init, Refilled, Tokens, Last, Stored
  <2> QED BY LevelUnits, <2>1 DEF Init, Bucket!RInit
<1>2. Spec => [][Bucket!RNext]_(Bucket!rateVars)
  BY LevelStep, BucketInvariant, PTL DEF Spec
<1> QED BY <1>1, <1>2 DEF Spec, ImplementsRateLimit, Bucket!RSpec

\* A product with the size of a token grows with the other factor.
LEMMA OneMore == ASSUME NEW n \in Nat PROVE (n + 1) * One = n * One + One /\ n * One \in Nat
  BY BucketConstants

\* A bound is kept when both sides gain the same.
LEMMA Shifted ==
  ASSUME NEW a \in Nat, NEW b \in Nat, NEW c \in Nat, NEW f \in Nat,
         NEW m \in Nat, NEW r \in Nat, a + b <= f + m, c <= b + r
  PROVE  a + c <= f + (m + r)
  OBVIOUS

\* A window that starts now is bounded by what the bucket holds.
LEMMA Unshifted ==
  ASSUME NEW a \in Nat, NEW f \in Nat, a <= f PROVE 0 + a <= f + 0
  OBVIOUS

\* What a window has let through and what is left in the bucket never exceed
\* a full bucket and the refill of the window.
LEMMA WindowStep ==
  BucketInv /\ BucketInv' /\ WindowInv /\ FutureInv /\ [Next]_vars
    => WindowInv' /\ FutureInv'
<1> SUFFICES ASSUME BucketInv, BucketInv', WindowInv, FutureInv, [Next]_vars
             PROVE  WindowInv' /\ FutureInv'
  OBVIOUS
<1>0. /\ now \in Nat /\ now' \in Nat /\ now <= MaxTime /\ now' <= MaxTime
      /\ MaxTime \in Nat /\ since \in [0..MaxTime -> Nat]
      /\ Refilled \in Nat /\ Refilled <= Full /\ Full \in Nat /\ Rate \in Nat
  <2>1. now \in 0..MaxTime /\ since \in [0..MaxTime -> Nat]
    BY DEF BucketInv, TypeOK
  <2>2. now' \in 0..MaxTime
    BY DEF BucketInv, TypeOK
  <2>3. MaxTime \in Nat /\ Rate \in Nat
    BY BucketAssumption
  <2>4. now \in Nat /\ now' \in Nat /\ now <= MaxTime /\ now' <= MaxTime
    BY <2>1, <2>2, <2>3
  <2>5. Refilled \in Nat /\ Refilled <= Full /\ Full \in Nat
    BY LevelIs, BucketConstants
  <2> QED BY <2>1, <2>3, <2>4, <2>5
<1>9. ASSUME NEW s \in 0..now
      PROVE  /\ s \in 0..MaxTime /\ since[s] \in Nat
             /\ now - s \in Nat /\ (now - s) * Rate \in Nat
  <2>1. s \in 0..MaxTime /\ since[s] \in Nat /\ now - s \in Nat
    BY <1>0
  <2> QED BY <1>0, <2>1
<1>1. CASE Bucket!RTick
  <2>1. /\ now' = now + 1 /\ since' = since
        /\ Refilled' = Bucket!Capped(Refilled + Rate)
    BY <1>1 DEF Bucket!RTick
  <2>2. Refilled' <= Refilled + Rate /\ Refilled' <= Full /\ Refilled' \in Nat
    BY <1>0, <2>1, LevelUnits DEF Bucket!Capped
  <2>3. ASSUME NEW s \in 0..now'
        PROVE  since[s] * One + Refilled' <= Full + (now' - s) * Rate
    <3>1. CASE s \in 0..now
      <4>1. now - s \in Nat /\ since[s] \in Nat /\ (now - s) * Rate \in Nat
        BY <1>9, <3>1
      <4>2. (now' - s) * Rate = (now - s) * Rate + Rate
        <5>1. now' - s = (now - s) + 1
          BY <1>0, <2>1, <3>1
        <5>2. ((now - s) + 1) * Rate = (now - s) * Rate + Rate
          BY <1>0, <4>1
        <5> QED BY <5>1, <5>2
      <4>3. since[s] * One \in Nat
        BY <4>1, OneMore
      <4>4. since[s] * One + Refilled <= Full + (now - s) * Rate
        BY <3>1 DEF WindowInv
      <4>5. since[s] * One + Refilled' <= Full + ((now - s) * Rate + Rate)
        BY <1>0, <2>2, <4>1, <4>3, <4>4, Shifted
      <4> QED BY <4>2, <4>5
    <3>2. CASE s = now + 1
      <4>1. since[s] = 0 /\ now' - s = 0
        BY <1>0, <2>1, <3>2 DEF FutureInv
      <4>2. since[s] * One = 0 /\ (now' - s) * Rate = 0
        <5>1. 0 * One = 0 /\ 0 * Rate = 0
          BY BucketConstants
        <5> QED BY <4>1, <5>1
      <4>3. 0 + Refilled' <= Full + 0
        BY <1>0, <2>2, Unshifted
      <4> QED BY <4>2, <4>3
    <3> QED BY <1>0, <2>1, <3>1, <3>2
  <2>4. FutureInv'
    BY <1>0, <2>1 DEF FutureInv
  <2> QED BY <2>1, <2>3, <2>4 DEF WindowInv
<1>2. CASE Bucket!RAllow
  <2>1. /\ now' = now /\ Refilled' = Refilled - One
        /\ since' = [s \in 0..MaxTime |-> IF s <= now THEN since[s] + 1 ELSE since[s]]
    BY <1>2, LevelUnits DEF Bucket!RAllow
  <2>2. ASSUME NEW s \in 0..now
        PROVE  since'[s] * One + Refilled' <= Full + (now - s) * Rate
    <3>1. since[s] \in Nat /\ since'[s] = since[s] + 1
      BY <1>0, <1>9, <2>1
    <3>2. since'[s] * One = since[s] * One + One /\ since[s] * One \in Nat
      BY <3>1, OneMore
    <3>3. since[s] * One + Refilled <= Full + (now - s) * Rate
      BY DEF WindowInv
    <3>4. (now - s) * Rate \in Nat
      BY <1>9
    <3> QED BY <1>0, <2>1, <3>2, <3>3, <3>4, BucketConstants
  <2>3. FutureInv'
    BY <1>0, <2>1 DEF FutureInv
  <2> QED BY <2>1, <2>2, <2>3 DEF WindowInv
<1>3. CASE UNCHANGED Bucket!rateVars
  BY <1>3 DEF Bucket!rateVars, WindowInv, FutureInv
<1> QED BY <1>1, <1>2, <1>3, LevelStep DEF Bucket!RNext

\* No window of time lets through more than the capacity and its refill, for
\* every rate and capacity, however calls cluster and whenever the key expires.
THEOREM NoWindowExceeds == Spec => []WindowBounded
<1>1. Init => WindowInv /\ FutureInv
  <2> SUFFICES ASSUME Init PROVE WindowInv /\ FutureInv
    OBVIOUS
  <2>1. Refilled = Full
    BY BucketConstants DEF Init, Refilled, Tokens, Last, Stored
  <2>2. now = 0 /\ \A s \in 0..MaxTime : since[s] = 0
    BY DEF Init
  <2>3. 0 \in 0..MaxTime /\ \A s \in 0..0 : s = 0
    BY BucketAssumption
  <2>4. 0 * One = 0 /\ (0 - 0) * Rate = 0
    BY BucketConstants
  <2> QED BY <2>1, <2>2, <2>3, <2>4, BucketConstants DEF WindowInv, FutureInv
<1>2. BucketInv /\ WindowInv => WindowBounded
  <2> SUFFICES ASSUME BucketInv, WindowInv, NEW s \in 0..now
               PROVE  since[s] * One <= Full + (now - s) * Rate
    BY DEF WindowBounded
  <2>1. since[s] \in Nat /\ now - s \in Nat
    BY BucketAssumption DEF BucketInv, TypeOK
  <2>2. since[s] * One \in Nat /\ (now - s) * Rate \in Nat
    BY <2>1, OneMore, BucketConstants
  <2> QED BY <2>2, LevelIs, BucketConstants DEF WindowInv
<1> QED BY <1>1, <1>2, WindowStep, BucketInvariant, PTL DEF Spec

-----------------------------------------------------------------------------
(* DashboardCache.                                                         *)

\* Initially nothing is stored and no SET is on its way.
LEMMA CacheInvInit == CacheInit => CacheInv
<1> SUFFICES ASSUME CacheInit PROVE CacheInv
  OBVIOUS
<1>1. CacheTypeOK
  BY DEF CacheInit, CacheTypeOK, Phase
<1>2. \A r \in Request : pc[r] = "idle" /\ start[r] = 0
  BY DEF CacheInit
<1>3. ~stored /\ clock = 0 /\ sets = {}
  BY DEF CacheInit
<1> QED BY <1>1, <1>2, <1>3 DEF CacheInv

\* A handler that returns leaves nothing behind but its SET.
LEMMA ReturnKeeps ==
  ASSUME CacheInv, NEW r \in Request, Return(r),
         UNCHANGED <<clock, stored, entry, sets>>
  PROVE  CacheInv'
<1> USE DEF CacheInv
<1>1. CacheTypeOK'
  BY DEF CacheTypeOK, Return, Go, Phase
<1>2. \A q \in Request :
         /\ start'[q] = IF q = r THEN 0 ELSE start[q]
         /\ snap'[q] = IF q = r THEN 0 ELSE snap[q]
         /\ pc'[q] = IF q = r THEN "idle" ELSE pc[q]
  BY DEF CacheTypeOK, Return, Go
<1>3. clock' \in Nat
  BY DEF CacheTypeOK
<1> QED BY <1>1, <1>2, <1>3

\* Every step of dashboard, of Redis and of the clock keeps the invariant.
LEMMA CacheInvStep == CacheInv /\ [CacheNext]_cacheVars => CacheInv'
<1> SUFFICES ASSUME CacheInv, [CacheNext]_cacheVars PROVE CacheInv'
  OBVIOUS
<1> USE CacheAssumption DEF CacheInv, CacheTypeOK, Phase, Go
<1>1. CASE UNCHANGED cacheVars
  BY <1>1 DEF cacheVars
<1>2. CASE Evict
  BY <1>2 DEF Evict
<1>3. CASE ClockTick
  BY <1>3 DEF ClockTick
<1>4. ASSUME NEW r \in Request, Step(r) PROVE CacheInv'
  <2>1. CASE Arrive(r)
    BY <2>1 DEF Arrive
  <2>2. CASE Hit(r) \/ QueryFails(r) \/ Answer(r)
    BY <2>2, ReturnKeeps DEF Hit, QueryFails, Answer
  <2>3. CASE Miss(r)
    BY <2>3 DEF Miss
  <2>4. CASE Snapshot(r)
    \* The clock has not gone back since the request came in.
    <3>1. start[r] <= clock
      BY DEF CacheInv
    <3> QED BY <2>4, <3>1 DEF Snapshot
  <2>5. CASE Result(r)
    BY <2>5 DEF Result
  <2>6. CASE Send(r)
    <3> DEFINE m == [by |-> r, snap |-> snap[r], begun |-> clock]
    <3>1. m \in SetCommand /\ m.begun = clock /\ m.snap = snap[r]
      BY DEF SetCommand
    <3>2. clock < snap[r] + Timeout
      BY <2>6 DEF Send, InTime
    <3> HIDE DEF m
    <3>3. sets' = sets \cup {m} /\ pc' = [pc EXCEPT ![r] = "setting"]
          /\ UNCHANGED <<clock, stored, entry, start, snap>>
      BY <2>6 DEF Send, m
    <3> QED BY <3>1, <3>2, <3>3
  <2> QED BY <1>4, <2>1, <2>2, <2>3, <2>4, <2>5, <2>6 DEF Step
<1>5. ASSUME NEW m \in sets, Store(m) PROVE CacheInv'
  <2>1. m.snap \in Nat /\ m.begun \in Nat /\ m.begun < m.snap + Timeout
    BY DEF SetCommand
  <2>2. clock + TTL < m.snap + TTL + Timeout + SetDelay
    BY <1>5, <2>1 DEF Store
  <2>3. clock + TTL \in Nat
    OBVIOUS
  <2>4. entry' \in [snap : Nat, expires : Nat]
        /\ entry'.snap = m.snap /\ entry'.expires = clock + TTL
    BY <1>5, <2>1, <2>3 DEF Store
  <2>5. stored' = TRUE /\ sets' \subseteq sets
        /\ UNCHANGED <<clock, pc, start, snap>>
    BY <1>5 DEF Store
  <2> QED BY <2>2, <2>4, <2>5
<1>6. ASSUME NEW m \in sets, StoreFails(m) PROVE CacheInv'
  BY <1>6 DEF StoreFails
<1> QED BY <1>1, <1>2, <1>3, <1>4, <1>5, <1>6 DEF CacheNext

\* Totals answered from the cache are never older than the life of an entry, the
\* timeout of a request and the delay of a SET together (dashboard, Cached and
\* Cache), for every value of the three.
THEOREM CacheStalenessBounded == CacheSpec => []StalenessBounded
<1>1. CacheSpec => []CacheInv
  BY CacheInvInit, CacheInvStep, PTL DEF CacheSpec
<1>2. CacheInv => StalenessBounded
  BY CacheAssumption DEF CacheInv, CacheTypeOK, StalenessBounded, Live
<1> QED BY <1>1, <1>2, PTL
==============================================================================
