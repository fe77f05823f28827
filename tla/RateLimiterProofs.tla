-------------------------- MODULE RateLimiterProofs --------------------------
(* Theorems about RateLimiter, for every value of its constants.           *)
EXTENDS RateLimiter, TLAPS

USE LimiterAssumption DEF LimiterAssumption

LEMMA FullIsNat == Full \in Nat \ {0} /\ One <= Full
BY DEF Full

LEMMA ToppedBounds ==
    ASSUME NEW n \in Nat
    PROVE  Topped(n) \in 0..Full /\ Topped(n) <= n
BY FullIsNat DEF Topped

\* What allow finds in a bucket is at most full.
LEMMA LevelTyped ==
    ASSUME TypeOK, NEW k \in Keys
    PROVE  Level(k) \in 0..Full
<1>1. CASE bucket[k].kept
  <2>1. /\ bucket[k].tokens \in Nat /\ bucket[k].last \in Nat /\ now \in Nat
        /\ bucket[k].last <= now
    BY DEF TypeOK, Buckets, Times
  <2>2. (now - bucket[k].last) * Rate \in Nat
    BY <2>1
  <2>3. bucket[k].tokens + (now - bucket[k].last) * Rate \in Nat
    BY <2>1, <2>2
  <2>4. QED BY <1>1, <2>3, ToppedBounds DEF Level, Refilled
<1>2. CASE ~bucket[k].kept
  BY <1>2, FullIsNat DEF Level
<1>3. QED BY <1>1, <1>2

(***************************************************************************)
(* The level of a bucket is all that its future depends on: after each     *)
(* step it is what the step says of it.                                    *)
(***************************************************************************)
LEMMA NewBucketLevel ==
    ASSUME NEW k \in Keys, NEW n \in 0..Full, now \in Nat, now' = now,
           bucket'[k] = Bucket(n, now)
    PROVE  Level(k)' = n
<1>1. /\ bucket'[k].kept /\ bucket'[k].tokens = n
      /\ bucket'[k].last = now
  BY DEF Bucket
<1>2. n + (now - now) * Rate = n
  BY FullIsNat
<1>3. Topped(n) = n
  BY FullIsNat DEF Topped
<1>4. QED BY <1>1, <1>2, <1>3 DEF Level, Refilled

LEMMA OtherBucketLevel ==
    ASSUME NEW k \in Keys, now' = now, bucket'[k] = bucket[k]
    PROVE  Level(k)' = Level(k)
BY DEF Level, Refilled

LEMMA AllowLevels ==
    ASSUME TypeOK, NEW k \in Keys, Allow(k)
    PROVE  /\ Level(k) >= One
           /\ Level(k)' = Level(k) - One
           /\ \A j \in Keys \ {k} : Level(j)' = Level(j)
<1>1. Level(k) >= One /\ Level(k) - One \in 0..Full
  BY LevelTyped, FullIsNat DEF Allow
<1>2. bucket'[k] = Bucket(Level(k) - One, now) /\ now' = now /\ now \in Nat
  BY DEF Allow, Spent, TypeOK, Times
<1>3. \A j \in Keys \ {k} : bucket'[j] = bucket[j]
  BY DEF Allow, TypeOK
<1>4. QED BY <1>1, <1>2, <1>3, NewBucketLevel, OtherBucketLevel

LEMMA DenyLevels ==
    ASSUME TypeOK, NEW k \in Keys, Deny(k)
    PROVE  \A j \in Keys : Level(j)' = Level(j)
<1>1. Level(k) \in 0..Full
  BY LevelTyped
<1>2. bucket'[k] = Bucket(Level(k), now) /\ now' = now /\ now \in Nat
  BY DEF Deny, Refused, TypeOK, Times
<1>3. \A j \in Keys \ {k} : bucket'[j] = bucket[j]
  BY DEF Deny, TypeOK
<1>4. QED BY <1>1, <1>2, <1>3, NewBucketLevel, OtherBucketLevel

\* An idle bucket is a full one: this is what the length of IdleTTL is for.
LEMMA EvictLevels ==
    ASSUME TypeOK, NEW k \in Keys, Evict
    PROVE  Level(k)' = Level(k)
<1>1. CASE Idle(bucket[k]) /\ bucket[k].kept
  <2>1. /\ bucket[k].tokens \in Nat /\ bucket[k].last \in Nat /\ now \in Nat
        /\ bucket[k].last < now - IdleTTL
    BY <1>1 DEF TypeOK, Buckets, Times, Idle
  <2>2. (now - bucket[k].last) * Rate >= IdleTTL * Rate
    BY <2>1
  <2> DEFINE refill == (now - bucket[k].last) * Rate
             idle   == IdleTTL * Rate
  <2>3. refill \in Nat /\ idle \in Nat
    BY <2>1
  <2>4. idle >= Full
    BY DEF LimiterAssumption
  <2> HIDE DEF refill, idle
  <2>5. bucket[k].tokens + refill >= Full
    BY <2>1, <2>2, <2>3, <2>4, FullIsNat DEF refill, idle
  <2>6. Level(k) = Full
    BY <1>1, <2>1, <2>3, <2>5, FullIsNat DEF Level, Refilled, Topped, refill
  <2>7. Level(k)' = Full
    BY <1>1 DEF Evict, Level, NoBucket
  <2>8. QED BY <2>6, <2>7
<1>2. CASE ~Idle(bucket[k])
  BY <1>2, OtherBucketLevel DEF Evict
<1>3. CASE ~bucket[k].kept
  BY <1>3 DEF Evict, Level, Refilled, NoBucket
<1>4. QED BY <1>1, <1>2, <1>3

LEMMA TickLevels ==
    ASSUME TypeOK, NEW k \in Keys, Tick
    PROVE  Level(k)' = Topped(Level(k) + Rate)
<1>1. CASE bucket[k].kept
  <2>1. /\ bucket[k].tokens \in Nat /\ bucket[k].last \in Nat /\ now \in Nat
        /\ bucket[k].last <= now
    BY DEF TypeOK, Buckets, Times
  <2> DEFINE refill == (now - bucket[k].last) * Rate
             n      == bucket[k].tokens + refill
  <2>2. refill \in Nat /\ n \in Nat
    <3>1. refill \in Nat
      BY <2>1
    <3>2. QED BY <2>1, <3>1
  <2>3. (now + 1 - bucket[k].last) * Rate = refill + Rate
    BY <2>1
  <2>4. Level(k) = Topped(n)
    BY <1>1 DEF Level, Refilled
  <2>5. Level(k)' = Topped(n + Rate)
    <3>0. bucket' = bucket /\ now' = now + 1
      BY DEF Tick
    <3> DEFINE later == (now' - bucket'[k].last) * Rate
    <3>1. later = refill + Rate
      <4>1. now' - bucket'[k].last = now + 1 - bucket[k].last
        BY <2>1, <3>0
      <4>2. QED BY <2>3, <4>1
    <3>2. Level(k)' = Topped(bucket[k].tokens + later)
      BY <1>1, <3>0 DEF Level, Refilled, Topped
    <3> HIDE DEF later, refill
    <3>3. bucket[k].tokens + (refill + Rate) = (bucket[k].tokens + refill) + Rate
      BY <2>1, <2>2
    <3>4. QED BY <3>1, <3>2, <3>3
  <2> HIDE DEF n
  <2>6. Topped(n + Rate) = Topped(Topped(n) + Rate)
    BY <2>2, FullIsNat DEF Topped
  <2>7. QED BY <2>4, <2>5, <2>6
<1>2. CASE ~bucket[k].kept
  <2>1. Level(k) = Full /\ Level(k)' = Full
    BY <1>2 DEF Tick, Level
  <2>2. Topped(Full + Rate) = Full
    BY FullIsNat DEF Topped
  <2>3. QED BY <2>1, <2>2
<1>3. QED BY <1>1, <1>2

(***************************************************************************)
(* Types.                                                                  *)
(***************************************************************************)
LEMMA RetryAfterIsNat ==
    ASSUME TypeOK, NEW k \in Keys, Level(k) < One
    PROVE  RetryAfter(k) \in Nat \ {0}
<1> DEFINE n == One - Level(k)
           d == Rate * Second
<1>1. n \in Nat /\ d \in Nat \ {0}
  BY LevelTyped, FullIsNat
<1>2. (n \div d) \in Int
  BY <1>1
<1>3. QED BY <1>2 DEF RetryAfter

LEMMA TypeStep == TypeOK /\ [Next]_vars => TypeOK'
<1> SUFFICES ASSUME TypeOK, [Next]_vars PROVE TypeOK'
  OBVIOUS
<1>0. /\ now \in Times /\ bucket \in [Keys -> Buckets]
      /\ \A k \in Keys : bucket[k].last <= now
      /\ passed \in [Keys -> [Times -> Nat]] /\ told \in [Keys -> Nat]
  BY DEF TypeOK
<1>a. \A n \in 0..Full : Bucket(n, now) \in Buckets
  BY <1>0 DEF Bucket, Buckets
<1>1. ASSUME NEW k \in Keys, Allow(k)
      PROVE  TypeOK'
  <2>1. Spent(k) \in Buckets /\ Spent(k).last = now
    <3>1. Level(k) - One \in 0..Full
      BY <1>1, LevelTyped, FullIsNat DEF Allow
    <3>2. QED BY <1>a, <3>1 DEF Spent, Bucket
  <2>2. Counted(k) \in [Times -> Nat]
    BY <1>0 DEF Counted
  <2>3. /\ now' = now /\ bucket' = [bucket EXCEPT ![k] = Spent(k)]
        /\ passed' = [passed EXCEPT ![k] = Counted(k)]
        /\ told' = [told EXCEPT ![k] = 0]
    BY <1>1 DEF Allow
  <2> HIDE DEF TypeOK
  <2>4. bucket' \in [Keys -> Buckets] /\ \A j \in Keys : bucket'[j].last <= now'
    BY <1>0, <2>1, <2>3 DEF Times
  <2>5. QED BY <1>0, <2>2, <2>3, <2>4 DEF TypeOK
<1>2. ASSUME NEW k \in Keys, Deny(k)
      PROVE  TypeOK'
  <2>1. Refused(k) \in Buckets /\ Refused(k).last = now
    BY <1>a, LevelTyped DEF Refused, Bucket
  <2>2. now + (RetryAfter(k) + 1) * Second \in Nat
    <3>1. RetryAfter(k) \in Nat
      BY <1>2, RetryAfterIsNat DEF Deny
    <3>2. (RetryAfter(k) + 1) * Second \in Nat
      BY <3>1
    <3>3. QED BY <1>0, <3>2 DEF Times
  <2>3. told' \in [Keys -> Nat]
    BY <1>0, <1>2, <2>2 DEF Deny
  <2>4. now' = now /\ passed' = passed
        /\ bucket' = [bucket EXCEPT ![k] = Refused(k)]
    BY <1>2 DEF Deny
  <2>5. bucket' \in [Keys -> Buckets] /\ \A j \in Keys : bucket'[j].last <= now'
    BY <1>0, <2>1, <2>4 DEF Times
  <2>6. QED BY <1>0, <2>3, <2>4, <2>5 DEF TypeOK
<1>3. CASE Evict
  BY <1>0, <1>3, FullIsNat DEF Evict, TypeOK, NoBucket, Buckets, Times
<1>4. CASE Tick
  BY <1>0, <1>4 DEF Tick, TypeOK, Times, Buckets
<1>5. CASE UNCHANGED vars
  BY <1>0, <1>5 DEF vars, TypeOK
<1>6. QED BY <1>1, <1>2, <1>3, <1>4, <1>5 DEF Next

(* Clock, buckets and histories always have their types; in particular no  *)
(* bucket ever holds more than the burst or less than nothing.             *)
THEOREM TypeCorrect == Spec => []TypeOK
<1>1. Init => TypeOK
  BY FullIsNat DEF Init, TypeOK, Times, NoBucket, Buckets
<1>2. QED BY <1>1, TypeStep, PTL DEF Spec

(***************************************************************************)
(* The rate.  What passed since a time and what is left now are together   *)
(* within the burst and the refill since: a refill adds to both sides, a   *)
(* request moves a token from the one to the other.                        *)
(***************************************************************************)
Owed ==
    \A k \in Keys : \A t \in 0..now :
        passed[k][t] * One + Level(k) <= Full + (now - t) * Rate

Unborn == \A k \in Keys : \A t \in Times : t > now => passed[k][t] = 0

\* The inequality each kind of step preserves, away from the state.
LEMMA OwedArithmetic ==
    ASSUME NEW p \in Nat, NEW n \in Nat, NEW age \in Nat,
           p * One + n <= Full + age * Rate
    PROVE  /\ n >= One => (p + 1) * One + (n - One) <= Full + age * Rate
           /\ p * One + Topped(n + Rate) <= Full + (age + 1) * Rate
<1> DEFINE a == p * One
           b == age * Rate
<1>1. a \in Nat /\ b \in Nat /\ Full \in Nat
  BY FullIsNat
<1>2. (p + 1) * One = a + One /\ (age + 1) * Rate = b + Rate
  OBVIOUS
<1>3. Topped(n + Rate) \in Nat /\ Topped(n + Rate) <= n + Rate
  BY ToppedBounds
<1>4. a + n <= Full + b
  OBVIOUS
<1> HIDE DEF a, b
<1>5. /\ n >= One => (a + One) + (n - One) <= Full + b
      /\ a + Topped(n + Rate) <= Full + (b + Rate)
  BY <1>1, <1>3, <1>4
<1>6. QED BY <1>2, <1>5 DEF a, b

LEMMA OwedStep ==
    TypeOK /\ Unborn /\ Owed /\ [Next]_vars => Unborn' /\ Owed'
<1> SUFFICES ASSUME TypeOK, Unborn, Owed, [Next]_vars PROVE Unborn' /\ Owed'
  OBVIOUS
<1>0. /\ now \in Nat /\ now \in Times
      /\ passed \in [Keys -> [Times -> Nat]]
      /\ \A k \in Keys : Level(k) \in 0..Full
  BY LevelTyped DEF TypeOK, Times
<1>1. ASSUME NEW k \in Keys, Allow(k)
      PROVE  Unborn' /\ Owed'
  <2>1. /\ now' = now /\ passed' = [passed EXCEPT ![k] = Counted(k)]
        /\ Level(k) >= One /\ Level(k)' = Level(k) - One
        /\ \A j \in Keys \ {k} : Level(j)' = Level(j)
    BY <1>1, AllowLevels DEF Allow
  <2>2. \A t \in Times :
           passed'[k][t] = IF t <= now THEN passed[k][t] + 1 ELSE passed[k][t]
    BY <1>0, <2>1 DEF Counted
  <2>3. \A j \in Keys \ {k} : passed'[j] = passed[j]
    BY <1>0, <2>1
  <2>4. Unborn'
    BY <1>0, <2>1, <2>2, <2>3 DEF Unborn, Times
  <2>5. ASSUME NEW j \in Keys, NEW t \in 0..now
        PROVE  passed'[j][t] * One + Level(j)' <= Full + (now - t) * Rate
    <3>0. /\ passed[j][t] \in Nat /\ now - t \in Nat /\ t \in Times
          /\ passed[j][t] * One + Level(j) <= Full + (now - t) * Rate
      BY <1>0 DEF Owed, Times
    <3>1. CASE j = k
      <4>1. passed'[k][t] = passed[k][t] + 1
        BY <2>2, <3>0
      <4>2. Level(k) \in Nat
        BY <1>0
      <4>3. (passed[k][t] + 1) * One + (Level(k) - One) <= Full + (now - t) * Rate
        BY <2>1, <3>0, <3>1, <4>2, OwedArithmetic
      <4>4. QED BY <2>1, <3>1, <4>1, <4>3
    <3>2. CASE j # k
      BY <2>1, <2>3, <3>0, <3>2
    <3>3. QED BY <3>1, <3>2
  <2>6. Owed'
    BY <2>1, <2>5 DEF Owed
  <2>7. QED BY <2>4, <2>6
<1>2. ASSUME UNCHANGED <<now, passed>>, \A k \in Keys : Level(k)' = Level(k)
      PROVE  Unborn' /\ Owed'
  BY <1>2 DEF Unborn, Owed
<1>3. ASSUME NEW k \in Keys, Deny(k)
      PROVE  Unborn' /\ Owed'
  BY <1>2, <1>3, DenyLevels DEF Deny
<1>4. CASE Evict
  BY <1>2, <1>4, EvictLevels DEF Evict
<1>5. CASE Tick
  <2>1. now' = now + 1 /\ now' \in Times /\ passed' = passed
    BY <1>0, <1>5 DEF Tick, Times
  <2>2. Unborn'
    BY <1>0, <2>1 DEF Unborn, Times
  <2>3. ASSUME NEW k \in Keys, NEW t \in 0..now'
        PROVE  passed'[k][t] * One + Level(k)' <= Full + (now' - t) * Rate
    <3>1. Level(k)' = Topped(Level(k) + Rate) /\ Level(k) \in Nat
      BY <1>0, <1>5, TickLevels
    <3>2. CASE t \in 0..now
      <4>1. /\ passed[k][t] \in Nat /\ now - t \in Nat
            /\ passed[k][t] * One + Level(k) <= Full + (now - t) * Rate
        BY <1>0, <3>2 DEF Owed, Times
      <4>2. passed[k][t] * One + Topped(Level(k) + Rate)
               <= Full + (now - t + 1) * Rate
        BY <3>1, <4>1, OwedArithmetic
      <4>3. now - t + 1 = now' - t
        BY <1>0, <2>1, <3>2
      <4>4. QED BY <2>1, <3>1, <4>2, <4>3
    <3>3. CASE t = now'
      <4>1. passed'[k][t] = 0
        BY <1>0, <2>1, <3>3 DEF Unborn, Times
      <4>2. Level(k)' \in 0..Full
        BY <3>1, ToppedBounds
      <4>3. (now' - t) * Rate = 0 /\ passed'[k][t] * One = 0
        BY <1>0, <2>1, <3>3, <4>1
      <4>4. QED BY <4>2, <4>3, FullIsNat
    <3>4. QED BY <1>0, <2>1, <3>2, <3>3
  <2>4. Owed'
    BY <2>3 DEF Owed
  <2>5. QED BY <2>2, <2>4
<1>6. CASE UNCHANGED vars
  BY <1>2, <1>6, OtherBucketLevel DEF vars
<1>7. QED BY <1>1, <1>3, <1>4, <1>5, <1>6 DEF Next

(* Over any stretch of time, whatever was evicted or refused meanwhile, a  *)
(* user gets through no more than the burst and the refill.                *)
THEOREM RateHolds == Spec => []RateBounded
<1>1. Init => Unborn /\ Owed
  <2> SUFFICES ASSUME Init PROVE Unborn /\ Owed
    OBVIOUS
  <2>1. \A k \in Keys : Level(k) = Full /\ \A t \in Times : passed[k][t] = 0
    BY DEF Init, Level, NoBucket
  <2>2. now = 0 /\ 0 \in Times
    BY DEF Init, Times
  <2>3. \A t \in 0..now : t = 0 /\ (now - t) * Rate = 0
    BY <2>2
  <2>4. Owed
    BY <2>1, <2>2, <2>3, FullIsNat DEF Owed
  <2>5. QED BY <2>1, <2>4 DEF Unborn
<1>2. TypeOK /\ Owed => RateBounded
  <2> SUFFICES ASSUME TypeOK, Owed, NEW k \in Keys, NEW t \in 0..now
               PROVE  passed[k][t] * One <= Full + (now - t) * Rate
    BY DEF RateBounded
  <2> DEFINE a == passed[k][t] * One
             b == Full + (now - t) * Rate
  <2>1. /\ passed[k][t] \in Nat /\ now - t \in Nat /\ Level(k) \in Nat
    BY LevelTyped DEF TypeOK, Times
  <2>2. a \in Nat /\ a + Level(k) <= b
    BY <2>1 DEF Owed
  <2>3. b \in Nat
    BY <2>1, FullIsNat
  <2> HIDE DEF a, b
  <2>4. a <= b
    BY <2>1, <2>2, <2>3
  <2>5. QED BY <2>4 DEF a, b
<1>3. Init => TypeOK
  BY FullIsNat DEF Init, TypeOK, Times, NoBucket, Buckets
<1>4. QED BY <1>1, <1>2, <1>3, OwedStep, TypeStep, PTL DEF Spec

(***************************************************************************)
(* The promise of Retry-After: a refused key either has its token again or *)
(* will have it, at this rate, by the time it was told.                    *)
(***************************************************************************)
LEMMA DivisionRoundsDown ==
    ASSUME NEW n \in Nat, NEW d \in Nat \ {0}
    PROVE  (n \div d) \in Nat /\ n <= ((n \div d) + 1) * d
OBVIOUS

Kept(k) ==
    \/ told[k] = 0
    \/ Level(k) >= One
    \/ told[k] >= now /\ Level(k) + (told[k] - now) * Rate >= One

Promised == \A k \in Keys : Kept(k)

LEMMA PromiseLongEnough ==
    ASSUME TypeOK, NEW k \in Keys, Level(k) < One
    PROVE  /\ RetryAfter(k) \in Nat
           /\ Level(k) + (RetryAfter(k) + 1) * Second * Rate >= One
<1> DEFINE n == One - Level(k)
           d == Rate * Second
           m == RetryAfter(k)
<1>1. n \in Nat /\ d \in Nat \ {0} /\ Level(k) \in Nat
  BY LevelTyped, FullIsNat
<1>2. m \in Nat /\ m >= n \div d
  <2>1. (n \div d) \in Nat
    BY <1>1, DivisionRoundsDown
  <2>2. m = IF n \div d < 1 THEN 1 ELSE n \div d
    BY DEF RetryAfter
  <2> HIDE DEF n, d, m
  <2>3. QED BY <2>1, <2>2
<1>3. (m + 1) * d >= n
  <2>1. (n \div d) \in Nat /\ n <= ((n \div d) + 1) * d
    BY <1>1, DivisionRoundsDown
  <2> HIDE DEF n, d, m
  <2>2. ((n \div d) + 1) * d <= (m + 1) * d
    BY <1>1, <1>2, <2>1
  <2>3. QED BY <1>1, <1>2, <2>1, <2>2
<1>4. (m + 1) * d = (m + 1) * Second * Rate
  BY <1>2
<1> HIDE DEF d, m
<1>5. QED BY <1>1, <1>2, <1>3, <1>4 DEF m

LEMMA PromiseStep == TypeOK /\ Promised /\ [Next]_vars => Promised'
<1> SUFFICES ASSUME TypeOK, Promised, [Next]_vars, NEW j \in Keys
             PROVE  Kept(j)'
  BY DEF Promised
<1>0. /\ now \in Nat /\ Level(j) \in Nat /\ told[j] \in Nat
      /\ told \in [Keys -> Nat] /\ Kept(j)
  BY LevelTyped DEF TypeOK, Times, Promised
<1>1. ASSUME UNCHANGED now, told'[j] = told[j], Level(j)' = Level(j)
      PROVE  Kept(j)'
  BY <1>0, <1>1 DEF Kept
<1>2. ASSUME NEW k \in Keys, Allow(k)
      PROVE  Kept(j)'
  <2>1. CASE j = k
    BY <1>0, <1>2, <2>1 DEF Allow, Kept
  <2>2. CASE j # k
    <3>1. UNCHANGED now /\ told'[j] = told[j] /\ Level(j)' = Level(j)
      BY <1>0, <1>2, <2>2, AllowLevels DEF Allow
    <3>2. QED BY <1>1, <3>1
  <2>3. QED BY <2>1, <2>2
<1>3. ASSUME NEW k \in Keys, Deny(k)
      PROVE  Kept(j)'
  <2>1. UNCHANGED now /\ Level(j)' = Level(j)
    BY <1>3, DenyLevels DEF Deny
  <2>2. CASE j = k /\ told[j] = 0
    <3> DEFINE wait == (RetryAfter(j) + 1) * Second
    <3>1. wait \in Nat /\ Level(j) + wait * Rate >= One
      BY <1>3, <2>2, PromiseLongEnough DEF Deny
    <3>2. told'[j] = now + wait
      BY <1>0, <1>3, <2>2 DEF Deny
    <3> HIDE DEF wait
    <3>3. told'[j] - now = wait /\ told'[j] >= now
      BY <1>0, <3>1, <3>2
    <3>4. QED BY <2>1, <3>1, <3>3 DEF Kept
  <2>3. CASE j # k \/ told[j] # 0
    <3>1. told'[j] = told[j]
      BY <1>0, <1>3, <2>3 DEF Deny
    <3>2. QED BY <1>1, <2>1, <3>1
  <2>4. QED BY <2>2, <2>3
<1>4. CASE Evict
  <2>1. UNCHANGED now /\ told'[j] = told[j] /\ Level(j)' = Level(j)
    BY <1>4, EvictLevels DEF Evict
  <2>2. QED BY <1>1, <2>1
<1>5. CASE Tick
  <2>1. /\ now' = now + 1 /\ told'[j] = told[j]
        /\ Level(j)' = Topped(Level(j) + Rate)
    BY <1>5, TickLevels DEF Tick
  <2>2. Level(j) + Rate >= Full => Level(j)' = Full
    BY <1>0, <2>1, FullIsNat DEF Topped
  <2>3. Level(j) + Rate < Full => Level(j)' = Level(j) + Rate
    BY <1>0, <2>1, FullIsNat DEF Topped
  <2>4. CASE told[j] = 0
    BY <2>1, <2>4 DEF Kept
  <2>5. CASE Level(j) >= One \/ Level(j) + Rate >= Full
    <3>1. Level(j)' >= One
      BY <1>0, <2>2, <2>3, <2>5, FullIsNat
    <3>2. QED BY <3>1 DEF Kept
  <2>6. CASE /\ told[j] >= now /\ Level(j) + (told[j] - now) * Rate >= One
             /\ Level(j) < One /\ Level(j) + Rate < Full
    <3>1. told[j] # now
      <4>1. (now - now) * Rate = 0
        BY <1>0
      <4>2. QED BY <1>0, <2>6, <4>1
    <3>2. told[j] >= now + 1
      BY <1>0, <2>6, <3>1
    <3>3. (told[j] - now) * Rate = Rate + (told[j] - (now + 1)) * Rate
      BY <1>0, <3>2
    <3> DEFINE rest == (told[j] - (now + 1)) * Rate
    <3>4. rest \in Nat
      BY <1>0, <3>2
    <3>5. Level(j) + (Rate + rest) >= One
      BY <2>6, <3>3
    <3> HIDE DEF rest
    <3>6. Level(j)' + rest >= One
      BY <1>0, <2>3, <2>6, <3>4, <3>5
    <3>7. QED BY <2>1, <3>2, <3>6 DEF Kept, rest
  <2>7. QED BY <1>0, <2>4, <2>5, <2>6, FullIsNat DEF Kept
<1>6. CASE UNCHANGED vars
  BY <1>1, <1>6, OtherBucketLevel DEF vars
<1>7. QED BY <1>2, <1>3, <1>4, <1>5, <1>6 DEF Next

(* A refused user who waits a second more than Retry-After says gets       *)
(* through, whatever else it tried and whatever was evicted meanwhile.     *)
THEOREM RetryHolds == Spec => []RetrySucceeds
<1>1. Init => TypeOK /\ Promised
  <2>1. Init => TypeOK
    BY FullIsNat DEF Init, TypeOK, Times, NoBucket, Buckets
  <2>2. Init => Promised
    BY DEF Init, Promised, Kept
  <2>3. QED BY <2>1, <2>2
<1>2. TypeOK /\ Promised => RetrySucceeds
  <2> SUFFICES ASSUME TypeOK, Promised, NEW k \in Keys, told[k] # 0,
                      now >= told[k]
               PROVE  Level(k) >= One
    BY DEF RetrySucceeds
  <2>1. now \in Nat /\ told[k] \in Nat /\ Level(k) \in Nat /\ Kept(k)
    BY LevelTyped DEF TypeOK, Times, Promised
  <2>2. (now - now) * Rate = 0
    BY <2>1
  <2>3. told[k] >= now => told[k] = now
    BY <2>1
  <2>4. QED BY <2>1, <2>2, <2>3 DEF Kept
<1>3. QED BY <1>1, <1>2, PromiseStep, TypeStep, PTL DEF Spec

(* The limiter is, for each user, a bucket that never forgets.             *)
THEOREM RefinesTokenBucket == Spec => ImplementsTokenBucket
<1>1. Init => TB!BInit
  BY DEF Init, TB!BInit, Level, NoBucket
<1>2. TypeOK /\ [Next]_vars => [TB!BNext]_([k \in Keys |-> Level(k)])
  <2> SUFFICES ASSUME TypeOK, [Next]_vars
               PROVE  [TB!BNext]_([k \in Keys |-> Level(k)])
    OBVIOUS
  <2> DEFINE level == [k \in Keys |-> Level(k)]
  <2>1. ASSUME NEW k \in Keys, Allow(k)
        PROVE  TB!Take(k)
    <3>1. Level(k) >= One /\ Level(k)' = Level(k) - One
          /\ \A j \in Keys \ {k} : Level(j)' = Level(j)
      BY <2>1, AllowLevels
    <3>2. QED BY <3>1 DEF TB!Take
  <2>2. ASSUME \A k \in Keys : Level(k)' = Level(k)
        PROVE  level' = level
    BY <2>2
  <2>3. CASE Tick
    <3>1. \A k \in Keys : Level(k)' = Topped(Level(k) + Rate)
      BY <2>3, TickLevels
    <3>2. TB!Refill
      BY <3>1 DEF TB!Refill, TB!Topped, Topped
    <3>3. QED BY <3>2 DEF TB!BNext
  <2>4. CASE Evict
    BY <2>2, <2>4, EvictLevels
  <2>5. ASSUME NEW k \in Keys, Deny(k)
        PROVE  level' = level
    BY <2>2, <2>5, DenyLevels
  <2>6. CASE UNCHANGED vars
    BY <2>2, <2>6, OtherBucketLevel DEF vars
  <2> HIDE DEF level
  <2>7. QED BY <2>1, <2>3, <2>4, <2>5, <2>6 DEF Next, TB!BNext, level
<1>3. QED BY <1>1, <1>2, TypeCorrect, PTL DEF Spec, ImplementsTokenBucket, TB!BSpec
=============================================================================
