---------------------------- MODULE RateLimiter ----------------------------
(***************************************************************************)
(* The per-user limiter in front of Send (api/ratelimit.go): a lazily      *)
(* refilled token bucket per key, and a sweep that forgets the idle ones.  *)
(* Each operation holds the mutex throughout, so it is one step.           *)
(*                                                                         *)
(* Time passes in ticks, of which a second has Second.  Tokens are counted *)
(* in units, One to a token, so that a tick's refill is a whole number of  *)
(* them: Rate.  The limiter's floating point is taken to be exact.         *)
(*                                                                         *)
(* An operator named Slip<Name> is <Name> as a plausible mistake would     *)
(* have it; no specification uses it, and some property must notice it.    *)
(***************************************************************************)
EXTENDS Integers

CONSTANTS
    Keys,      \* the user ids that send
    One,       \* units in a token
    Rate,      \* units that a tick refills
    Burst,     \* chatRateBurst, in tokens
    Second,    \* ticks in a second
    IdleTTL,   \* in ticks
    MaxTime    \* bound: the ticks of a behaviour

Full == Burst * One

ASSUME LimiterAssumption ==
    /\ One \in Nat \ {0} /\ Rate \in Nat \ {0} /\ Burst \in Nat \ {0}
    /\ Second \in Nat \ {0}
    /\ IdleTTL \in Nat /\ MaxTime \in Nat
    \* An empty bucket is full again before it counts as idle: ten minutes,
    \* at 20 tokens a minute, are worth 200 of the 20 it holds.
    /\ IdleTTL * Rate >= Full

Times == 0..MaxTime

VARIABLES
    now,       \* l.now()
    bucket,    \* l.buckets
    passed,    \* history: how many a key got through at or after each time
    told       \* history: when a refused key may count on its retry, or 0

vars == <<now, bucket, passed, told>>

Bucket(n, t) == [kept |-> TRUE, tokens |-> n, last |-> t]
NoBucket     == [kept |-> FALSE, tokens |-> 0, last |-> 0]

Buckets == [kept : BOOLEAN, tokens : 0..Full, last : Times]

TypeOK ==
    /\ now \in Times
    /\ bucket \in [Keys -> Buckets]
    /\ \A k \in Keys : bucket[k].last <= now
    /\ passed \in [Keys -> [Times -> Nat]]
    /\ told \in [Keys -> Nat]

Init ==
    /\ now = 0
    /\ bucket = [k \in Keys |-> NoBucket]
    /\ passed = [k \in Keys |-> [t \in Times |-> 0]]
    /\ told = [k \in Keys |-> 0]

\* Slip: the refill has no brim.
SlipTopped(n) == n

Topped(n) == IF n <= Full THEN n ELSE Full

Refilled(b) == Topped(b.tokens + (now - b.last) * Rate)

\* What allow finds: a missing bucket is made, and made full.
Level(k) == IF bucket[k].kept THEN Refilled(bucket[k]) ELSE Full

Counted(k) == [t \in Times |-> IF t <= now THEN passed[k][t] + 1
                                           ELSE passed[k][t]]

\* Slip: a refill is worked out and not kept.
SlipSpent(k) == Bucket(IF bucket[k].kept THEN bucket[k].tokens - One
                                         ELSE Full - One, now)

Spent(k) == Bucket(Level(k) - One, now)

Allow(k) ==
    /\ Level(k) >= One
    /\ bucket' = [bucket EXCEPT ![k] = Spent(k)]
    /\ passed' = [passed EXCEPT ![k] = Counted(k)]
    /\ told' = [told EXCEPT ![k] = 0]
    /\ UNCHANGED now

\* int(retryAfter.Seconds()), and 1 at the least.
RetryAfter(k) ==
    LET secs == (One - Level(k)) \div (Rate * Second)
    IN  IF secs < 1 THEN 1 ELSE secs

\* Slip: a refusal starts the clock again.
SlipRefused(k) == Bucket(bucket[k].tokens, now)

Refused(k) == Bucket(Level(k), now)

\* The promise is a second more than what the header says, which is rounded
\* down; a key that has one keeps it.
Deny(k) ==
    /\ Level(k) < One
    /\ bucket' = [bucket EXCEPT ![k] = Refused(k)]
    /\ told' = [told EXCEPT
          ![k] = IF @ = 0 THEN now + (RetryAfter(k) + 1) * Second ELSE @]
    /\ UNCHANGED <<now, passed>>

\* Slip: a bucket is idle as soon as a tick has gone by.
SlipIdle(b) == b.last < now

Idle(b) == b.last < now - IdleTTL

Evict ==
    /\ bucket' = [k \in Keys |-> IF Idle(bucket[k]) THEN NoBucket
                                                    ELSE bucket[k]]
    /\ UNCHANGED <<now, passed, told>>

Tick ==
    /\ now < MaxTime
    /\ now' = now + 1
    /\ UNCHANGED <<bucket, passed, told>>

Next ==
    \/ \E k \in Keys : Allow(k) \/ Deny(k)
    \/ Evict
    \/ Tick

Spec == Init /\ [][Next]_vars

-----------------------------------------------------------------------------
(* Safety.                                                                 *)

\* In any stretch of time a user gets through no more than the burst and what
\* is refilled meanwhile, though buckets are refilled lazily and forgotten
\* (ratelimit.go:55, 80).
RateBounded ==
    \A k \in Keys : \A t \in 0..now :
        passed[k][t] * One <= Full + (now - t) * Rate

\* A client refused once and then, for a second more than Retry-After, not
\* let through, is let through when it asks: neither its own impatience nor
\* the sweep puts the moment off (ratelimit.go:62, 92).
RetrySucceeds ==
    \A k \in Keys : told[k] # 0 /\ now >= told[k] => Level(k) >= One

\* The limiter implements a bucket per key that is never forgotten: evicting
\* one is invisible.
TB == INSTANCE TokenBucket WITH level <- [k \in Keys |-> Level(k)]

ImplementsTokenBucket == TB!BSpec
=============================================================================
