----------------------------- MODULE TokenBucket -----------------------------
(***************************************************************************)
(* What a rate limit promises each of its keys: a bucket that starts full, *)
(* is refilled at a steady rate and never beyond the brim, and gives a     *)
(* token for each request that passes.  Nothing is ever forgotten, no key  *)
(* sees another's requests, and a refusal costs nothing.                   *)
(***************************************************************************)
EXTENDS Integers

CONSTANTS Keys, One, Rate, Full

VARIABLE level    \* [Keys -> 0..Full], in units of which a token has One

BInit == level = [k \in Keys |-> Full]

Topped(n) == IF n <= Full THEN n ELSE Full

Take(k) == level[k] >= One /\ level' = [level EXCEPT ![k] = @ - One]

Refill  == level' = [k \in Keys |-> Topped(level[k] + Rate)]

BNext == Refill \/ \E k \in Keys : Take(k)

BSpec == BInit /\ [][BNext]_level
=============================================================================
