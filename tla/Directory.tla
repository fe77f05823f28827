----------------------------- MODULE Directory -----------------------------
(***************************************************************************)
(* What signing in with Google promises: an account becomes a user once,   *)
(* stays that user, shares it with no other account, and every session it  *)
(* begins is a session of that user.                                       *)
(***************************************************************************)
CONSTANTS Subs, Ids, NoId

VARIABLES
    account,   \* the user an account is, if any
    begun      \* the sessions begun: by which account, of which user

Session(s, i) == [sub |-> s, user |-> i]

DInit ==
    /\ account \in [Subs -> Ids \cup {NoId}]
    /\ \A s, t \in Subs : account[s] = account[t] /\ account[s] # NoId => s = t
    /\ begun = {}

Register(s, i) ==
    /\ account[s] = NoId
    /\ \A t \in Subs : account[t] # i
    /\ account' = [account EXCEPT ![s] = i]
    /\ UNCHANGED begun

Begin(s) ==
    /\ account[s] # NoId
    /\ begun' = begun \cup {Session(s, account[s])}
    /\ UNCHANGED account

DNext == \E s \in Subs : Begin(s) \/ \E i \in Ids : Register(s, i)

DSpec == DInit /\ [][DNext]_<<account, begun>>
=============================================================================
