---------------------------- MODULE SessionChain ----------------------------
(***************************************************************************)
(* What a login session is, with no table, token or request in sight.  A   *)
(* session begins for one user and stays that user's.  From then on it is  *)
(* either live, when its one refresh token can be exchanged, or rotating,  *)
(* when that token has been taken and its successor is not there yet, so   *)
(* nobody can exchange anything.  It may end at any moment, and then it    *)
(* has ended for good: no late answer, lost race or replayed token revives *)
(* it.                                                                     *)
(***************************************************************************)
CONSTANTS Families, Users, NoUser

VARIABLES
    state,   \* [Families -> {"unborn", "rotating", "live", "ended"}]
    holder   \* [Families -> Users \cup {NoUser}]

cvars == <<state, holder>>

CInit ==
    /\ state = [f \in Families |-> "unborn"]
    /\ holder = [f \in Families |-> NoUser]

States == {"unborn", "rotating", "live", "ended"}

Change(f, from, to) == state[f] \in from /\ state'[f] = to
SameHolder(f)       == holder'[f] = holder[f]

Begin(f)  == Change(f, {"unborn"}, "rotating") /\ holder'[f] \in Users
Take(f)   == Change(f, {"live"}, "rotating") /\ SameHolder(f)
Settle(f) == Change(f, {"rotating"}, "live") /\ SameHolder(f)
End(f)    == Change(f, {"live", "rotating"}, "ended") /\ SameHolder(f)
Rest(f)   == state'[f] = state[f] /\ SameHolder(f)

\* Sessions are independent: each moves by these rules, whatever others do.
CNext ==
    /\ state' \in [Families -> States]
    /\ holder' \in [Families -> Users \cup {NoUser}]
    /\ \A f \in Families : Begin(f) \/ Take(f) \/ Settle(f) \/ End(f) \/ Rest(f)

CSpec == CInit /\ [][CNext]_cvars
=============================================================================
