------------------------------ MODULE Sessions ------------------------------
(***************************************************************************)
(* Refresh-token sessions (api/auth_handlers.go, and the end of the Google *)
(* handler): the refresh_tokens table and the concurrent requests that log *)
(* in, rotate and log out.  One step is one SQL statement; a rotation is   *)
(* three of them (claim, purge, insert) and a replay three others (failed  *)
(* claim, lookup, revocation), with no transaction around either, and      *)
(* steps of other requests run in between.                                 *)
(*                                                                         *)
(* Tokens and families are 32 and 16 random bytes: an issued one is new.   *)
(* Tokens are numbered as they are issued.  All live for refreshTokenTTL,  *)
(* so they expire in that order too: those up to `horizon' have expired.   *)
(* Whoever has a token may present it, again and again: a browser's tabs,  *)
(* a retry, a thief.                                                       *)
(*                                                                         *)
(* An operator named Slip<Name> is <Name> as a plausible mistake would     *)
(* have it; no specification uses it, and some property must notice it.    *)
(***************************************************************************)
EXTENDS Integers

CONSTANTS
    Users, NoUser,
    Families, NoFamily,
    Reqs,      \* the auth requests that can be in progress at a time
    MaxToken,  \* bound: refresh tokens issued in a behaviour
    Faults     \* what may fail: "statement", "abandon"

ASSUME SessionsAssumption ==
    /\ NoUser \notin Users /\ NoFamily \notin Families
    /\ MaxToken \in Nat
    /\ Faults \subseteq {"statement", "abandon"}

Tokens == 1..MaxToken

VARIABLES
    row,      \* the refresh_tokens table
    issued,   \* how many tokens have been issued
    horizon,  \* how many of them have expired
    holder,   \* the user each family was made for
    req,      \* the requests in progress
    burnt     \* the families that were revoked for a replay

vars == <<row, issued, horizon, holder, req, burnt>>

Row(s, u, f) == [status |-> s, user |-> u, family |-> f]
NoRow == Row("absent", NoUser, NoFamily)

Begun(p, t, u, f) == [pc |-> p, token |-> t, user |-> u, family |-> f]
IdleReq == Begun("idle", 0, NoUser, NoFamily)

Pcs == {"idle", "claimed", "issuing", "missed", "revoking"}

TokenRow == [status : {"absent", "live", "revoked"},
             user : Users \cup {NoUser}, family : Families \cup {NoFamily}]
Request  == [pc : Pcs, token : 0..MaxToken, user : Users \cup {NoUser},
             family : Families \cup {NoFamily}]

TypeOK ==
    /\ row \in [Tokens -> TokenRow]
    /\ issued \in 0..MaxToken
    /\ horizon \in 0..issued
    /\ holder \in [Families -> Users \cup {NoUser}]
    /\ req \in [Reqs -> Request]
    /\ burnt \subseteq Families \cup {NoFamily}

Init ==
    /\ row = [t \in Tokens |-> NoRow]
    /\ issued = 0
    /\ horizon = 0
    /\ holder = [f \in Families |-> NoUser]
    /\ req = [r \in Reqs |-> IdleReq]
    /\ burnt = {}

At(r, p)  == req[r].pc = p
Return(r) == req' = [req EXCEPT ![r] = IdleReq]

Expired(t) == t <= horizon
NewFamily(f) == holder[f] = NoUser

\* Slip: the claim does not ask whether the token was claimed before.
SlipClaimable(t) == row[t].status \in {"live", "revoked"} /\ ~Expired(t)

\* Slip: the claim does not ask whether the token has expired.
SlipStaleClaimable(t) == row[t].status = "live"

\* where token_hash = $1 and not revoked and expires_at > now()
Claimable(t) == row[t].status = "live" /\ ~Expired(t)

\* set revoked = true
Revoked(w) == Row("revoked", w.user, w.family)

-----------------------------------------------------------------------------
(* Login.                                                                  *)

\* Slip: the family of another session is reused.
SlipLogin(r, u, f) ==
    /\ At(r, "idle")
    /\ holder' = [holder EXCEPT ![f] = u]
    /\ req' = [req EXCEPT ![r] = Begun("issuing", 0, u, f)]
    /\ UNCHANGED <<row, issued, horizon, burnt>>

\* Google has vouched for u: a new family, and on to issueTokens.
Login(r, u, f) ==
    /\ At(r, "idle") /\ NewFamily(f)
    /\ holder' = [holder EXCEPT ![f] = u]
    /\ req' = [req EXCEPT ![r] = Begun("issuing", 0, u, f)]
    /\ UNCHANGED <<row, issued, horizon, burnt>>

-----------------------------------------------------------------------------
(* Refresh.                                                                *)

\* returning user_id, family_id
Claimed(t) == Begun("claimed", 0, row[t].user, row[t].family)

RefreshClaim(r, t) ==
    /\ At(r, "idle")
    /\ Claimable(t)
    /\ row' = [row EXCEPT ![t] = Revoked(@)]
    /\ req' = [req EXCEPT ![r] = Claimed(t)]
    /\ UNCHANGED <<issued, horizon, holder, burnt>>

Missed(t) == Begun("missed", t, NoUser, NoFamily)

\* No row was claimed: unknown, revoked or expired.  A statement that fails is
\* taken for the same, whether or not it took effect in the database.
RefreshMiss(r, t) ==
    /\ At(r, "idle")
    /\ \/ ~Claimable(t) /\ UNCHANGED row
       \/ "statement" \in Faults /\ UNCHANGED row
       \/ /\ "statement" \in Faults /\ Claimable(t)
          /\ row' = [row EXCEPT ![t] = Revoked(@)]
    /\ req' = [req EXCEPT ![r] = Missed(t)]
    /\ UNCHANGED <<issued, horizon, holder, burnt>>

RefreshLookup(r) ==
    /\ At(r, "missed")
    /\ \/ /\ row[req[r].token].status = "revoked"
          /\ req' = [req EXCEPT ![r] = Begun("revoking", req[r].token, NoUser,
                                             row[req[r].token].family)]
       \/ row[req[r].token].status # "revoked" /\ Return(r)
    /\ UNCHANGED <<row, issued, horizon, holder, burnt>>

InFamily(t, f) == row[t].status # "absent" /\ row[t].family = f

\* where family_id = $1
RevokeFamily(r) ==
    /\ At(r, "revoking")
    /\ row' = [t \in Tokens |-> IF InFamily(t, req[r].family)
                                THEN Revoked(row[t])
                                ELSE row[t]]
    /\ burnt' = burnt \cup {req[r].family}
    /\ Return(r)
    /\ UNCHANGED <<issued, horizon, holder>>

Purged(q) == Begun("issuing", q.token, q.user, q.family)

\* purgeExpiredRefreshTokens: best effort, and every user's rows.
Purge(r) ==
    /\ At(r, "claimed")
    /\ row' = [t \in Tokens |-> IF Expired(t) THEN NoRow ELSE row[t]]
    /\ req' = [req EXCEPT ![r] = Purged(@)]
    /\ UNCHANGED <<issued, horizon, holder, burnt>>

\* issueTokens, for a login and for a rotation.
Issue(r) ==
    /\ At(r, "issuing")
    /\ issued < MaxToken
    /\ issued' = issued + 1
    /\ row' = [row EXCEPT ![issued + 1] =
                              Row("live", req[r].user, req[r].family)]
    /\ Return(r)
    /\ UNCHANGED <<horizon, holder, burnt>>

-----------------------------------------------------------------------------
(* Logout, failures, time.                                                 *)

\* Logout deletes the presented token's row, and no other of its family.
Logout(t) ==
    /\ row' = [row EXCEPT ![t] = NoRow]
    /\ UNCHANGED <<issued, horizon, holder, req, burnt>>

\* Errors of the lookup and of the insert end the request, those of the
\* revocation and of the purge are dropped.
StatementFails(r) ==
    /\ "statement" \in Faults
    /\ \/ req[r].pc \in {"missed", "revoking", "issuing"} /\ Return(r)
       \/ At(r, "claimed") /\ req' = [req EXCEPT ![r] = Purged(@)]
    /\ UNCHANGED <<row, issued, horizon, holder, burnt>>

\* The client leaves, which cancels what is left, or the process dies.
Abandon(r) ==
    /\ "abandon" \in Faults
    /\ ~At(r, "idle")
    /\ Return(r)
    /\ UNCHANGED <<row, issued, horizon, holder, burnt>>

\* Slip: the time to live is none, and a token has expired before it is there.
SlipExpire ==
    /\ horizon < MaxToken
    /\ horizon' = horizon + 1
    /\ UNCHANGED <<row, issued, holder, req, burnt>>

\* The oldest token that had not expired does.
Expire ==
    /\ horizon < issued
    /\ horizon' = horizon + 1
    /\ UNCHANGED <<row, issued, holder, req, burnt>>

Serve(r) ==
    \/ RefreshLookup(r) \/ RevokeFamily(r) \/ Purge(r) \/ Issue(r)

Next ==
    \/ \E r \in Reqs, u \in Users, f \in Families : Login(r, u, f)
    \/ \E r \in Reqs, t \in 1..issued : RefreshClaim(r, t) \/ RefreshMiss(r, t)
    \/ \E r \in Reqs : Serve(r) \/ StatementFails(r) \/ Abandon(r)
    \/ \E t \in 1..issued : Logout(t)
    \/ Expire

Spec == Init /\ [][Next]_vars

-----------------------------------------------------------------------------
(* Safety.                                                                 *)

Rotating(f) == {r \in Reqs : req[r].pc \in {"claimed", "issuing"} /\
                             req[r].family = f}
LiveIn(f)   == {t \in Tokens : row[t].status = "live" /\ row[t].family = f}

\* A session never forks: among the tokens that could still be exchanged and
\* the rotations that will issue another, a family has one at most, whatever
\* is presented how often by how many (auth_handlers.go:37, 100).
OneHeirPerFamily ==
    \A f \in Families :
        /\ \A s, t \in LiveIn(f) : s = t
        /\ \A q, r \in Rotating(f) : q = r
        /\ LiveIn(f) = {} \/ Rotating(f) = {}

\* Every token of a family, issued or about to be, is the user's who logged
\* in to it: a rotation hands on the row's user, not the request's.
FamilyKeepsItsUser ==
    /\ \A t \in Tokens : row[t].status # "absent" =>
          /\ row[t].user # NoUser /\ row[t].family \in Families
          /\ row[t].user = holder[row[t].family]
    /\ \A r \in Reqs : req[r].pc \in {"claimed", "issuing"} =>
          /\ req[r].user # NoUser /\ req[r].family \in Families
          /\ req[r].user = holder[req[r].family]

\* The handlers implement the sessions of module SessionChain; above all, a
\* family that has neither a live token nor a rotation never has one again.
StateOf(f) ==
    IF NewFamily(f) THEN "unborn"
    ELSE IF Rotating(f) # {} THEN "rotating"
    ELSE IF \E t \in LiveIn(f) : ~Expired(t) THEN "live"
    ELSE "ended"

Chain == INSTANCE SessionChain WITH state <- [f \in Families |-> StateOf(f)]

ImplementsSessionChain == Chain!CSpec

-----------------------------------------------------------------------------
(* What the code says of itself and does not do.                           *)

\* auth_handlers.go:42: "treat as theft and revoke its whole family".  A
\* family that was revoked for a replay has no token left to exchange.
ReplayEndsFamily == \A f \in burnt : \A t \in LiveIn(f) : Expired(t)
=============================================================================
