--------------------------- MODULE SessionsProofs ---------------------------
(* Theorems about Sessions, for every value of its constants.              *)
EXTENDS Sessions, TLAPS

(***************************************************************************)
(* Types.  A request that missed its claim looks up the token it was       *)
(* given, so TypeOK needs that one more fact to be inductive.              *)
(***************************************************************************)
Presented == \A r \in Reqs : At(r, "missed") => req[r].token \in Tokens

TypeInv == TypeOK /\ Presented

LEMMA InitTyped == Init => TypeInv
BY SessionsAssumption
DEF SessionsAssumption, Init, TypeInv, TypeOK, Presented, At, IdleReq, Begun,
    NoRow, Row, TokenRow, Request, Pcs, Tokens

\* A request's new record is all there is to check of a step on it.
LEMMA RequestStep ==
    ASSUME TypeInv, NEW r \in Reqs, NEW q \in Request,
           q.pc = "missed" => q.token \in Tokens,
           req' = [req EXCEPT ![r] = q]
    PROVE  req' \in [Reqs -> Request] /\ Presented'
BY DEF TypeInv, TypeOK, Presented, At

LEMMA BegunTyped ==
    ASSUME NEW p \in Pcs, NEW t \in 0..MaxToken, NEW u \in Users \cup {NoUser},
           NEW f \in Families \cup {NoFamily}
    PROVE  /\ Begun(p, t, u, f) \in Request
           /\ Begun(p, t, u, f).pc = p /\ Begun(p, t, u, f).token = t
           /\ Begun(p, t, u, f).user = u /\ Begun(p, t, u, f).family = f
BY DEF Begun, Request

LEMMA IdleTyped == IdleReq \in Request /\ IdleReq.pc = "idle"
BY BegunTyped, SessionsAssumption DEF IdleReq, Pcs, SessionsAssumption

LEMMA ReturnTyped ==
    ASSUME TypeInv, NEW r \in Reqs, Return(r)
    PROVE  req' \in [Reqs -> Request] /\ Presented'
BY IdleTyped, RequestStep DEF Return

LEMMA RowTyped ==
    ASSUME NEW s \in {"absent", "live", "revoked"},
           NEW u \in Users \cup {NoUser}, NEW f \in Families \cup {NoFamily}
    PROVE  /\ Row(s, u, f) \in TokenRow
           /\ Row(s, u, f).status = s /\ Row(s, u, f).user = u
           /\ Row(s, u, f).family = f
BY DEF Row, TokenRow

LEMMA RevokedTyped ==
    ASSUME NEW w \in TokenRow
    PROVE  /\ Revoked(w) \in TokenRow /\ Revoked(w).status = "revoked"
           /\ Revoked(w).user = w.user /\ Revoked(w).family = w.family
<1>1. w.user \in Users \cup {NoUser} /\ w.family \in Families \cup {NoFamily}
  BY DEF TokenRow
<1>2. QED BY <1>1, RowTyped DEF Revoked

LEMMA NextTyped == TypeInv /\ [Next]_vars => TypeInv'
<1> SUFFICES ASSUME TypeInv, [Next]_vars PROVE TypeInv'
  OBVIOUS
<1> USE SessionsAssumption DEF SessionsAssumption
<1>0. /\ row \in [Tokens -> TokenRow] /\ req \in [Reqs -> Request]
      /\ issued \in 0..MaxToken /\ horizon \in 0..issued
      /\ Tokens = 1..MaxToken
  BY DEF TypeInv, TypeOK, Tokens
<1>1. ASSUME NEW r \in Reqs, NEW u \in Users, NEW f \in Families,
             Login(r, u, f)
      PROVE  TypeInv'
  <2>1. req' \in [Reqs -> Request] /\ Presented'
    <3>1. /\ Begun("issuing", 0, u, f) \in Request
          /\ Begun("issuing", 0, u, f).pc # "missed"
      BY BegunTyped DEF Pcs
    <3>2. QED BY <1>1, <3>1, RequestStep DEF Login
  <2>2. QED BY <1>1, <2>1 DEF Login, TypeInv, TypeOK
<1>2. ASSUME NEW r \in Reqs, NEW t \in 1..issued, RefreshClaim(r, t)
      PROVE  TypeInv'
  <2>1. t \in Tokens /\ row[t] \in TokenRow
    BY <1>0
  <2>2. /\ row[t].user \in Users \cup {NoUser}
        /\ row[t].family \in Families \cup {NoFamily}
    BY <2>1 DEF TokenRow
  <2>3. req' \in [Reqs -> Request] /\ Presented'
    <3>1. Claimed(t) \in Request /\ Claimed(t).pc # "missed"
      BY <2>2, BegunTyped DEF Claimed, Pcs
    <3>2. QED BY <1>2, <3>1, RequestStep DEF RefreshClaim
  <2>4. row' \in [Tokens -> TokenRow]
    BY <1>0, <1>2, <2>1, RevokedTyped DEF RefreshClaim
  <2>5. QED BY <1>2, <2>3, <2>4 DEF RefreshClaim, TypeInv, TypeOK
<1>3. ASSUME NEW r \in Reqs, NEW t \in 1..issued, RefreshMiss(r, t)
      PROVE  TypeInv'
  <2>1. t \in Tokens /\ t \in 0..MaxToken /\ row[t] \in TokenRow
    BY <1>0
  <2>2. req' \in [Reqs -> Request] /\ Presented'
    <3>1. Missed(t) \in Request /\ Missed(t).token = t
      BY <2>1, BegunTyped DEF Missed, Pcs
    <3>2. QED BY <1>3, <2>1, <3>1, RequestStep DEF RefreshMiss
  <2>3. row' \in [Tokens -> TokenRow]
    BY <1>0, <1>3, <2>1, RevokedTyped DEF RefreshMiss
  <2>4. QED BY <1>3, <2>2, <2>3 DEF RefreshMiss, TypeInv, TypeOK
<1>4. ASSUME NEW r \in Reqs, RefreshLookup(r)
      PROVE  TypeInv'
  <2>1. req[r].token \in Tokens /\ req[r].token \in 0..MaxToken
    BY <1>0, <1>4 DEF RefreshLookup, TypeInv, Presented
  <2>2. row[req[r].token].family \in Families \cup {NoFamily}
    BY <1>0, <2>1 DEF TokenRow
  <2>3. req' \in [Reqs -> Request] /\ Presented'
    BY <1>4, <2>1, <2>2, BegunTyped, RequestStep, ReturnTyped
    DEF RefreshLookup, Pcs
  <2>4. QED BY <1>4, <2>3 DEF RefreshLookup, TypeInv, TypeOK
<1>5. ASSUME NEW r \in Reqs, RevokeFamily(r)
      PROVE  TypeInv'
  <2>1. row' \in [Tokens -> TokenRow]
    BY <1>0, <1>5, RevokedTyped DEF RevokeFamily
  <2>2. burnt' \subseteq Families \cup {NoFamily}
    BY <1>0, <1>5 DEF RevokeFamily, TypeInv, TypeOK, Request
  <2>3. QED
    BY <1>5, <2>1, <2>2, ReturnTyped DEF RevokeFamily, TypeInv, TypeOK
<1>6. ASSUME NEW r \in Reqs, Purge(r) \/ StatementFails(r)
      PROVE  TypeInv'
  <2>1. req' \in [Reqs -> Request] /\ Presented'
    <3>1. Purged(req[r]) \in Request /\ Purged(req[r]).pc = "issuing"
      BY <1>0, BegunTyped DEF Purged, Request, Pcs
    <3>2. QED
      BY <1>6, <3>1, RequestStep, ReturnTyped DEF Purge, StatementFails
  <2>2. row' \in [Tokens -> TokenRow]
    BY <1>0, <1>6, RowTyped DEF Purge, StatementFails, NoRow
  <2>3. QED BY <1>6, <2>1, <2>2 DEF Purge, StatementFails, TypeInv, TypeOK
<1>7. ASSUME NEW r \in Reqs, Issue(r)
      PROVE  TypeInv'
  <2>1. Row("live", req[r].user, req[r].family) \in TokenRow
    BY <1>0, RowTyped DEF Request
  <2>2. row' \in [Tokens -> TokenRow]
    BY <1>0, <1>7, <2>1 DEF Issue
  <2>3. issued' \in 0..MaxToken /\ horizon' \in 0..issued'
    BY <1>0, <1>7 DEF Issue
  <2>4. QED BY <1>7, <2>2, <2>3, ReturnTyped DEF Issue, TypeInv, TypeOK
<1>8. ASSUME NEW r \in Reqs, Abandon(r)
      PROVE  TypeInv'
  BY <1>8, ReturnTyped DEF Abandon, TypeInv, TypeOK
<1>9. ASSUME NEW t \in 1..issued, Logout(t)
      PROVE  TypeInv'
  <2>1. row' \in [Tokens -> TokenRow]
    BY <1>0, <1>9, RowTyped DEF Logout, NoRow
  <2>2. QED BY <1>9, <2>1 DEF Logout, TypeInv, TypeOK, Presented, At
<1>10. CASE Expire
  BY <1>0, <1>10 DEF Expire, TypeInv, TypeOK, Presented, At
<1>11. CASE UNCHANGED vars
  BY <1>11 DEF vars, TypeInv, TypeOK, Presented, At
<1>12. QED
  BY <1>1, <1>2, <1>3, <1>4, <1>5, <1>6, <1>7, <1>8, <1>9, <1>10, <1>11
  DEF Next, Serve

LEMMA Typed == Spec => []TypeInv
BY InitTyped, NextTyped, PTL DEF Spec

(* Every token row and every request always has its type.                  *)
THEOREM TypeCorrect == Spec => []TypeOK
<1>1. TypeInv => TypeOK
  BY DEF TypeInv
<1>2. QED BY <1>1, Typed, PTL

(***************************************************************************)
(* One heir.  That a family has one live token or one rotation at most     *)
(* needs, to be inductive, that a family nobody has logged in to has none. *)
(***************************************************************************)
NothingBeforeLogin ==
    \A f \in Families : NewFamily(f) => LiveIn(f) = {} /\ Rotating(f) = {}

HeirInv == OneHeirPerFamily /\ NothingBeforeLogin

\* The four things a step can do to a family's heirs.
Keeps(f)  == /\ LiveIn(f)' \subseteq LiveIn(f)
             /\ Rotating(f)' \subseteq Rotating(f)
             /\ holder'[f] = holder[f]
Begins(f) == /\ NewFamily(f)
             /\ holder'[f] \in Users
             /\ LiveIn(f)' \subseteq LiveIn(f)
             /\ \E r \in Reqs : r \in Rotating(f)'
                                /\ Rotating(f)' \subseteq Rotating(f) \cup {r}
Claims(f) == /\ \E t \in LiveIn(f) : LiveIn(f)' \subseteq LiveIn(f) \ {t}
                                     /\ ~Expired(t)
             /\ \E r \in Reqs : r \in Rotating(f)'
                                /\ Rotating(f)' \subseteq Rotating(f) \cup {r}
             /\ UNCHANGED holder
Issues(f) == /\ \E t \in Tokens : LiveIn(f)' \subseteq LiveIn(f) \cup {t}
             /\ \E r \in Rotating(f) : Rotating(f)' \subseteq Rotating(f) \ {r}
             /\ UNCHANGED holder

LEMMA HeirSteps ==
    ASSUME TypeInv, [Next]_vars, NEW f \in Families
    PROVE  Keeps(f) \/ Begins(f) \/ Claims(f) \/ Issues(f)
<1>0. /\ row \in [Tokens -> TokenRow] /\ req \in [Reqs -> Request]
      /\ holder \in [Families -> Users \cup {NoUser}]
      /\ Tokens = 1..MaxToken /\ 1..issued \subseteq Tokens
      /\ NoUser \notin Users /\ NoFamily \notin Families
  BY SessionsAssumption DEF TypeInv, TypeOK, Tokens, SessionsAssumption
<1>1. ASSUME NEW r \in Reqs, NEW u \in Users, NEW g \in Families,
             Login(r, u, g)
      PROVE  Keeps(f) \/ Begins(f)
  <2>1. /\ LiveIn(f)' = LiveIn(f)
        /\ \A q \in Reqs \ {r} : req'[q] = req[q]
        /\ req'[r].pc = "issuing" /\ req'[r].family = g
    BY <1>0, <1>1 DEF Login, LiveIn, Begun
  <2>2. CASE f = g
    <3>1. r \in Rotating(f)' /\ Rotating(f)' \subseteq Rotating(f) \cup {r}
      BY <2>1, <2>2 DEF Rotating
    <3>2. NewFamily(f) /\ holder'[f] \in Users
      BY <1>0, <1>1, <2>2 DEF Login
    <3>3. QED BY <2>1, <3>1, <3>2 DEF Begins
  <2>3. CASE f # g
    <3>1. Rotating(f)' \subseteq Rotating(f) /\ holder'[f] = holder[f]
      BY <1>0, <1>1, <2>1, <2>3 DEF Login, Rotating
    <3>2. QED BY <2>1, <3>1 DEF Keeps
  <2>4. QED BY <2>2, <2>3
<1>2. ASSUME NEW r \in Reqs, NEW t \in 1..issued, RefreshClaim(r, t)
      PROVE  Keeps(f) \/ Claims(f)
  <2>1. /\ t \in Tokens /\ row[t].status = "live" /\ ~Expired(t)
        /\ row'[t].status = "revoked"
        /\ \A s \in Tokens \ {t} : row'[s] = row[s]
        /\ \A q \in Reqs \ {r} : req'[q] = req[q]
        /\ req'[r].pc = "claimed" /\ req'[r].family = row[t].family
        /\ UNCHANGED holder
    BY <1>0, <1>2
    DEF RefreshClaim, Claimable, Revoked, Row, Claimed, Begun
  <2>2. LiveIn(f)' \subseteq LiveIn(f) \ {t}
    BY <2>1 DEF LiveIn
  <2>3. CASE row[t].family = f
    <3>1. t \in LiveIn(f)
      BY <2>1, <2>3 DEF LiveIn
    <3>2. r \in Rotating(f)' /\ Rotating(f)' \subseteq Rotating(f) \cup {r}
      BY <2>1, <2>3 DEF Rotating
    <3>3. QED BY <2>1, <2>2, <3>1, <3>2 DEF Claims
  <2>4. CASE row[t].family # f
    BY <2>1, <2>2, <2>4 DEF Rotating, Keeps
  <2>5. QED BY <2>3, <2>4
<1>3. ASSUME NEW r \in Reqs, NEW t \in 1..issued, RefreshMiss(r, t)
      PROVE  Keeps(f)
  <2>1. /\ \A q \in Reqs \ {r} : req'[q] = req[q]
        /\ req'[r].pc = "missed" /\ UNCHANGED holder
    BY <1>0, <1>3 DEF RefreshMiss, Missed, Begun
  <2>2. row' = row \/ row' = [row EXCEPT ![t] = Revoked(row[t])]
    BY <1>3 DEF RefreshMiss
  <2>3. \A s \in Tokens : row'[s] = row[s] \/ row'[s].status = "revoked"
    <3>1. t \in Tokens /\ Revoked(row[t]).status = "revoked"
      BY <1>0 DEF Revoked, Row
    <3>2. QED BY <1>0, <2>2, <3>1
  <2>4. QED BY <2>1, <2>3 DEF Keeps, LiveIn, Rotating
<1>4. ASSUME NEW r \in Reqs, RefreshLookup(r)
      PROVE  Keeps(f)
  <2>1. /\ \A q \in Reqs \ {r} : req'[q] = req[q]
        /\ req'[r].pc \in {"idle", "revoking"} /\ UNCHANGED <<row, holder>>
    BY <1>0, <1>4 DEF RefreshLookup, Return, IdleReq, Begun
  <2>2. QED BY <2>1 DEF Keeps, LiveIn, Rotating
<1>5. ASSUME NEW r \in Reqs, RevokeFamily(r)
      PROVE  Keeps(f)
  <2>1. /\ \A q \in Reqs \ {r} : req'[q] = req[q]
        /\ req'[r].pc = "idle" /\ UNCHANGED holder
        /\ \A s \in Tokens : row'[s] = row[s] \/ row'[s].status = "revoked"
    BY <1>0, <1>5 DEF RevokeFamily, Return, IdleReq, Begun, Revoked, Row
  <2>2. QED BY <2>1 DEF Keeps, LiveIn, Rotating
<1>6. ASSUME NEW r \in Reqs, Purge(r) \/ StatementFails(r) \/ Abandon(r)
      PROVE  Keeps(f)
  <2>1. /\ \A q \in Reqs \ {r} : req'[q] = req[q]
        /\ UNCHANGED holder
        /\ \A s \in Tokens : row'[s] = row[s] \/ row'[s].status = "absent"
    <3>1. CASE Purge(r)
      BY <1>0, <3>1 DEF Purge, NoRow, Row
    <3>2. CASE StatementFails(r)
      BY <1>0, <3>2 DEF StatementFails, Return
    <3>3. CASE Abandon(r)
      BY <1>0, <3>3 DEF Abandon, Return
    <3>4. QED BY <1>6, <3>1, <3>2, <3>3
  <2>2. \/ req'[r].pc = "idle"
        \/ req[r].pc = "claimed" /\ req'[r].family = req[r].family
    <3>1. CASE Return(r)
      BY <1>0, <3>1 DEF Return, IdleReq, Begun
    <3>2. CASE At(r, "claimed") /\ req' = [req EXCEPT ![r] = Purged(req[r])]
      BY <1>0, <3>2 DEF Begun, Purged, At
    <3>3. QED BY <1>6, <3>1, <3>2 DEF Purge, StatementFails, Abandon
  <2>3. QED BY <2>1, <2>2 DEF Keeps, LiveIn, Rotating
<1>7. ASSUME NEW r \in Reqs, Issue(r)
      PROVE  Keeps(f) \/ Issues(f)
  <2> DEFINE t == issued + 1
  <2>1. /\ t \in Tokens /\ UNCHANGED holder /\ At(r, "issuing")
        /\ \A q \in Reqs \ {r} : req'[q] = req[q]
        /\ req'[r].pc = "idle"
        /\ \A s \in Tokens \ {t} : row'[s] = row[s]
        /\ row'[t].family = req[r].family
    <3>1. t \in Tokens
      <4>1. issued \in 0..MaxToken /\ issued < MaxToken /\ MaxToken \in Nat
        BY <1>7, SessionsAssumption
        DEF Issue, TypeInv, TypeOK, SessionsAssumption
      <4>2. QED BY <1>0, <4>1
    <3>2. /\ \A q \in Reqs \ {r} : req'[q] = req[q]
          /\ req'[r].pc = "idle"
      BY <1>0, <1>7 DEF Issue, Return, IdleReq, Begun
    <3>3. row' = [row EXCEPT ![t] = Row("live", req[r].user, req[r].family)]
      BY <1>7 DEF Issue
    <3>4. QED BY <1>0, <1>7, <3>1, <3>2, <3>3 DEF Issue, Row
  <2> HIDE DEF t
  <2>2. Rotating(f)' \subseteq Rotating(f) \ {r}
    BY <2>1 DEF Rotating
  <2>3. CASE req[r].family = f
    <3>1. r \in Rotating(f)
      BY <2>1, <2>3 DEF Rotating, At
    <3>2. LiveIn(f)' \subseteq LiveIn(f) \cup {t}
      BY <2>1 DEF LiveIn
    <3>3. QED BY <2>1, <2>2, <3>1, <3>2 DEF Issues
  <2>4. CASE req[r].family # f
    BY <2>1, <2>2, <2>4 DEF Keeps, LiveIn
  <2>5. QED BY <2>3, <2>4
<1>8. ASSUME NEW t \in 1..issued, Logout(t)
      PROVE  Keeps(f)
  <2>1. /\ UNCHANGED <<req, holder>>
        /\ \A s \in Tokens : row'[s] = row[s] \/ row'[s].status = "absent"
    BY <1>0, <1>8 DEF Logout, NoRow, Row
  <2>2. QED BY <2>1 DEF Keeps, LiveIn, Rotating
<1>9. CASE Expire \/ UNCHANGED vars
  BY <1>9 DEF Expire, vars, Keeps, LiveIn, Rotating
<1>10. QED
  BY <1>1, <1>2, <1>3, <1>4, <1>5, <1>6, <1>7, <1>8, <1>9 DEF Next, Serve

LEMMA HeirStep == TypeInv /\ HeirInv /\ [Next]_vars => HeirInv'
<1> SUFFICES ASSUME TypeInv, HeirInv, [Next]_vars, NEW f \in Families
             PROVE  /\ \A s, t \in LiveIn(f)' : s = t
                    /\ \A q, r \in Rotating(f)' : q = r
                    /\ LiveIn(f)' = {} \/ Rotating(f)' = {}
                    /\ NewFamily(f)' => LiveIn(f)' = {} /\ Rotating(f)' = {}
  BY DEF HeirInv, OneHeirPerFamily, NothingBeforeLogin
<1>1. /\ \A s, t \in LiveIn(f) : s = t
      /\ \A q, r \in Rotating(f) : q = r
      /\ LiveIn(f) = {} \/ Rotating(f) = {}
      /\ holder[f] = NoUser => LiveIn(f) = {} /\ Rotating(f) = {}
  BY DEF HeirInv, OneHeirPerFamily, NothingBeforeLogin, NewFamily
<1>2. CASE Keeps(f)
  BY <1>1, <1>2 DEF Keeps, NewFamily
<1>3. CASE Begins(f)
  BY <1>1, <1>3, SessionsAssumption DEF Begins, NewFamily, SessionsAssumption
<1>4. CASE Claims(f)
  BY <1>1, <1>4 DEF Claims, NewFamily
<1>5. CASE Issues(f)
  BY <1>1, <1>5 DEF Issues, NewFamily
<1>6. QED BY <1>2, <1>3, <1>4, <1>5, HeirSteps

LEMMA Heirs == Spec => []HeirInv
<1>1. Init => HeirInv
  BY DEF Init, HeirInv, OneHeirPerFamily, NothingBeforeLogin, LiveIn, Rotating,
     NoRow, Row, IdleReq, Begun
<1>2. QED BY <1>1, HeirStep, Typed, PTL DEF Spec

(* A session never forks: a token presented many times, by many, is        *)
(* exchanged once, and a family has one live successor at most.            *)
THEOREM NoFork == Spec => []OneHeirPerFamily
<1>1. HeirInv => OneHeirPerFamily
  BY DEF HeirInv
<1>2. QED BY <1>1, Heirs, PTL

(***************************************************************************)
(* Refinement.  Each family moves as SessionChain lets it, because each of *)
(* the four things a step can do to its heirs is one of the chain's moves. *)
(***************************************************************************)
LEMMA StateCases ==
    \A f \in Families :
        /\ StateOf(f) = "unborn" <=> NewFamily(f)
        /\ StateOf(f) = "rotating" <=> ~NewFamily(f) /\ Rotating(f) # {}
        /\ StateOf(f) = "live" <=>
              /\ ~NewFamily(f) /\ Rotating(f) = {}
              /\ \E t \in LiveIn(f) : ~Expired(t)
        /\ StateOf(f) \in {"unborn", "rotating", "live", "ended"}
BY DEF StateOf

LEMMA TimePasses ==
    ASSUME TypeInv, [Next]_vars, NEW t \in Tokens, Expired(t)
    PROVE  Expired(t)'
<1>1. t \in Int /\ horizon \in Int
  BY DEF TypeInv, TypeOK, Tokens
<1>2. horizon' = horizon \/ horizon' = horizon + 1
  BY DEF Next, vars, Login, RefreshClaim, RefreshMiss, Serve, RefreshLookup,
     RevokeFamily, Purge, Issue, StatementFails, Abandon, Logout, Expire
<1>3. QED BY <1>1, <1>2 DEF Expired

LEMMA ChainMove ==
    ASSUME TypeInv, HeirInv, [Next]_vars, NEW f \in Families
    PROVE  \/ /\ StateOf(f) = "unborn" /\ StateOf(f)' = "rotating"
              /\ holder'[f] \in Users
           \/ /\ StateOf(f) = "live" /\ StateOf(f)' = "rotating"
              /\ holder'[f] = holder[f]
           \/ /\ StateOf(f) = "rotating" /\ StateOf(f)' = "live"
              /\ holder'[f] = holder[f]
           \/ /\ StateOf(f) \in {"live", "rotating"} /\ StateOf(f)' = "ended"
              /\ holder'[f] = holder[f]
           \/ /\ StateOf(f)' = StateOf(f)
              /\ holder'[f] = holder[f]
<1>0. /\ \A s, t \in LiveIn(f) : s = t
      /\ \A q, r \in Rotating(f) : q = r
      /\ LiveIn(f) = {} \/ Rotating(f) = {}
      /\ NewFamily(f) => LiveIn(f) = {} /\ Rotating(f) = {}
      /\ NoUser \notin Users /\ LiveIn(f) \subseteq Tokens
  BY SessionsAssumption
  DEF HeirInv, OneHeirPerFamily, NothingBeforeLogin, SessionsAssumption, LiveIn
<1>1. /\ StateOf(f) = "unborn" <=> NewFamily(f)
      /\ StateOf(f) = "rotating" <=> ~NewFamily(f) /\ Rotating(f) # {}
      /\ StateOf(f) = "live" <=>
            /\ ~NewFamily(f) /\ Rotating(f) = {}
            /\ \E t \in LiveIn(f) : ~Expired(t)
      /\ StateOf(f) \in {"unborn", "rotating", "live", "ended"}
  BY StateCases
<1>2. /\ StateOf(f)' = "unborn" <=> NewFamily(f)'
      /\ StateOf(f)' = "rotating" <=> ~NewFamily(f)' /\ Rotating(f)' # {}
      /\ StateOf(f)' = "live" <=>
            /\ ~NewFamily(f)' /\ Rotating(f)' = {}
            /\ \E t \in LiveIn(f)' : ~Expired(t)'
      /\ StateOf(f)' \in {"unborn", "rotating", "live", "ended"}
  BY DEF StateOf
<1>3. \A t \in LiveIn(f) : Expired(t) => Expired(t)'
  BY <1>0, TimePasses
<1>4. CASE Keeps(f)
  <2>1. /\ LiveIn(f)' \subseteq LiveIn(f) /\ Rotating(f)' \subseteq Rotating(f)
        /\ holder'[f] = holder[f] /\ NewFamily(f)' = NewFamily(f)
    BY <1>4 DEF Keeps, NewFamily
  <2>2. CASE StateOf(f) = "unborn"
    BY <1>1, <1>2, <2>1, <2>2
  <2>3. CASE StateOf(f) = "rotating"
    <3>1. LiveIn(f)' = {}
      BY <1>0, <1>1, <2>1, <2>3
    <3>2. StateOf(f)' \in {"rotating", "ended"}
      BY <1>1, <1>2, <2>1, <2>3, <3>1
    <3>3. QED BY <2>1, <2>3, <3>2
  <2>4. CASE StateOf(f) = "live"
    <3>1. StateOf(f)' \in {"live", "ended"}
      BY <1>1, <1>2, <2>1, <2>4
    <3>2. QED BY <2>1, <2>4, <3>1
  <2>5. CASE StateOf(f) = "ended"
    <3>1. \A t \in LiveIn(f)' : Expired(t)'
      BY <1>1, <1>3, <2>1, <2>5
    <3>2. StateOf(f)' = "ended"
      BY <1>1, <1>2, <2>1, <2>5, <3>1
    <3>3. QED BY <2>1, <2>5, <3>2
  <2>6. QED BY <1>1, <2>2, <2>3, <2>4, <2>5
<1>5. CASE Begins(f)
  BY <1>0, <1>1, <1>2, <1>5 DEF Begins, NewFamily
<1>6. CASE Claims(f)
  <2>1. StateOf(f) = "live"
    BY <1>0, <1>1, <1>6 DEF Claims
  <2>2. StateOf(f)' = "rotating" /\ holder'[f] = holder[f]
    BY <1>0, <1>1, <1>2, <1>6 DEF Claims, NewFamily
  <2>3. QED BY <2>1, <2>2
<1>7. CASE Issues(f)
  <2>1. StateOf(f) = "rotating"
    BY <1>0, <1>1, <1>7 DEF Issues
  <2>2. StateOf(f)' \in {"live", "ended"} /\ holder'[f] = holder[f]
    BY <1>0, <1>1, <1>2, <1>7 DEF Issues, NewFamily
  <2>3. QED BY <2>1, <2>2
<1>8. QED BY <1>4, <1>5, <1>6, <1>7, HeirSteps

(* Every login session behaves as SessionChain says: above all, one that   *)
(* has ended, by logout, replay, expiry, a failure or a lost race, is never *)
(* live again.                                                             *)
THEOREM RefinesSessionChain == Spec => ImplementsSessionChain
<1>1. Init => Chain!CInit
  BY DEF Init, Chain!CInit, StateOf, NewFamily
<1>2. TypeInv /\ HeirInv /\ [Next]_vars => [Chain!CNext]_Chain!cvars
  <2> SUFFICES ASSUME TypeInv, HeirInv, [Next]_vars PROVE Chain!CNext
    OBVIOUS
  <2>1. [f \in Families |-> StateOf(f)'] \in [Families -> Chain!States]
    BY DEF StateOf, Chain!States
  <2>2. holder' \in [Families -> Users \cup {NoUser}]
    BY NextTyped DEF TypeInv, TypeOK
  <2>3. QED
    BY <2>1, <2>2, ChainMove
    DEF Chain!CNext, Chain!Begin, Chain!Take, Chain!Settle, Chain!End,
        Chain!Rest, Chain!Change, Chain!SameHolder
<1>3. QED
  BY <1>1, <1>2, Typed, Heirs, PTL DEF Spec, ImplementsSessionChain, Chain!CSpec

(***************************************************************************)
(* One user.  The rows and the rotations of a family name the user it was  *)
(* made for; a family is made once, before it has any.                     *)
(***************************************************************************)
GoodRow(w) == w.status # "absent" =>
                 /\ w.user # NoUser /\ w.family \in Families
                 /\ w.user = holder[w.family]
GoodReq(q) == q.pc \in {"claimed", "issuing"} =>
                 /\ q.user # NoUser /\ q.family \in Families
                 /\ q.user = holder[q.family]

LEMMA FamilyStep ==
    TypeInv /\ FamilyKeepsItsUser /\ [Next]_vars => FamilyKeepsItsUser'
<1> SUFFICES ASSUME TypeInv, FamilyKeepsItsUser, [Next]_vars
             PROVE  FamilyKeepsItsUser'
  OBVIOUS
<1>0. /\ row \in [Tokens -> TokenRow] /\ req \in [Reqs -> Request]
      /\ holder \in [Families -> Users \cup {NoUser}]
      /\ 1..issued \subseteq Tokens /\ NoUser \notin Users
      /\ \A t \in Tokens : GoodRow(row[t])
      /\ \A r \in Reqs : GoodReq(req[r])
  BY SessionsAssumption
  DEF TypeInv, TypeOK, Tokens, SessionsAssumption, FamilyKeepsItsUser, GoodRow,
      GoodReq
<1>1. ASSUME NEW r \in Reqs, NEW u \in Users, NEW f \in Families,
             Login(r, u, f)
      PROVE  FamilyKeepsItsUser'
  <2>1. /\ holder[f] = NoUser /\ holder'[f] = u /\ UNCHANGED row
        /\ \A g \in Families \ {f} : holder'[g] = holder[g]
        /\ \A q \in Reqs \ {r} : req'[q] = req[q]
        /\ req'[r].user = u /\ req'[r].family = f
    BY <1>0, <1>1 DEF Login, NewFamily, Begun
  <2>2. QED BY <1>0, <2>1 DEF FamilyKeepsItsUser, GoodRow, GoodReq
<1>2. ASSUME UNCHANGED holder,
             \A t \in Tokens : GoodRow(row'[t]),
             \A r \in Reqs : GoodReq(req'[r])
      PROVE  FamilyKeepsItsUser'
  BY <1>2 DEF FamilyKeepsItsUser, GoodRow, GoodReq
<1>3. ASSUME NEW r \in Reqs, NEW q, GoodReq(q),
             req' = [req EXCEPT ![r] = q]
      PROVE  \A p \in Reqs : GoodReq(req'[p])
  BY <1>0, <1>3
<1>4. ASSUME NEW r \in Reqs, Return(r)
      PROVE  \A p \in Reqs : GoodReq(req'[p])
  BY <1>3, <1>4 DEF Return, IdleReq, Begun, GoodReq
<1>5. \A t \in Tokens : GoodRow(Revoked(row[t])) \/ row[t].status = "absent"
  BY <1>0 DEF GoodRow, Revoked, Row
<1>6. GoodRow(NoRow)
  BY DEF GoodRow, NoRow, Row
<1>7. ASSUME NEW r \in Reqs, NEW t \in 1..issued, RefreshClaim(r, t)
      PROVE  FamilyKeepsItsUser'
  <2>1. t \in Tokens /\ row[t].status = "live"
    BY <1>0, <1>7 DEF RefreshClaim, Claimable
  <2>2. GoodReq(Claimed(t))
    BY <1>0, <2>1 DEF Claimed, Begun, GoodReq, GoodRow
  <2>3. \A p \in Reqs : GoodReq(req'[p])
    BY <1>3, <1>7, <2>2 DEF RefreshClaim
  <2>4. \A s \in Tokens : GoodRow(row'[s])
    BY <1>0, <1>5, <1>7, <2>1 DEF RefreshClaim
  <2>5. QED BY <1>2, <1>7, <2>3, <2>4 DEF RefreshClaim
<1>8. ASSUME NEW r \in Reqs, NEW t \in 1..issued, RefreshMiss(r, t)
      PROVE  FamilyKeepsItsUser'
  <2>1. GoodReq(Missed(t))
    BY DEF Missed, Begun, GoodReq
  <2>2. \A p \in Reqs : GoodReq(req'[p])
    BY <1>3, <1>8, <2>1 DEF RefreshMiss
  <2>3. \A s \in Tokens : GoodRow(row'[s])
    <3>1. CASE row' = row
      BY <1>0, <3>1
    <3>2. CASE row' = [row EXCEPT ![t] = Revoked(row[t])] /\ Claimable(t)
      BY <1>0, <1>5, <3>2 DEF Claimable
    <3>3. QED BY <1>8, <3>1, <3>2 DEF RefreshMiss
  <2>4. QED BY <1>2, <1>8, <2>2, <2>3 DEF RefreshMiss
<1>9. ASSUME NEW r \in Reqs, RefreshLookup(r)
      PROVE  FamilyKeepsItsUser'
  <2>1. \A f : GoodReq(Begun("revoking", req[r].token, NoUser, f))
    BY DEF Begun, GoodReq
  <2>2. \A p \in Reqs : GoodReq(req'[p])
    BY <1>3, <1>4, <1>9, <2>1 DEF RefreshLookup
  <2>3. QED BY <1>0, <1>2, <1>9, <2>2 DEF RefreshLookup
<1>10. ASSUME NEW r \in Reqs, RevokeFamily(r)
       PROVE  FamilyKeepsItsUser'
  <2>1. \A s \in Tokens : GoodRow(row'[s])
    BY <1>0, <1>5, <1>10 DEF RevokeFamily, InFamily
  <2>2. QED BY <1>2, <1>4, <1>10, <2>1 DEF RevokeFamily
<1>11. ASSUME NEW r \in Reqs, Purge(r) \/ StatementFails(r) \/ Abandon(r)
       PROVE  FamilyKeepsItsUser'
  <2>1. \A s \in Tokens : GoodRow(row'[s])
    <3>1. CASE Purge(r)
      BY <1>0, <1>6, <3>1 DEF Purge
    <3>2. CASE row' = row
      BY <1>0, <3>2
    <3>3. QED BY <1>11, <3>1, <3>2 DEF StatementFails, Abandon
  <2>2. CASE Return(r)
    BY <1>2, <1>4, <1>11, <2>1, <2>2 DEF Purge, StatementFails, Abandon
  <2>3. CASE At(r, "claimed") /\ req' = [req EXCEPT ![r] = Purged(req[r])]
    <3>1. GoodReq(Purged(req[r]))
      BY <1>0, <2>3 DEF At, Purged, Begun, GoodReq
    <3>2. \A p \in Reqs : GoodReq(req'[p])
      BY <1>3, <2>3, <3>1
    <3>3. QED BY <1>2, <1>11, <2>1, <3>2 DEF Purge, StatementFails, Abandon
  <2>4. QED BY <1>11, <2>2, <2>3 DEF Purge, StatementFails, Abandon
<1>12. ASSUME NEW r \in Reqs, Issue(r)
       PROVE  FamilyKeepsItsUser'
  <2>1. GoodRow(Row("live", req[r].user, req[r].family))
    BY <1>0, <1>12 DEF Issue, At, GoodReq, GoodRow, Row
  <2>2. \A s \in Tokens : GoodRow(row'[s])
    BY <1>0, <1>12, <2>1 DEF Issue
  <2>3. QED BY <1>2, <1>4, <1>12, <2>2 DEF Issue
<1>13. ASSUME NEW t \in 1..issued, Logout(t)
       PROVE  FamilyKeepsItsUser'
  <2>1. \A s \in Tokens : GoodRow(row'[s])
    BY <1>0, <1>6, <1>13 DEF Logout
  <2>2. QED BY <1>0, <1>2, <1>13, <2>1 DEF Logout
<1>14. CASE Expire \/ UNCHANGED vars
  BY <1>0, <1>2, <1>14 DEF Expire, vars
<1>15. QED
  BY <1>1, <1>7, <1>8, <1>9, <1>10, <1>11, <1>12, <1>13, <1>14
  DEF Next, Serve

(* A rotation can never hand one user's session to another.                *)
THEOREM OneUser == Spec => []FamilyKeepsItsUser
<1>1. Init => FamilyKeepsItsUser
  BY DEF Init, FamilyKeepsItsUser, NoRow, Row, IdleReq, Begun
<1>2. QED BY <1>1, FamilyStep, Typed, PTL DEF Spec
=============================================================================
