--------------------------- MODULE AccountsProofs ---------------------------
(***************************************************************************)
(* Proofs about Accounts, for any number of accounts, requests, ids and    *)
(* changes of address.                                                     *)
(***************************************************************************)
EXTENDS Accounts, TLAPS

\* A request in progress has an account, with an address that Google gave it;
\* one that has looked the account up has the user of the account's row.
Requests ==
    \A r \in Reqs : ~At(r, "idle") =>
        /\ req[r].sub \in Subs
        /\ req[r].email <= address[req[r].sub]
        /\ At(r, "known") \/ At(r, "issuing") =>
              \E u \in users : u.sub = req[r].sub /\ u.id = req[r].user

\* No row has an id that the sequence has still to give.
Drawn == \A u \in users : u.id < nextId

\* An account whose sign-ins have not overlapped has one at most, and no address
\* that is newer than that one's, or than Google's.
Orderly ==
    \A s \in Subs \ overlapped :
        /\ \A r, q \in Reqs : req[r].sub = s /\ req[q].sub = s => r = q
        /\ \A u \in RowOf(s) :
              /\ u.email <= address[s]
              /\ \A r \in Reqs : req[r].sub = s => u.email <= req[r].email

\* An idle request has no account.
Idle == \A r \in Reqs : At(r, "idle") => req[r] = IdleReq

Inv == TypeOK /\ OneUserPerAccount /\ Requests /\ Drawn /\ Idle /\ Orderly

\* A request goes on, for the account and with the address it has.
Moves(r) ==
    /\ req' \in [Reqs -> [pc : {"idle", "verified", "known", "new", "issuing"},
                         sub : Subs \cup {NoSub}, email : Emails,
                         user : Ids \cup {0}]]
    /\ req'[r].sub = req[r].sub /\ req'[r].email = req[r].email
    /\ \A q \in Reqs \ {r} : req'[q] = req[q]

\* A row keeps its account and its id.
Kept == \A u \in users : \E v \in users' : v.sub = u.sub /\ v.id = u.id

-----------------------------------------------------------------------------

LEMMA InitInv == ASSUME Init PROVE Inv
<1> USE AccountsAssumption
<1>1. PICK id \in [Known -> 1..(nextId - 1)] :
             /\ \A s, t \in Known : id[s] = id[t] => s = t
             /\ users = {User(id[s], s, 0) : s \in Known}
    BY DEF Init
<1>2. nextId \in Ids /\ 0 \in Emails
    BY DEF Init, Ids, Emails
<1>3. \A s \in Known : id[s] \in Ids /\ id[s] < nextId
    BY <1>1, <1>2 DEF Ids
<1>4. TypeOK
    <2>1. users \subseteq [id : Ids, sub : Subs, email : Emails]
        BY <1>1, <1>2, <1>3 DEF User
    <2>2. nextId \in 1..(MaxId + 1)
        BY <1>2 DEF Ids
    <2> QED BY <1>2, <2>1, <2>2 DEF Init, TypeOK, IdleReq
<1>5. OneUserPerAccount
    BY <1>1 DEF Init, OneUserPerAccount, User
<1>6. Drawn
    BY <1>1, <1>3 DEF Drawn, User
<1>7. Requests /\ Idle
    BY DEF Init, Requests, Idle, At, IdleReq
<1>8. Orderly
    <2>1. \A u \in users : u.email = 0
        BY <1>1 DEF User
    <2>2. \A r \in Reqs : req[r].sub = NoSub
        BY DEF Init, IdleReq
    <2>3. \A s \in Subs : address[s] = 0 /\ s # NoSub
        BY DEF Init
    <2>4. \A s \in Subs, r \in Reqs : req[r].sub # s
        BY <2>2, <2>3
    <2>5. \A s \in Subs : \A u \in RowOf(s) : u.email <= address[s]
        BY <2>1, <2>3 DEF RowOf
    <2> QED BY <2>4, <2>5 DEF Orderly
<1> QED BY <1>4, <1>5, <1>6, <1>7, <1>8 DEF Inv

-----------------------------------------------------------------------------
(* The actions, one by one.                                                *)

LEMMA ChangeStep ==
    ASSUME Inv, NEW s \in Subs, Change(s)
    PROVE  Inv' /\ Kept
<1> USE AccountsAssumption
<1>1. address' = [address EXCEPT ![s] = @ + 1]
      /\ UNCHANGED <<signupOpen, users, nextId, req, begun, overlapped>>
    BY DEF Change
<1>2. address' \in [Subs -> Emails] /\ \A t \in Subs : address[t] <= address'[t]
    BY <1>1 DEF Change, Inv, TypeOK, Emails
<1>3. TypeOK'
    BY <1>1, <1>2 DEF Inv, TypeOK
<1>4. OneUserPerAccount' /\ Drawn' /\ Idle' /\ Kept
    BY <1>1 DEF Inv, OneUserPerAccount, Drawn, Idle, Kept, At
<1>5. Requests'
    <2> SUFFICES ASSUME NEW r \in Reqs, ~At(r, "idle")
                 PROVE  req[r].email <= address'[req[r].sub]
        BY <1>1 DEF Inv, Requests, At
    <2>1. req[r].sub \in Subs /\ req[r].email <= address[req[r].sub]
        BY DEF Inv, Requests
    <2>2. address[req[r].sub] \in Emails /\ address'[req[r].sub] \in Emails
          /\ req[r].email \in Emails
        BY <1>2, <2>1 DEF Inv, TypeOK
    <2> QED BY <1>2, <2>1, <2>2 DEF Emails
<1>6. Orderly'
    <2> SUFFICES ASSUME NEW t \in Subs \ overlapped, NEW u \in RowOf(t)
                 PROVE  u.email <= address'[t]
        BY <1>1 DEF Inv, Orderly, RowOf
    <2>1. u.email <= address[t] /\ u.email \in Emails
        BY DEF Inv, Orderly, TypeOK, RowOf
    <2>2. address[t] \in Emails /\ address'[t] \in Emails
        BY <1>2 DEF Inv, TypeOK
    <2> QED BY <1>2, <2>1, <2>2 DEF Emails
<1> QED BY <1>3, <1>4, <1>5, <1>6 DEF Inv

LEMMA VerifyStep ==
    ASSUME Inv, NEW r \in Reqs, NEW s \in Subs, Verify(r, s)
    PROVE  Inv' /\ Kept
<1> USE AccountsAssumption
<1>1. /\ At(r, "idle") /\ req[r] = IdleReq
      /\ req' = [req EXCEPT ![r] = [pc |-> "verified", sub |-> s,
                                    email |-> address[s], user |-> 0]]
      /\ UNCHANGED <<signupOpen, users, nextId, address, begun>>
    BY DEF Verify, Inv, Idle
<1>2. overlapped' = IF \E q \in Reqs : req[q].sub = s THEN overlapped \cup {s}
                                                    ELSE overlapped
    BY DEF Verify
<1>3. TypeOK'
    BY <1>1, <1>2 DEF Inv, TypeOK
<1>4. OneUserPerAccount' /\ Drawn' /\ Kept
    BY <1>1 DEF Inv, OneUserPerAccount, Drawn, Kept
<1>5. /\ req'[r] = [pc |-> "verified", sub |-> s, email |-> address[s], user |-> 0]
      /\ \A q \in Reqs \ {r} : req'[q] = req[q]
    BY <1>1 DEF Inv, TypeOK
<1>6. Idle'
    BY <1>5 DEF Inv, Idle, At
<1>7. Requests'
    <2>1. address[s] <= address[s]
        BY DEF Inv, TypeOK, Emails
    <2> QED BY <1>1, <1>5, <2>1 DEF Inv, Requests, At
<1>8. Orderly'
    <2> SUFFICES ASSUME NEW t \in Subs \ overlapped'
                 PROVE  /\ \A p, q \in Reqs : req'[p].sub = t /\ req'[q].sub = t => p = q
                        /\ \A u \in RowOf(t) :
                              /\ u.email <= address[t]
                              /\ \A q \in Reqs : req'[q].sub = t => u.email <= req'[q].email
        BY <1>1 DEF Orderly, RowOf
    <2>1. t \in Subs \ overlapped
        BY <1>2
    <2>2. CASE t = s
        <3>1. \A q \in Reqs : req[q].sub # s
            BY <1>2, <2>2
        <3>2. \A q \in Reqs : req'[q].sub = s => q = r
            BY <1>5, <3>1
        <3>3. \A u \in RowOf(s) : u.email <= address[s] /\ req'[r].email = address[s]
            BY <1>5, <2>1, <2>2 DEF Inv, Orderly
        <3> QED BY <2>2, <3>2, <3>3
    <2>3. CASE t # s
        <3>1. req'[r].sub # t
            BY <1>5, <2>3
        <3> QED BY <1>5, <2>1, <3>1 DEF Inv, Orderly
    <2> QED BY <2>2, <2>3
<1> QED BY <1>3, <1>4, <1>6, <1>7, <1>8 DEF Inv

\* A request returns, and nothing else changes but the sessions.
LEMMA ReturnStep ==
    ASSUME Inv, NEW r \in Reqs, req' = [req EXCEPT ![r] = IdleReq],
           UNCHANGED <<signupOpen, users, address, overlapped>>,
           nextId' \in 1..(MaxId + 1), nextId <= nextId',
           begun' \subseteq [sub : Subs, user : Ids],
           \A b \in begun' : \E u \in users : u.sub = b.sub /\ u.id = b.user
    PROVE  Inv' /\ Kept
<1> USE AccountsAssumption
<1>1. req'[r] = IdleReq /\ \A q \in Reqs \ {r} : req'[q] = req[q]
    BY DEF Inv, TypeOK
<1>2. TypeOK'
    BY DEF Inv, TypeOK, IdleReq, Emails
<1>3. OneUserPerAccount' /\ Kept
    BY DEF Inv, OneUserPerAccount, Kept
<1>4. Drawn'
    BY DEF Inv, Drawn, TypeOK, Ids
<1>5. Idle' /\ Requests'
    BY <1>1 DEF Inv, Idle, Requests, At, IdleReq
<1>6. Orderly'
    <2>1. \A t \in Subs : req'[r].sub # t
        BY <1>1 DEF IdleReq
    <2> QED BY <1>1, <2>1 DEF Inv, Orderly, RowOf
<1> QED BY <1>2, <1>3, <1>4, <1>5, <1>6 DEF Inv

\* A request goes on, and nothing else changes.
LEMMA GoOnStep ==
    ASSUME Inv, NEW r \in Reqs, ~At(r, "idle"),
           Moves(r), ~At(r, "idle")',
           ~At(r, "new")' => \E u \in users : u.sub = req[r].sub /\ u.id = req'[r].user,
           UNCHANGED <<signupOpen, users, nextId, address, begun, overlapped>>
    PROVE  Inv' /\ Kept
<1> USE AccountsAssumption
<1>1. /\ req'[r].sub = req[r].sub /\ req'[r].email = req[r].email
      /\ \A q \in Reqs \ {r} : req'[q] = req[q]
    BY DEF Moves
<1>2. TypeOK'
    BY DEF Inv, TypeOK, Moves
<1>3. OneUserPerAccount' /\ Drawn' /\ Kept
    BY DEF Inv, OneUserPerAccount, Drawn, Kept
<1>4. Idle'
    BY <1>1 DEF Inv, Idle, At
<1>5. Requests'
    BY <1>1 DEF Inv, Requests, At
<1>6. \A q \in Reqs : req'[q].sub = req[q].sub /\ req'[q].email = req[q].email
    BY <1>1
<1>7. Orderly'
    BY <1>6 DEF Inv, Orderly, RowOf
<1> QED BY <1>2, <1>3, <1>4, <1>5, <1>7 DEF Inv

LEMMA LookupStep ==
    ASSUME Inv, NEW r \in Reqs, Lookup(r)
    PROVE  Inv' /\ Kept
<1>1. ~At(r, "idle") /\ UNCHANGED <<signupOpen, users, nextId, address, begun, overlapped>>
    BY DEF Lookup, At
<1>2. ASSUME NEW u \in RowOf(req[r].sub),
             req' = [req EXCEPT ![r].pc = "known", ![r].user = Scanned(u)]
      PROVE  Inv' /\ Kept
    <2>1. u \in users /\ u.sub = req[r].sub /\ u.id \in Ids
        BY DEF RowOf, Inv, TypeOK
    <2>2. req' = [req EXCEPT ![r] = [req[r] EXCEPT !.pc = "known", !.user = u.id]]
        BY <1>2 DEF Scanned, Inv, TypeOK
    <2>3. Moves(r) /\ req'[r].pc = "known" /\ req'[r].user = u.id
        BY <2>1, <2>2 DEF Moves, Inv, TypeOK
    <2>4. ~At(r, "idle")' /\ \E v \in users : v.sub = req[r].sub /\ v.id = req'[r].user
        BY <2>1, <2>3 DEF At
    <2> QED BY <1>1, <2>3, <2>4, GoOnStep
<1>3. CASE req' = [req EXCEPT ![r].pc = "new"]
    <2>1. Moves(r)
        BY <1>3 DEF Moves, Inv, TypeOK
    <2>2. ~At(r, "idle")' /\ At(r, "new")'
        BY <1>3 DEF At, Inv, TypeOK
    <2> QED BY <1>1, <2>1, <2>2, GoOnStep
<1>4. CASE req' = [req EXCEPT ![r] = IdleReq]
    <2>1. /\ nextId' \in 1..(MaxId + 1) /\ nextId <= nextId'
          /\ begun' \subseteq [sub : Subs, user : Ids]
          /\ \A b \in begun' : \E u \in users : u.sub = b.sub /\ u.id = b.user
        BY <1>1, AccountsAssumption DEF Inv, TypeOK, OneUserPerAccount
    <2> QED BY <1>1, <1>4, <2>1, ReturnStep
<1> QED BY <1>2, <1>3, <1>4 DEF Lookup

LEMMA IssueStep ==
    ASSUME Inv, NEW r \in Reqs, Issue(r)
    PROVE  Inv' /\ Kept
<1>1. PICK u \in users : u.sub = req[r].sub /\ u.id = req[r].user
    BY DEF Issue, Inv, Requests, At
<1>2. u.sub \in Subs /\ u.id \in Ids
    BY DEF Inv, TypeOK
<1>3. begun' = begun \cup {[sub |-> u.sub, user |-> u.id]}
    BY <1>1 DEF Issue
<1>4. /\ begun' \subseteq [sub : Subs, user : Ids]
      /\ \A b \in begun' : \E v \in users : v.sub = b.sub /\ v.id = b.user
    BY <1>2, <1>3 DEF Inv, TypeOK, OneUserPerAccount
<1>5. nextId' \in 1..(MaxId + 1) /\ nextId <= nextId'
    BY AccountsAssumption DEF Issue, Inv, TypeOK
<1> QED BY <1>4, <1>5, ReturnStep DEF Issue

LEMMA FailStep ==
    ASSUME Inv, NEW r \in Reqs, Fail(r)
    PROVE  Inv' /\ Kept
<1>1. /\ nextId' \in 1..(MaxId + 1) /\ nextId <= nextId'
      /\ begun' \subseteq [sub : Subs, user : Ids]
      /\ \A b \in begun' : \E u \in users : u.sub = b.sub /\ u.id = b.user
    BY AccountsAssumption DEF Fail, Inv, TypeOK, OneUserPerAccount
<1> QED BY <1>1, ReturnStep DEF Fail

\* No row of the account gets an older address, unless sign-ins overlap.
Newer == \A s \in Subs \ overlapped :
            \A u \in RowOf(s), v \in RowOf(s)' : u.email <= v.email

LEMMA UpdateStep ==
    ASSUME Inv, NEW r \in Reqs, UpdateEmail(r)
    PROVE  Inv' /\ Kept /\ Newer
<1> DEFINE s == req[r].sub
           e == req[r].email
<1>1. /\ At(r, "known") /\ s \in Subs /\ e \in Emails /\ e <= address[s]
      /\ UNCHANGED <<signupOpen, nextId, address, begun, overlapped>>
    BY DEF UpdateEmail, Inv, Requests, TypeOK, At
<1>2. /\ Moves(r) /\ req'[r].pc = "issuing" /\ req'[r].user = req[r].user
    BY DEF UpdateEmail, Moves, Inv, TypeOK
<1>3. \E u \in users : u.sub = s /\ u.id = req'[r].user
    BY <1>1, <1>2 DEF Inv, Requests, At
<1>4. CASE UNCHANGED users
    <2>1. Inv' /\ Kept
        BY <1>1, <1>2, <1>3, <1>4, GoOnStep DEF At
    <2>2. Newer
        BY <1>4 DEF Inv, OneUserPerAccount, TypeOK, Newer, RowOf, Emails
    <2> QED BY <2>1, <2>2
<1>5. CASE users' = Updated(s, e)
    <2> DEFINE New(u) == IF u.sub = s THEN [u EXCEPT !.email = e] ELSE u
    <2>1. users' = {New(u) : u \in users}
        BY <1>5 DEF Updated
    <2>2. \A u \in users : /\ u \in [id : Ids, sub : Subs, email : Emails]
                           /\ New(u).sub = u.sub /\ New(u).id = u.id
                           /\ New(u).email = IF u.sub = s THEN e ELSE u.email
        BY DEF Inv, TypeOK
    <2>3. TypeOK'
        <3>1. \A u \in users : New(u) \in [id : Ids, sub : Subs, email : Emails]
            BY <1>1, <2>2
        <3> QED BY <1>1, <1>2, <2>1, <3>1 DEF Inv, TypeOK, Moves
    <2>4. Kept
        <3>1. \A u \in users : New(u) \in users'
            BY <2>1
        <3> HIDE DEF New
        <3> QED BY <2>2, <3>1 DEF Kept
    <2>5. OneUserPerAccount'
        <3>1. \A u, v \in users' : u.sub = v.sub \/ u.id = v.id => u = v
            BY <2>1, <2>2 DEF Inv, OneUserPerAccount
        <3>2. \A b \in begun : \E u \in users' : u.sub = b.sub /\ u.id = b.user
            BY <2>4 DEF Kept, Inv, OneUserPerAccount
        <3> QED BY <1>1, <3>1, <3>2 DEF OneUserPerAccount
    <2>6. Drawn'
        BY <1>1, <2>1, <2>2 DEF Inv, Drawn
    <2>7. Idle'
        BY <1>2 DEF Inv, Idle, At, Moves
    <2>8. Requests'
        <3> SUFFICES ASSUME NEW q \in Reqs, ~At(q, "idle")'
                     PROVE  /\ req'[q].sub \in Subs
                            /\ req'[q].email <= address'[req'[q].sub]
                            /\ At(q, "known")' \/ At(q, "issuing")' =>
                                 \E u \in users' : u.sub = req'[q].sub /\ u.id = req'[q].user
            BY DEF Requests
        <3>1. CASE q = r
            BY <1>1, <1>2, <1>3, <2>4, <3>1 DEF Moves, Kept
        <3>2. CASE q # r
            BY <1>1, <1>2, <2>4, <3>2 DEF Moves, Kept, Inv, Requests, At
        <3> QED BY <3>1, <3>2
    <2>9. ASSUME NEW t \in Subs \ overlapped, NEW v \in RowOf(t)'
          PROVE  /\ v.email <= address[t]
                 /\ \A q \in Reqs : req[q].sub = t => v.email <= req[q].email
                 /\ \A u \in RowOf(t) : u.email <= v.email
        <3>1. PICK u \in RowOf(t) : v = New(u)
            BY <2>1, <2>2, <2>9 DEF RowOf
        <3>2. \A w \in RowOf(t) : w = u
            BY DEF RowOf, Inv, OneUserPerAccount
        <3>3. CASE t = s
            <4>1. v.email = e
                BY <2>2, <3>1, <3>3 DEF RowOf
            <4>2. \A q \in Reqs : req[q].sub = t => q = r
                BY <3>3 DEF Inv, Orderly
            <4>3. u.email <= e
                BY <3>3 DEF Inv, Orderly
            <4>4. e <= e
                BY <1>1 DEF Emails
            <4> QED BY <1>1, <3>2, <3>3, <4>1, <4>2, <4>3, <4>4
        <3>4. CASE t # s
            <4>1. v = u
                BY <3>1, <3>4 DEF RowOf
            <4>2. u.email <= u.email
                BY DEF RowOf, Inv, TypeOK, Emails
            <4> QED BY <3>2, <4>1, <4>2 DEF Inv, Orderly
        <3> QED BY <3>3, <3>4
    <2>10. Orderly'
        <3>1. \A q \in Reqs : req'[q].sub = req[q].sub /\ req'[q].email = req[q].email
            BY <1>2 DEF Moves
        <3> QED BY <1>1, <2>9, <3>1 DEF Inv, Orderly
    <2>11. Newer
        BY <2>9 DEF Newer
    <2> QED BY <2>3, <2>4, <2>5, <2>6, <2>7, <2>8, <2>10, <2>11 DEF Inv
<1> QED BY <1>4, <1>5 DEF UpdateEmail

LEMMA InsertStep ==
    ASSUME Inv, NEW r \in Reqs, Insert(r)
    PROVE  Inv' /\ Kept /\ Newer
<1> USE AccountsAssumption
<1> DEFINE s == req[r].sub
           e == req[r].email
           w == User(nextId, s, e)
<1>1. /\ At(r, "new") /\ s \in Subs /\ e \in Emails /\ e <= address[s]
      /\ nextId \in Ids /\ nextId' = nextId + 1 /\ nextId' \in 1..(MaxId + 1)
      /\ UNCHANGED <<signupOpen, address, begun, overlapped>>
    BY DEF Insert, Inv, Requests, TypeOK, At, Ids
<1>2. CASE Taken(s)
    <2>1. req' = [req EXCEPT ![r] = IdleReq] /\ UNCHANGED users
        BY <1>2 DEF Insert
    <2>2. nextId <= nextId'
        BY <1>1 DEF Ids
    <2>3. /\ begun' \subseteq [sub : Subs, user : Ids]
          /\ \A b \in begun' : \E u \in users : u.sub = b.sub /\ u.id = b.user
        BY <1>1 DEF Inv, TypeOK, OneUserPerAccount
    <2>4. Inv' /\ Kept
        BY <1>1, <2>1, <2>2, <2>3, ReturnStep
    <2>5. Newer
        BY <2>1 DEF Inv, OneUserPerAccount, TypeOK, Newer, RowOf, Emails
    <2> QED BY <2>4, <2>5
<1>3. CASE ~Taken(s)
    <2>1. /\ users' = users \cup {w}
          /\ req' = [req EXCEPT ![r].pc = "issuing", ![r].user = nextId]
        BY <1>3 DEF Insert
    <2>2. /\ w \in [id : Ids, sub : Subs, email : Emails]
          /\ w.id = nextId /\ w.sub = s /\ w.email = e
        BY <1>1 DEF User
    <2>3. req' = [req EXCEPT ![r] = [req[r] EXCEPT !.pc = "issuing", !.user = nextId]]
        BY <2>1 DEF Inv, TypeOK
    <2>4. Moves(r) /\ req'[r].pc = "issuing" /\ req'[r].user = nextId
        BY <1>1, <2>3 DEF Moves, Inv, TypeOK
    <2>5. \A u \in users : u.sub # s /\ u.id # nextId /\ u.id < nextId
        BY <1>1, <1>3 DEF Taken, RowOf, Inv, Drawn, TypeOK, Ids
    <2> HIDE DEF w
    <2>6. TypeOK'
        BY <1>1, <2>1, <2>2, <2>4 DEF Inv, TypeOK, Moves
    <2>7. Kept /\ w \in users'
        BY <2>1 DEF Kept
    <2>8. OneUserPerAccount'
        <3>1. \A u, v \in users' : u.sub = v.sub \/ u.id = v.id => u = v
            BY <2>1, <2>2, <2>5 DEF Inv, OneUserPerAccount
        <3>2. \A b \in begun : \E u \in users' : u.sub = b.sub /\ u.id = b.user
            BY <2>1 DEF Inv, OneUserPerAccount
        <3> QED BY <1>1, <3>1, <3>2 DEF OneUserPerAccount
    <2>9. Drawn'
        BY <1>1, <2>1, <2>2, <2>5 DEF Drawn, Ids, Inv, TypeOK
    <2>10. Idle'
        BY <2>4 DEF Inv, Idle, At, Moves
    <2>11. Requests'
        <3> SUFFICES ASSUME NEW q \in Reqs, ~At(q, "idle")'
                     PROVE  /\ req'[q].sub \in Subs
                            /\ req'[q].email <= address'[req'[q].sub]
                            /\ At(q, "known")' \/ At(q, "issuing")' =>
                                 \E u \in users' : u.sub = req'[q].sub /\ u.id = req'[q].user
            BY DEF Requests
        <3>1. CASE q = r
            BY <1>1, <2>2, <2>4, <2>7, <3>1 DEF Moves
        <3>2. CASE q # r
            BY <1>1, <2>4, <2>7, <3>2 DEF Moves, Kept, Inv, Requests, At
        <3> QED BY <3>1, <3>2
    <2>12. ASSUME NEW t \in Subs \ overlapped, NEW v \in RowOf(t)'
           PROVE  /\ v.email <= address[t]
                  /\ \A q \in Reqs : req[q].sub = t => v.email <= req[q].email
                  /\ \A u \in RowOf(t) : u.email <= v.email
        <3>1. CASE t = s
            <4>1. v = w /\ RowOf(t) = {}
                BY <2>1, <2>5, <2>12, <3>1 DEF RowOf
            <4>2. \A q \in Reqs : req[q].sub = t => q = r
                BY <3>1 DEF Inv, Orderly
            <4>3. e <= e
                BY <1>1 DEF Emails
            <4> QED BY <1>1, <2>2, <3>1, <4>1, <4>2, <4>3
        <3>2. CASE t # s
            <4>1. v \in RowOf(t)
                BY <2>1, <2>2, <2>12, <3>2 DEF RowOf
            <4>2. \A u \in RowOf(t) : u = v
                BY <4>1 DEF RowOf, Inv, OneUserPerAccount
            <4>3. v.email <= v.email
                BY <4>1 DEF RowOf, Inv, TypeOK, Emails
            <4> QED BY <4>1, <4>2, <4>3 DEF Inv, Orderly
        <3> QED BY <3>1, <3>2
    <2>13. Orderly'
        <3>1. \A q \in Reqs : req'[q].sub = req[q].sub /\ req'[q].email = req[q].email
            BY <2>4 DEF Moves
        <3> QED BY <1>1, <2>12, <3>1 DEF Inv, Orderly
    <2>14. Newer
        BY <2>12 DEF Newer
    <2> QED BY <2>6, <2>7, <2>8, <2>9, <2>10, <2>11, <2>13, <2>14 DEF Inv
<1> QED BY <1>2, <1>3

-----------------------------------------------------------------------------

LEMMA Step == ASSUME Inv, [Next]_vars PROVE Inv' /\ Kept /\ Newer
<1>1. UNCHANGED users => Newer
    BY DEF Inv, OneUserPerAccount, TypeOK, Newer, RowOf, Emails
<1>2. CASE UNCHANGED vars
    BY <1>1, <1>2 DEF vars, Inv, TypeOK, OneUserPerAccount, Requests, Drawn, Idle,
                      Orderly, At, RowOf, Kept
<1>3. ASSUME NEW s \in Subs, Change(s) PROVE Inv' /\ Kept /\ Newer
    BY <1>1, <1>3, ChangeStep DEF Change
<1>4. ASSUME NEW r \in Reqs, NEW s \in Subs, Verify(r, s)
      PROVE  Inv' /\ Kept /\ Newer
    BY <1>1, <1>4, VerifyStep DEF Verify
<1>5. ASSUME NEW r \in Reqs, Lookup(r) PROVE Inv' /\ Kept /\ Newer
    BY <1>1, <1>5, LookupStep DEF Lookup
<1>6. ASSUME NEW r \in Reqs, UpdateEmail(r) PROVE Inv' /\ Kept /\ Newer
    BY <1>6, UpdateStep
<1>7. ASSUME NEW r \in Reqs, Insert(r) PROVE Inv' /\ Kept /\ Newer
    BY <1>7, InsertStep
<1>8. ASSUME NEW r \in Reqs, Issue(r) PROVE Inv' /\ Kept /\ Newer
    BY <1>1, <1>8, IssueStep DEF Issue
<1>9. ASSUME NEW r \in Reqs, Fail(r) PROVE Inv' /\ Kept /\ Newer
    BY <1>1, <1>9, FailStep DEF Fail
<1> QED BY <1>2, <1>3, <1>4, <1>5, <1>6, <1>7, <1>8, <1>9 DEF Next

-----------------------------------------------------------------------------
(* The abstract directory.                                                 *)

LEMMA AccountIsItsRows ==
    ASSUME Inv, NEW s \in Subs
    PROVE  /\ \A u \in RowOf(s) : AccountOf(s) = u.id
           /\ RowOf(s) = {} => AccountOf(s) = NoId
<1>1. \A u, v \in RowOf(s) : u = v
    BY DEF RowOf, Inv, OneUserPerAccount
<1> QED BY <1>1 DEF AccountOf

LEMMA AccountsDiffer ==
    ASSUME Inv, NEW s \in Subs, NEW t \in Subs,
           AccountOf(s) = AccountOf(t), AccountOf(s) # NoId
    PROVE  s = t
<1>1. RowOf(s) # {} /\ RowOf(t) # {}
    BY AccountIsItsRows
<1>2. PICK u \in RowOf(s), v \in RowOf(t) : u.id = v.id
    BY <1>1, AccountIsItsRows
<1> QED BY <1>2 DEF RowOf, Inv, OneUserPerAccount

LEMMA AccountKept ==
    ASSUME Inv, Inv', NEW s \in Subs, Kept, RowOf(s) # {}
    PROVE  AccountOf(s)' = AccountOf(s)
<1>1. PICK u \in RowOf(s) : AccountOf(s) = u.id
    BY AccountIsItsRows
<1>2. PICK v \in users' : v.sub = s /\ v.id = u.id
    BY <1>1 DEF Kept, RowOf
<1>3. \A x, y \in RowOf(s)' : x = y
    BY DEF RowOf, Inv, OneUserPerAccount
<1>4. v \in RowOf(s)'
    BY <1>2 DEF RowOf
<1> QED BY <1>1, <1>2, <1>3, <1>4 DEF AccountOf

LEMMA DirectoryInit == ASSUME Init PROVE D!DInit
<1>1. Inv
    BY InitInv
<1>2. \A s \in Subs : AccountOf(s) \in Ids \cup {NoId}
    <2> TAKE s \in Subs
    <2>1. \A u \in RowOf(s) : u.id \in Ids
        BY <1>1 DEF Inv, TypeOK, RowOf
    <2> QED BY <1>1, <2>1, AccountIsItsRows
<1>3. \A s, t \in Subs : AccountOf(s) = AccountOf(t) /\ AccountOf(s) # NoId => s = t
    BY <1>1, AccountsDiffer
<1> QED BY <1>2, <1>3 DEF Init, D!DInit

\* Where no request begins a session and no row is added, nothing happens.
LEMMA DirectoryRests ==
    ASSUME Inv, Inv', Kept, UNCHANGED begun,
           \A v \in users' : \E u \in users : u.sub = v.sub
    PROVE  UNCHANGED <<[s \in Subs |-> AccountOf(s)], begun>>
<1> SUFFICES ASSUME NEW s \in Subs PROVE AccountOf(s)' = AccountOf(s)
    OBVIOUS
<1>1. CASE RowOf(s) # {}
    BY <1>1, AccountKept
<1>2. CASE RowOf(s) = {}
    <2>1. RowOf(s)' = {}
        BY <1>2 DEF RowOf
    <2> QED BY <1>2, <2>1 DEF AccountOf
<1> QED BY <1>1, <1>2

LEMMA DirectoryStep ==
    ASSUME Inv, [Next]_vars
    PROVE  [D!DNext]_<<[s \in Subs |-> AccountOf(s)], begun>>
<1>1. Inv' /\ Kept
    BY Step
<1> DEFINE Rests == UNCHANGED <<[s \in Subs |-> AccountOf(s)], begun>>
<1>2. UNCHANGED <<users, begun>> => Rests
    BY <1>1, DirectoryRests
<1>3. ASSUME NEW r \in Reqs, UpdateEmail(r) PROVE Rests
    <2>1. \A v \in users' : \E u \in users : u.sub = v.sub
        BY <1>3 DEF UpdateEmail, Updated, Inv, TypeOK
    <2> QED BY <1>1, <1>3, <2>1, DirectoryRests DEF UpdateEmail
<1>4. ASSUME NEW r \in Reqs, Insert(r) PROVE Rests \/ D!DNext
    <2>0. PICK t \in Subs : t = req[r].sub
        BY <1>4 DEF Insert, Inv, Requests, At
    <2> DEFINE w == User(nextId, t, req[r].email)
    <2>1. CASE Taken(t)
        BY <1>2, <1>4, <2>0, <2>1 DEF Insert
    <2>2. CASE ~Taken(t)
        <3>1. users' = users \cup {w} /\ UNCHANGED begun
            BY <1>4, <2>0, <2>2 DEF Insert
        <3>2. nextId \in Ids
            BY <1>4, AccountsAssumption DEF Insert, Inv, TypeOK, Ids
        <3>3. w.sub = t /\ w.id = nextId
            BY DEF User
        <3> HIDE DEF w
        <3>4. AccountOf(t) = NoId
            BY <2>2, <3>2, AccountIsItsRows DEF Taken
        <3>5. RowOf(t)' = {w}
            BY <2>2, <3>1, <3>3 DEF Taken, RowOf
        <3>6. AccountOf(t)' = nextId
            BY <3>3, <3>5 DEF AccountOf
        <3>7. \A s \in Subs \ {t} : AccountOf(s)' = AccountOf(s)
            <4> SUFFICES ASSUME NEW s \in Subs \ {t} PROVE AccountOf(s)' = AccountOf(s)
                OBVIOUS
            <4>1. RowOf(s)' = RowOf(s)
                BY <3>1, <3>3 DEF RowOf
            <4> QED BY <4>1 DEF AccountOf
        <3>8. \A s \in Subs : AccountOf(s) # nextId
            <4> SUFFICES ASSUME NEW s \in Subs, AccountOf(s) = nextId PROVE FALSE
                OBVIOUS
            <4>1. RowOf(s) # {}
                BY <3>2, AccountIsItsRows DEF NoId, Ids
            <4>2. PICK u \in RowOf(s) : u.id = nextId
                BY <4>1, AccountIsItsRows
            <4> QED BY <3>2, <4>2 DEF RowOf, Inv, Drawn, Ids
        <3>9. D!Register(t, nextId)
            BY <3>1, <3>2, <3>4, <3>6, <3>7, <3>8 DEF D!Register
        <3> QED BY <3>2, <3>9 DEF D!DNext
    <2> QED BY <2>1, <2>2
<1>5. ASSUME NEW r \in Reqs, Issue(r) PROVE D!DNext
    <2> DEFINE t == req[r].sub
    <2>1. PICK u \in users : t \in Subs /\ u.sub = t /\ u.id = req[r].user
        BY <1>5 DEF Issue, Inv, Requests, At
    <2>2. u \in RowOf(t)
        BY <2>1 DEF RowOf
    <2>3. AccountOf(t) = u.id /\ u.id # NoId
        BY <2>1, <2>2, AccountIsItsRows DEF Inv, TypeOK, Ids, NoId
    <2>4. begun' = begun \cup {D!Session(t, AccountOf(t))}
        BY <1>5, <2>1, <2>3 DEF Issue, D!Session
    <2>5. \A s \in Subs : AccountOf(s)' = AccountOf(s)
        BY <1>5 DEF Issue, AccountOf, RowOf
    <2>6. D!Begin(t)
        BY <2>1, <2>3, <2>4, <2>5 DEF D!Begin
    <2> QED BY <2>1, <2>6 DEF D!DNext
<1>6. \A s \in Subs : Change(s) => Rests
    BY <1>2 DEF Change
<1>7. \A r \in Reqs : Lookup(r) \/ Fail(r) => Rests
    BY <1>2 DEF Lookup, Fail
<1>8. \A r \in Reqs, s \in Subs : Verify(r, s) => Rests
    BY <1>2 DEF Verify
<1>9. UNCHANGED vars => Rests
    BY <1>2 DEF vars
<1> QED BY <1>3, <1>4, <1>5, <1>6, <1>7, <1>8, <1>9 DEF Next

-----------------------------------------------------------------------------
(* The theorems.                                                           *)

LEMMA Invariance == Spec => []Inv
<1>1. Init => Inv
    BY InitInv
<1>2. Inv /\ [Next]_vars => Inv'
    BY Step
<1> QED BY <1>1, <1>2, PTL DEF Spec

\* The table and the requests keep their types.
THEOREM TypeCorrect == Spec => []TypeOK
<1>1. Inv => TypeOK
    BY DEF Inv
<1> QED BY <1>1, Invariance, PTL

\* For any number of concurrent sign-ins, an account has one user, no two have
\* the same, and its sessions are that user's (google_auth.go:144-160).
THEOREM OneUser == Spec => []OneUserPerAccount
<1>1. Inv => OneUserPerAccount
    BY DEF Inv
<1> QED BY <1>1, Invariance, PTL

\* Where an account's sign-ins do not overlap, its address is never replaced by
\* an older one (google_auth.go:149).
THEOREM AddressMonotone == Spec => AddressNeverOlder
<1>1. Inv /\ [Next]_vars => Newer
    BY Step
<1>2. Newer => [\A s \in Subs \ overlapped :
          \A u \in RowOf(s), v \in RowOf(s)' : u.email <= v.email]_vars
    BY DEF Newer
<1> QED BY <1>1, <1>2, Invariance, PTL DEF Spec, AddressNeverOlder

\* The handler implements the directory: an account becomes a user once, and is
\* that user for good.
THEOREM Implements == Spec => ImplementsDirectory
<1>1. Init => D!DInit
    BY DirectoryInit
<1>2. Inv /\ [Next]_vars => [D!DNext]_<<[s \in Subs |-> AccountOf(s)], begun>>
    BY DirectoryStep
<1> QED BY <1>1, <1>2, Invariance, PTL DEF Spec, ImplementsDirectory, D!DSpec
=============================================================================
