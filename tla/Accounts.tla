------------------------------ MODULE Accounts ------------------------------
(***************************************************************************)
(* Sign-in with Google (Auth.Google in google_auth.go) over the users      *)
(* table: any number of requests at once, each a sequence of statements of *)
(* their own, with other requests of the same account in between.          *)
(*                                                                         *)
(* Google is external: an account (a google_sub) has an e-mail address     *)
(* that changes from time to time, known by the number of its changes, and *)
(* a verified token carries the address of that moment.  The session that  *)
(* issueTokens begins is Sessions' business; here it has a user only.      *)
(*                                                                         *)
(* An operator named Slip<Name> is <Name> as a plausible mistake would     *)
(* have it; no specification uses it, and some property must notice it.    *)
(***************************************************************************)
EXTENDS Integers

CONSTANTS
    Subs, NoSub,   \* Google accounts
    Known,         \* accounts that have a user from the start
    Reqs,
    MaxId,         \* bound: ids drawn from the users' sequence
    MaxChange,     \* bound: changes of an account's address
    Faults         \* "statement": a statement fails, or the client leaves

Ids == 1..MaxId

ASSUME AccountsAssumption ==
    /\ NoSub \notin Subs /\ Known \subseteq Subs
    /\ MaxId \in Nat /\ MaxChange \in Nat
    /\ Faults \subseteq {"statement"}

VARIABLES
    signupOpen,   \* configuration
    users,        \* the table
    nextId,       \* the sequence of its ids
    address,      \* external: the address of an account, at Google
    req,          \* the requests in progress
    begun,        \* the sessions begun
    overlapped    \* history: accounts of which two sign-ins overlapped

vars == <<signupOpen, users, nextId, address, req, begun, overlapped>>

User(i, s, e) == [id |-> i, sub |-> s, email |-> e]
IdleReq == [pc |-> "idle", sub |-> NoSub, email |-> 0, user |-> 0]

Emails == 0..MaxChange
TypeOK ==
    /\ signupOpen \in BOOLEAN
    /\ users \subseteq [id : Ids, sub : Subs, email : Emails]
    /\ nextId \in 1..(MaxId + 1)
    /\ address \in [Subs -> Emails]
    /\ req \in [Reqs -> [pc : {"idle", "verified", "known", "new", "issuing"},
                         sub : Subs \cup {NoSub}, email : Emails,
                         user : Ids \cup {0}]]
    /\ begun \subseteq [sub : Subs, user : Ids]
    /\ overlapped \subseteq Subs

RowOf(s) == {u \in users : u.sub = s}

\* The known accounts have users, and any ids below the sequence's next.
Init ==
    /\ signupOpen \in BOOLEAN
    /\ nextId \in Ids
    /\ \E id \in [Known -> 1..(nextId - 1)] :
          /\ \A s, t \in Known : id[s] = id[t] => s = t
          /\ users = {User(id[s], s, 0) : s \in Known}
    /\ address = [s \in Subs |-> 0]
    /\ req = [r \in Reqs |-> IdleReq]
    /\ begun = {} /\ overlapped = {}

At(r, p) == req[r].pc = p

-----------------------------------------------------------------------------

\* External: the account's owner changes its address.
Change(s) ==
    /\ address[s] < MaxChange
    /\ address' = [address EXCEPT ![s] = @ + 1]
    /\ UNCHANGED <<signupOpen, users, nextId, req, begun, overlapped>>

\* The code is exchanged and the token verified.  A refusal changes nothing.
Verify(r, s) ==
    /\ At(r, "idle")
    /\ req' = [req EXCEPT ![r] = [pc |-> "verified", sub |-> s,
                                  email |-> address[s], user |-> 0]]
    /\ overlapped' = IF \E q \in Reqs : req[q].sub = s
                     THEN overlapped \cup {s} ELSE overlapped
    /\ UNCHANGED <<signupOpen, users, nextId, address, begun>>

\* Slip: the row is found, and its id not scanned.
SlipScanned(u) == 0

Scanned(u) == u.id

\* select id from users where google_sub = $1, and 403 if there is none and
\* sign-ups are closed.
Lookup(r) ==
    /\ At(r, "verified")
    /\ \/ \E u \in RowOf(req[r].sub) :
             req' = [req EXCEPT ![r].pc = "known", ![r].user = Scanned(u)]
       \/ /\ RowOf(req[r].sub) = {}
          /\ req' = IF signupOpen THEN [req EXCEPT ![r].pc = "new"]
                                  ELSE [req EXCEPT ![r] = IdleReq]
    /\ UNCHANGED <<signupOpen, users, nextId, address, begun, overlapped>>

\* Slip: the where clause is lost.
SlipUpdated(s, e) == {[u EXCEPT !.email = e] : u \in users}

Updated(s, e) == {IF u.sub = s THEN [u EXCEPT !.email = e] ELSE u : u \in users}

\* The result of the update is ignored.
UpdateEmail(r) ==
    /\ At(r, "known")
    /\ \/ users' = Updated(req[r].sub, req[r].email)
       \/ "statement" \in Faults /\ UNCHANGED users
    /\ req' = [req EXCEPT ![r].pc = "issuing"]
    /\ UNCHANGED <<signupOpen, nextId, address, begun, overlapped>>

\* Slip: there is no unique key, the lookup having found no row.
SlipTaken(s) == FALSE

Taken(s) == RowOf(s) # {}   \* google_sub text unique

\* An id is drawn in any case; the loser of two first sign-ins is told 500.
Insert(r) ==
    /\ At(r, "new")
    /\ nextId <= MaxId
    /\ nextId' = nextId + 1
    /\ IF Taken(req[r].sub)
       THEN req' = [req EXCEPT ![r] = IdleReq] /\ UNCHANGED users
       ELSE /\ users' = users \cup {User(nextId, req[r].sub, req[r].email)}
            /\ req' = [req EXCEPT ![r].pc = "issuing", ![r].user = nextId]
    /\ UNCHANGED <<signupOpen, address, begun, overlapped>>

\* issueTokens.
Issue(r) ==
    /\ At(r, "issuing")
    /\ begun' = begun \cup {[sub |-> req[r].sub, user |-> req[r].user]}
    /\ req' = [req EXCEPT ![r] = IdleReq]
    /\ UNCHANGED <<signupOpen, users, nextId, address, overlapped>>

\* A statement other than the update fails, or a client leaves: 500, or none.
Fail(r) ==
    /\ ~At(r, "idle") /\ "statement" \in Faults
    /\ req' = [req EXCEPT ![r] = IdleReq]
    /\ UNCHANGED <<signupOpen, users, nextId, address, begun, overlapped>>

Next ==
    \/ \E s \in Subs : Change(s)
    \/ \E r \in Reqs : \/ \E s \in Subs : Verify(r, s)
                       \/ Lookup(r) \/ UpdateEmail(r) \/ Insert(r) \/ Issue(r)
                       \/ Fail(r)

Spec == Init /\ [][Next]_vars

-----------------------------------------------------------------------------
(* Properties.                                                             *)

\* However many first sign-ins of an account race between the lookup and the
\* insert (google_auth.go:146, :156), it gets one user, no two accounts get the
\* same, and a session begun by an account is one of the account's user.
OneUserPerAccount ==
    /\ \A u, v \in users : u.sub = v.sub \/ u.id = v.id => u = v
    /\ \A b \in begun : \E u \in users : u.sub = b.sub /\ u.id = b.user

\* The address decides who is exempt from the budget (chat.go:219).  A sign-in
\* that is slow to write it never replaces a newer one (google_auth.go:149),
\* unless two sign-ins of the account overlapped: the update is by account alone.
AddressNeverOlder ==
    [][\A s \in Subs \ overlapped :
          \A u \in RowOf(s), v \in RowOf(s)' : u.email <= v.email]_vars

\* What an account is, by the rows.
NoId == 0
AccountOf(s) == IF RowOf(s) = {} THEN NoId ELSE (CHOOSE u \in RowOf(s) : TRUE).id
D == INSTANCE Directory WITH account <- [s \in Subs |-> AccountOf(s)]

\* The handler keeps the promise of Directory: an account is one user for good.
ImplementsDirectory == D!DSpec
=============================================================================
