----------------------------- MODULE ChatProofs -----------------------------
(* Theorems about Chat, for every value of its constants.                  *)
EXTENDS Chat, FiniteSetTheorems, TLAPS

(***************************************************************************)
(* Types.  TypeOK is not inductive: the rows that Send inserts are well    *)
(* typed only because a request carries, at each point, what it has been   *)
(* given and has drawn so far.                                             *)
(***************************************************************************)
HasAsk == {"saving", "saved", "streaming", "streamed", "replying", "replied",
           "bumped", "recorded"}

Carried(q) ==
    /\ q.pc # "idle" => q.user \in Users /\ q.conv \in ConvIds
    /\ q.pc \in HasAsk => q.ask \in 1..MaxId
    /\ q.pc = "replying" => q.reply \in 1..MaxId

Carries == \A r \in Reqs : Carried(req[r])

TypeInv == TypeOK /\ Carries

LEMMA InitTyped == Init => TypeInv
BY ChatAssumption DEF ChatAssumption, Init, TypeInv, TypeOK, Carries, Carried,
   IdleReq, Begun, Row, Untitled, Title, Conversation, Request, Pcs, HasAsk

\* A request's new record is all there is to check of a step on it.
LEMMA RequestStep ==
    ASSUME TypeInv, NEW r \in Reqs, NEW q \in Request, Carried(q),
           req' = [req EXCEPT ![r] = q]
    PROVE  req' \in [Reqs -> Request] /\ Carries'
BY DEF TypeInv, TypeOK, Carries

\* The record of a request that returns, and of one that moves on.
LEMMA IdleTyped == IdleReq \in Request /\ Carried(IdleReq)
BY ChatAssumption DEF ChatAssumption, IdleReq, Begun, Request, Carried, Pcs, HasAsk

LEMMA GotoTyped ==
    ASSUME TypeInv, NEW r \in Reqs, NEW p \in Pcs, ~At(r, "idle"),
           p \in HasAsk => req[r].pc \in HasAsk,
           p # "replying", Goto(r, p)
    PROVE  req' \in [Reqs -> Request] /\ Carries'
<1> DEFINE q == [req[r] EXCEPT !.pc = p]
<1>1. req[r] \in Request /\ Carried(req[r])
  BY DEF TypeInv, TypeOK, Carries
<1>2. q \in Request
  BY <1>1 DEF Request
<1>3. q.pc = p /\ q.user = req[r].user /\ q.conv = req[r].conv
      /\ q.ask = req[r].ask
  BY <1>1 DEF Request
<1>4. Carried(q)
  BY <1>1, <1>3 DEF Carried, At
<1>5. req' = [req EXCEPT ![r] = q]
  BY DEF Goto
<1> HIDE DEF q
<1>6. QED BY <1>2, <1>4, <1>5, RequestStep

\* The handlers of one statement touch neither requests nor new rows.
LEMMA SimpleHandlersTyped ==
    ASSUME TypeInv, NEW u \in Users, NEW c \in ConvIds,
           Create(u, c) \/ Rename(u, c) \/ Delete(u, c)
    PROVE  TypeInv'
<1> USE ChatAssumption DEF ChatAssumption
<1>1. Row("live", u) \in Conversation /\ Row("deleted", u) \in Conversation
  BY DEF Row, Conversation, Title, Untitled
<1>2. [conv[c] EXCEPT !.title = UserTitle] \in Conversation
  <2>1. UserTitle \in Title
    BY DEF UserTitle, Title
  <2>2. conv[c] \in Conversation
    BY DEF TypeInv, TypeOK
  <2>3. QED BY <2>1, <2>2 DEF Conversation
<1>3. conv' \in [ConvIds -> Conversation]
  BY <1>1, <1>2 DEF Create, Rename, Delete, TypeInv, TypeOK
<1>4. messages' \subseteq Message
  BY DEF Create, Rename, Delete, AfterDelete, TypeInv, TypeOK
<1>5. UNCHANGED <<nextId, used, req>>
  BY DEF Create, Rename, Delete
<1>6. QED BY <1>3, <1>4, <1>5 DEF TypeInv, TypeOK, Carries

\* A request begins with its caller and its conversation.
LEMMA StartTyped ==
    ASSUME TypeInv, NEW r \in Reqs, NEW u \in Users, NEW c \in ConvIds,
           MessagesCheck(r, u, c) \/ SendCheck(r, u, c)
    PROVE  TypeInv'
<1>1. \A p \in {"reading", "checked"} :
         Begun(p, u, c) \in Request /\ Carried(Begun(p, u, c))
  <2> SUFFICES ASSUME NEW p \in {"reading", "checked"}
               PROVE  /\ Begun(p, u, c) \in Request
                      /\ Carried(Begun(p, u, c))
    OBVIOUS
  <2> QED
    BY ChatAssumption
    DEF ChatAssumption, Begun, Request, Carried, Pcs, HasAsk
<1>2. req' \in [Reqs -> Request] /\ Carries'
  BY <1>1, RequestStep DEF MessagesCheck, SendCheck
<1>3. QED BY <1>2 DEF MessagesCheck, SendCheck, TypeInv, TypeOK

LEMMA ReturnTyped ==
    ASSUME TypeInv, NEW r \in Reqs, Return(r)
    PROVE  req' \in [Reqs -> Request] /\ Carries'
BY IdleTyped, RequestStep DEF Return

LEMMA ServeTyped ==
    ASSUME TypeInv, NEW r \in Reqs, Serve(r)
    PROVE  TypeInv'
<1> USE ChatAssumption DEF ChatAssumption
<1>0. req[r] \in Request /\ Carried(req[r])
  BY DEF TypeInv, TypeOK, Carries
<1>1. CASE MessagesRead(r) \/ SendRefuse(r) \/ SendStreamFails(r)
  BY <1>1, ReturnTyped
  DEF MessagesRead, SendRefuse, SendStreamFails, TypeInv, TypeOK
<1>2. CASE SendAdmit(r)
  BY <1>2, GotoTyped DEF SendAdmit, At, Pcs, HasAsk, TypeInv, TypeOK
<1>3. CASE SendDrawId(r)
  <2> DEFINE q == [req[r] EXCEPT !.pc = "saving", !.ask = nextId]
  <2>1. nextId \in 0..MaxId /\ nextId \in 1..MaxId
        /\ nextId' \in 1..(MaxId + 1)
    BY <1>3 DEF SendDrawId, TypeInv, TypeOK
  <2>2. q \in Request
    BY <1>0, <2>1 DEF Request, Pcs
  <2>3. Carried(q)
    <3>1. q.pc = "saving" /\ q.user = req[r].user /\ q.conv = req[r].conv
          /\ q.ask = nextId
      BY <1>0 DEF Request
    <3>2. req[r].user \in Users /\ req[r].conv \in ConvIds
      BY <1>0, <1>3 DEF Carried, SendDrawId, At
    <3>3. QED BY <2>1, <3>1, <3>2 DEF Carried
  <2>4. req' = [req EXCEPT ![r] = q]
    BY <1>3 DEF SendDrawId
  <2> HIDE DEF q
  <2>5. req' \in [Reqs -> Request] /\ Carries'
    BY <2>2, <2>3, <2>4, RequestStep
  <2>6. QED BY <1>3, <2>1, <2>5 DEF SendDrawId, TypeInv, TypeOK
<1>4. CASE SendSave(r)
  <2>1. CASE Live(req[r].conv) /\ Goto(r, "saved")
    <3>1. UserRow(req[r].conv, req[r].ask) \in Message
      BY <1>0, <1>4 DEF SendSave, UserRow, Message, Carried, At, HasAsk
    <3>2. req' \in [Reqs -> Request] /\ Carries'
      BY <1>4, <2>1, GotoTyped DEF SendSave, At, Pcs, HasAsk
    <3>3. QED BY <1>4, <2>1, <3>1, <3>2 DEF SendSave, TypeInv, TypeOK
  <2>2. CASE ~Live(req[r].conv) /\ Return(r)
    BY <1>4, <2>2, ReturnTyped DEF SendSave, TypeInv, TypeOK
  <2>3. QED BY <1>4, <2>1, <2>2 DEF SendSave
<1>5. CASE SendHistory(r)
  <2>1. PICK b \in BOOLEAN :
           req' = [req EXCEPT ![r] = [@ EXCEPT !.pc = "streaming", !.first = b]]
    BY <1>5 DEF SendHistory, IsFirst, CutShort
  <2> DEFINE q == [req[r] EXCEPT !.pc = "streaming", !.first = b]
  <2>2. q \in Request
    BY <1>0, <2>1 DEF Request, Pcs
  <2>3. Carried(q)
    BY <1>0, <1>5 DEF Request, Carried, SendHistory, At, HasAsk
  <2>4. req' = [req EXCEPT ![r] = q]
    BY <2>1
  <2> HIDE DEF q
  <2>5. req' \in [Reqs -> Request] /\ Carries'
    BY <2>2, <2>3, <2>4, RequestStep
  <2>6. QED BY <1>5, <2>5 DEF SendHistory, TypeInv, TypeOK
<1>6. CASE SendStream(r)
  <2>1. PICK n \in 0..MaxCost :
           req' = [req EXCEPT ![r] = [@ EXCEPT !.pc = "streamed", !.cost = n]]
    BY <1>6 DEF SendStream
  <2> DEFINE q == [req[r] EXCEPT !.pc = "streamed", !.cost = n]
  <2>2. q \in Request
    BY <1>0, <2>1 DEF Request, Pcs
  <2>3. Carried(q)
    BY <1>0, <1>6 DEF Request, Carried, SendStream, At, HasAsk
  <2>4. req' = [req EXCEPT ![r] = q]
    BY <2>1
  <2> HIDE DEF q
  <2>5. req' \in [Reqs -> Request] /\ Carries'
    BY <2>2, <2>3, <2>4, RequestStep
  <2>6. QED BY <1>6, <2>5 DEF SendStream, TypeInv, TypeOK
<1>7. CASE SendDrawReplyId(r)
  <2> DEFINE q == [req[r] EXCEPT !.pc = "replying", !.reply = nextId]
  <2>1. nextId \in 0..MaxId /\ nextId \in 1..MaxId
        /\ nextId' \in 1..(MaxId + 1)
    BY <1>7 DEF SendDrawReplyId, TypeInv, TypeOK
  <2>2. q \in Request
    BY <1>0, <2>1 DEF Request, Pcs
  <2>3. Carried(q)
    <3>1. q.pc = "replying" /\ q.user = req[r].user /\ q.conv = req[r].conv
          /\ q.ask = req[r].ask /\ q.reply = nextId
      BY <1>0 DEF Request
    <3>2. /\ req[r].user \in Users /\ req[r].conv \in ConvIds
          /\ req[r].ask \in 1..MaxId
      BY <1>0, <1>7 DEF Carried, SendDrawReplyId, At, HasAsk
    <3>3. QED BY <2>1, <3>1, <3>2 DEF Carried
  <2>4. req' = [req EXCEPT ![r] = q]
    BY <1>7 DEF SendDrawReplyId
  <2> HIDE DEF q
  <2>5. req' \in [Reqs -> Request] /\ Carries'
    BY <2>2, <2>3, <2>4, RequestStep
  <2>6. QED BY <1>7, <2>1, <2>5 DEF SendDrawReplyId, TypeInv, TypeOK
<1>8. CASE SendReply(r)
  <2>1. CASE Live(req[r].conv) /\ Goto(r, "replied")
    <3>1. AssistantRow(req[r].conv, req[r].reply, req[r].ask) \in Message
      BY <1>0, <1>8 DEF SendReply, AssistantRow, Message, Carried, At, HasAsk
    <3>2. req' \in [Reqs -> Request] /\ Carries'
      BY <1>8, <2>1, GotoTyped DEF SendReply, At, Pcs, HasAsk
    <3>3. QED BY <1>8, <2>1, <3>1, <3>2 DEF SendReply, TypeInv, TypeOK
  <2>2. CASE ~Live(req[r].conv) /\ Return(r)
    BY <1>8, <2>2, ReturnTyped DEF SendReply, TypeInv, TypeOK
  <2>3. QED BY <1>8, <2>1, <2>2 DEF SendReply
<1>9. CASE SendBump(r)
  <2>1. req' \in [Reqs -> Request] /\ Carries'
    BY <1>9, GotoTyped DEF SendBump, At, Pcs, HasAsk
  <2>2. conv' \in [ConvIds -> Conversation]
    BY <1>9 DEF SendBump, Conversation, TypeInv, TypeOK
  <2>3. QED BY <1>9, <2>1, <2>2 DEF SendBump, TypeInv, TypeOK
<1>10. CASE SendRecord(r)
  <2>1. req' \in [Reqs -> Request] /\ Carries'
    BY <1>10, GotoTyped DEF SendRecord, At, Pcs, HasAsk
  <2>2. used' \in [Users -> Nat]
    <3>1. req[r].cost \in Nat
      BY <1>0 DEF Request
    <3>2. used \in [Users -> Nat] /\ used[req[r].user] \in Nat
      BY <1>0, <1>10 DEF SendRecord, Carried, At, TypeInv, TypeOK
    <3>3. used[req[r].user] + req[r].cost \in Nat
      BY <3>1, <3>2
    <3>4. used' = [used EXCEPT ![req[r].user] = used[req[r].user] + req[r].cost]
      BY <1>10 DEF SendRecord
    <3>5. QED BY <3>2, <3>3, <3>4
  <2>3. QED BY <1>10, <2>1, <2>2 DEF SendRecord, TypeInv, TypeOK
<1>11. CASE SendFinish(r)
  <2>1. AutoTitle(req[r].ask) \in Title
    BY <1>0 DEF AutoTitle, Title, Request
  <2>2. conv' \in [ConvIds -> Conversation]
    BY <1>11, <2>1 DEF SendFinish, Conversation, TypeInv, TypeOK
  <2>3. QED BY <1>11, <2>2, ReturnTyped DEF SendFinish, TypeInv, TypeOK
<1>12. QED
  BY <1>1, <1>2, <1>3, <1>4, <1>5, <1>6, <1>7, <1>8, <1>9, <1>10, <1>11
  DEF Serve

LEMMA FailureTyped ==
    ASSUME TypeInv, NEW r \in Reqs, StatementFails(r) \/ Abandon(r)
    PROVE  TypeInv'
<1>1. req' \in [Reqs -> Request] /\ Carries'
  BY ReturnTyped, GotoTyped DEF StatementFails, Abandon, At, Pcs, HasAsk
<1>2. QED BY <1>1 DEF StatementFails, Abandon, TypeInv, TypeOK

LEMMA AgeTyped ==
    ASSUME TypeInv, NEW u \in Users, Age(u)
    PROVE  TypeInv'
BY DEF Age, TypeInv, TypeOK, Carries

LEMMA NextTyped == TypeInv /\ [Next]_vars => TypeInv'
<1> SUFFICES ASSUME TypeInv, [Next]_vars PROVE TypeInv'
  OBVIOUS
<1>1. CASE UNCHANGED vars
  BY <1>1 DEF vars, TypeInv, TypeOK, Carries
<1>2. CASE Next
  BY <1>2, SimpleHandlersTyped, StartTyped, ServeTyped, FailureTyped, AgeTyped
  DEF Next
<1>3. QED BY <1>1, <1>2

LEMMA Typed == Spec => []TypeInv
BY InitTyped, NextTyped, PTL DEF Spec

(* Every table and every request always has its type.                      *)
THEOREM TypeCorrect == Spec => []TypeOK
<1>1. TypeInv => TypeOK
  BY DEF TypeInv
<1>2. QED BY <1>1, Typed, PTL

(***************************************************************************)
(* Ownership.  An id that stands for a conversation stands for the same    *)
(* user's for ever, and a request is bound to its caller and conversation  *)
(* by one check, when the caller did own it.                               *)
(***************************************************************************)
LEMMA IdKeepsItsUser ==
    ASSUME TypeInv, [Next]_vars, NEW c \in ConvIds, conv[c].status # "unborn"
    PROVE  conv'[c].status # "unborn" /\ conv'[c].user = conv[c].user
<1>1. conv \in [ConvIds -> Conversation]
  BY DEF TypeInv, TypeOK
<1>2. ASSUME NEW u \in Users, NEW d \in ConvIds,
             Create(u, d) \/ Rename(u, d) \/ Delete(u, d)
      PROVE  conv'[c].status # "unborn" /\ conv'[c].user = conv[c].user
  <2>1. CASE Create(u, d)
    BY <1>1, <2>1 DEF Create, FreeConv, Row, Conversation
  <2>2. CASE Rename(u, d)
    BY <1>1, <2>2 DEF Rename, Conversation
  <2>3. CASE Delete(u, d)
    BY <1>1, <2>3 DEF Delete, Owned, Row, Conversation
  <2>4. QED BY <1>2, <2>1, <2>2, <2>3
<1>3. ASSUME NEW r \in Reqs, SendBump(r) \/ SendFinish(r)
      PROVE  conv'[c].status # "unborn" /\ conv'[c].user = conv[c].user
  <2>1. CASE SendBump(r)
    BY <1>1, <2>1 DEF SendBump, Conversation
  <2>2. CASE SendFinish(r)
    BY <1>1, <2>2 DEF SendFinish, Conversation
  <2>3. QED BY <1>3, <2>1, <2>2
<1>4. CASE UNCHANGED conv
  BY <1>4
<1>5. QED
  BY <1>2, <1>3, <1>4
  DEF Next, vars, Serve, MessagesCheck, SendCheck, MessagesRead, SendAdmit,
      SendRefuse, SendDrawId, SendSave, SendHistory, SendStream,
      SendStreamFails, SendDrawReplyId, SendReply, SendRecord, StatementFails,
      Abandon, Age

\* What a step of request r leaves of its binding.
SameBinding(r) ==
    /\ req[r].pc # "idle"
    /\ req'[r].user = req[r].user
    /\ req'[r].conv = req[r].conv

LEMMA BoundOnce ==
    ASSUME TypeInv, [Next]_vars, NEW q \in Reqs, req'[q].pc # "idle"
    PROVE  SameBinding(q) \/ Owned(req'[q].user, req'[q].conv)
<1>1. req \in [Reqs -> Request]
  BY DEF TypeInv, TypeOK
<1>2. ASSUME NEW r \in Reqs, NEW u \in Users, NEW c \in ConvIds,
             MessagesCheck(r, u, c) \/ SendCheck(r, u, c)
      PROVE  SameBinding(q) \/ Owned(req'[q].user, req'[q].conv)
  BY <1>1, <1>2 DEF MessagesCheck, SendCheck, Begun, SameBinding
<1>3. ASSUME NEW r \in Reqs, Return(r)
      PROVE  SameBinding(q)
  BY <1>1, <1>3 DEF Return, IdleReq, Begun, SameBinding
<1>4. ASSUME NEW r \in Reqs, ~At(r, "idle"), NEW p \in Pcs, Goto(r, p)
      PROVE  SameBinding(q)
  BY <1>1, <1>4 DEF Goto, At, SameBinding, Request
<1>5. ASSUME NEW r \in Reqs,
             SendDrawId(r) \/ SendHistory(r) \/ SendStream(r)
             \/ SendDrawReplyId(r)
      PROVE  SameBinding(q)
  <2>0. req[q] \in Request /\ req[r] \in Request
    BY <1>1
  <2>1. CASE SendDrawId(r)
    BY <1>1, <2>0, <2>1 DEF SendDrawId, At, SameBinding, Request
  <2>2. CASE SendHistory(r)
    BY <1>1, <2>0, <2>2 DEF SendHistory, At, SameBinding, Request
  <2>3. CASE SendStream(r)
    BY <1>1, <2>0, <2>3 DEF SendStream, At, SameBinding, Request
  <2>4. CASE SendDrawReplyId(r)
    BY <1>1, <2>0, <2>4 DEF SendDrawReplyId, At, SameBinding, Request
  <2>5. QED BY <1>5, <2>1, <2>2, <2>3, <2>4
<1>6. ASSUME NEW r \in Reqs, Serve(r) \/ StatementFails(r) \/ Abandon(r)
      PROVE  SameBinding(q)
  BY <1>3, <1>4, <1>5, <1>6
  DEF Serve, MessagesRead, SendAdmit, SendRefuse, SendSave, SendStreamFails,
      SendReply, SendBump, SendRecord, SendFinish, StatementFails, Abandon, At,
      Pcs
<1>7. CASE UNCHANGED req
  BY <1>7 DEF SameBinding
<1>8. QED
  BY <1>2, <1>6, <1>7 DEF Next, vars, Create, Rename, Delete, Age

LEMMA OwnershipStep ==
    TypeInv /\ OwnershipHolds /\ [Next]_vars => OwnershipHolds'
<1> SUFFICES ASSUME TypeInv, OwnershipHolds, [Next]_vars,
                    NEW r \in Reqs, req'[r].pc # "idle"
             PROVE  /\ conv'[req'[r].conv].status # "unborn"
                    /\ conv'[req'[r].conv].user = req'[r].user
  BY DEF OwnershipHolds, At
<1>1. req'[r].conv \in ConvIds
  BY NextTyped DEF TypeInv, Carries, Carried
<1>2. /\ conv[req'[r].conv].status # "unborn"
      /\ conv[req'[r].conv].user = req'[r].user
  BY BoundOnce DEF SameBinding, OwnershipHolds, Owned, Live, At
<1>3. QED BY <1>1, <1>2, IdKeepsItsUser

(* No statement of a request ever reads or writes a conversation that is   *)
(* not its caller's, though all but the first select by id alone.          *)
THEOREM Ownership == Spec => []OwnershipHolds
<1>1. Init => OwnershipHolds
  BY DEF Init, OwnershipHolds, IdleReq, Begun, At
<1>2. QED BY <1>1, OwnershipStep, Typed, PTL DEF Spec

(***************************************************************************)
(* The budget.  A request that was admitted and is not yet charged is a    *)
(* debt of at most MaxCost.  The bound alone is not inductive: recording   *)
(* raises what is used.  What is used and what is owed together is: only   *)
(* an admission adds to them, and it finds less than Budget used.          *)
(***************************************************************************)
Pending == {"admitted", "saving", "saved", "streaming", "streamed",
            "replying", "replied", "bumped"}

Charging(u) == {r \in Reqs : req[r].pc \in Pending /\ req[r].user = u}

Limit == Budget - 1 + MaxCost * Cardinality(Reqs)

DebtBounded ==
    \A u \in Users \ Owners :
        used[u] + MaxCost * Cardinality(Charging(u)) <= Limit

LEMMA ChargingFinite ==
    \A u : /\ IsFiniteSet(Charging(u))
           /\ Cardinality(Charging(u)) \in Nat
           /\ Cardinality(Charging(u)) <= Cardinality(Reqs)
           /\ Cardinality(Reqs) \in Nat
BY ChatAssumption, FS_Subset, FS_CardinalityType DEF ChatAssumption, Charging

\* A step of one request adds it to the debtors only by an admission.
LEMMA DebtOfStep ==
    ASSUME TypeInv, NEW u \in Users, NEW r \in Reqs,
           req'[r].pc \in Pending => req[r].pc \in Pending /\ SameBinding(r),
           \A q \in Reqs \ {r} : req'[q] = req[q]
    PROVE  Charging(u)' \subseteq Charging(u)
<1> SUFFICES ASSUME NEW q \in Reqs, req'[q].pc \in Pending, req'[q].user = u
             PROVE  req[q].pc \in Pending /\ req[q].user = u
  BY DEF Charging
<1>1. CASE q = r
  BY <1>1 DEF SameBinding
<1>2. CASE q # r
  BY <1>2
<1>3. QED BY <1>1, <1>2

\* The three things a step can do to one user's use and debts.
NoNewDebt(u)  == used'[u] <= used[u] /\ Charging(u)' \subseteq Charging(u)
Admission(u)  == used'[u] = used[u] /\ used[u] < Budget
Settlement(u) == \E r \in Charging(u) :
                    /\ Charging(u)' \subseteq Charging(u) \ {r}
                    /\ used'[u] <= used[u] + MaxCost

LEMMA DebtSteps ==
    ASSUME TypeInv, [Next]_vars, NEW u \in Users \ Owners
    PROVE  NoNewDebt(u) \/ Admission(u) \/ Settlement(u)
<1>0. /\ req \in [Reqs -> Request] /\ used \in [Users -> Nat]
      /\ used[u] \in Nat /\ MaxCost \in Nat
  BY ChatAssumption DEF TypeInv, TypeOK, ChatAssumption
<1>1. CASE UNCHANGED <<used, req>>
  BY <1>0, <1>1 DEF NoNewDebt, Charging
<1>2. ASSUME NEW v \in Users, Age(v)
      PROVE  NoNewDebt(u)
  <2>1. used'[u] <= used[u]
    BY <1>0, <1>2 DEF Age
  <2>2. QED BY <1>2, <2>1 DEF Age, NoNewDebt, Charging
<1>3. ASSUME NEW r \in Reqs, NEW v \in Users, NEW c \in ConvIds,
             MessagesCheck(r, v, c) \/ SendCheck(r, v, c)
      PROVE  NoNewDebt(u)
  <2>1. /\ req'[r].pc \notin Pending /\ UNCHANGED used
        /\ \A q \in Reqs \ {r} : req'[q] = req[q]
    BY <1>0, <1>3 DEF MessagesCheck, SendCheck, Begun, Pending
  <2>2. QED BY <1>0, <2>1, DebtOfStep DEF NoNewDebt
<1>4. ASSUME NEW r \in Reqs, Return(r), UNCHANGED used
      PROVE  NoNewDebt(u)
  <2>1. /\ req'[r].pc \notin Pending
        /\ \A q \in Reqs \ {r} : req'[q] = req[q]
    BY <1>0, <1>4 DEF Return, IdleReq, Begun, Pending
  <2>2. QED BY <1>0, <1>4, <2>1, DebtOfStep DEF NoNewDebt
<1>5. ASSUME NEW r \in Reqs, NEW p \in Pcs, Goto(r, p), UNCHANGED used,
             req[r].pc \in Pending
      PROVE  NoNewDebt(u)
  <2>1. /\ SameBinding(r)
        /\ \A q \in Reqs \ {r} : req'[q] = req[q]
    BY <1>0, <1>5 DEF Goto, SameBinding, Request, Pending
  <2>2. QED BY <1>0, <1>5, <2>1, DebtOfStep DEF NoNewDebt
<1>6. ASSUME NEW r \in Reqs,
             SendDrawId(r) \/ SendHistory(r) \/ SendStream(r)
             \/ SendDrawReplyId(r)
      PROVE  NoNewDebt(u)
  <2>1. req[r].pc \in Pending /\ req[r].pc # "idle" /\ UNCHANGED used
    BY <1>6
    DEF SendDrawId, SendHistory, SendStream, SendDrawReplyId, At, Pending
  <2>2. \A q \in Reqs \ {r} : req'[q] = req[q]
    BY <1>0, <1>6
    DEF SendDrawId, SendHistory, SendStream, SendDrawReplyId
  <2>3. SameBinding(r)
    <3>1. req[r] \in Request
      BY <1>0
    <3>2. CASE SendDrawId(r)
      BY <1>0, <2>1, <3>1, <3>2 DEF SendDrawId, SameBinding, Request
    <3>3. CASE SendHistory(r)
      BY <1>0, <2>1, <3>1, <3>3 DEF SendHistory, SameBinding, Request
    <3>4. CASE SendStream(r)
      BY <1>0, <2>1, <3>1, <3>4 DEF SendStream, SameBinding, Request
    <3>5. CASE SendDrawReplyId(r)
      BY <1>0, <2>1, <3>1, <3>5 DEF SendDrawReplyId, SameBinding, Request
    <3>6. QED BY <1>6, <3>2, <3>3, <3>4, <3>5
  <2>4. QED BY <1>0, <2>1, <2>2, <2>3, DebtOfStep DEF NoNewDebt
<1>7. ASSUME NEW r \in Reqs, SendAdmit(r)
      PROVE  NoNewDebt(u) \/ Admission(u)
  <2>1. UNCHANGED used
    BY <1>7 DEF SendAdmit
  <2>2. CASE req[r].user = u
    <3>1. OwnerLookup(u) \subseteq {FALSE}
      BY DEF OwnerLookup
    <3>2. used[u] < Budget
      BY <1>7, <2>2, <3>1 DEF SendAdmit, Admits, WithinBudget
    <3>3. QED BY <2>1, <3>2 DEF Admission
  <2>3. CASE req[r].user # u
    <3>1. req'[r].user = req[r].user
      BY <1>0, <1>7 DEF SendAdmit, Goto, Request
    <3>2. \A q \in Reqs \ {r} : req'[q] = req[q]
      BY <1>0, <1>7 DEF SendAdmit, Goto
    <3>3. Charging(u)' \subseteq Charging(u)
      BY <2>3, <3>1, <3>2 DEF Charging
    <3>4. QED BY <1>0, <2>1, <3>3 DEF NoNewDebt
  <2>4. QED BY <2>2, <2>3
<1>8. ASSUME NEW r \in Reqs, SendRecord(r)
      PROVE  NoNewDebt(u) \/ Settlement(u)
  <2>1. req[r].cost \in 0..MaxCost /\ req[r].pc = "bumped"
    BY <1>0, <1>8 DEF SendRecord, At, Request
  <2>2. /\ req'[r].pc = "recorded"
        /\ \A q \in Reqs \ {r} : req'[q] = req[q]
    BY <1>0, <1>8 DEF SendRecord, Goto, Request
  <2>3. Charging(u)' \subseteq Charging(u) \ {r}
    BY <2>2 DEF Charging, Pending
  <2>4. CASE req[r].user = u
    <3>1. r \in Charging(u)
      BY <2>1, <2>4 DEF Charging, Pending
    <3>2. used'[u] = used[u] + req[r].cost
      BY <1>0, <1>8, <2>4 DEF SendRecord
    <3>3. used'[u] <= used[u] + MaxCost
      BY <1>0, <2>1, <3>2
    <3>4. QED BY <2>3, <3>1, <3>3 DEF Settlement
  <2>5. CASE req[r].user # u
    <3>1. used'[u] = used[u]
      BY <1>0, <1>8, <2>5 DEF SendRecord
    <3>2. QED BY <1>0, <2>3, <3>1 DEF NoNewDebt
  <2>6. QED BY <2>4, <2>5
<1>9. ASSUME NEW r \in Reqs, StatementFails(r) \/ Abandon(r)
      PROVE  NoNewDebt(u)
  <2>1. UNCHANGED used
    BY <1>9 DEF StatementFails, Abandon
  <2>2. CASE Return(r)
    BY <1>4, <2>1, <2>2
  <2>3. CASE At(r, "replied") /\ Goto(r, "bumped")
    BY <1>5, <2>1, <2>3 DEF At, Pcs, Pending
  <2>4. CASE At(r, "bumped") /\ Goto(r, "recorded")
    BY <1>5, <2>1, <2>4 DEF At, Pcs, Pending
  <2>5. QED BY <1>9, <2>2, <2>3, <2>4 DEF StatementFails, Abandon
<1>10. ASSUME NEW r \in Reqs, Serve(r)
       PROVE  NoNewDebt(u) \/ Admission(u) \/ Settlement(u)
  <2>1. CASE MessagesRead(r) \/ SendRefuse(r) \/ SendStreamFails(r)
             \/ SendFinish(r)
    BY <1>4, <2>1 DEF MessagesRead, SendRefuse, SendStreamFails, SendFinish
  <2>2. CASE SendSave(r)
    BY <1>4, <1>5, <2>2 DEF SendSave, At, Pcs, Pending
  <2>3. CASE SendReply(r)
    BY <1>4, <1>5, <2>3 DEF SendReply, At, Pcs, Pending
  <2>4. CASE SendBump(r)
    BY <1>5, <2>4 DEF SendBump, At, Pcs, Pending
  <2>5. QED
    BY <1>6, <1>7, <1>8, <1>10, <2>1, <2>2, <2>3, <2>4 DEF Serve
<1>11. QED
  BY <1>1, <1>2, <1>3, <1>9, <1>10 DEF Next, vars, Create, Rename, Delete

LEMMA DebtStep ==
    TypeInv /\ DebtBounded /\ [Next]_vars => DebtBounded'
<1> SUFFICES ASSUME TypeInv, DebtBounded, [Next]_vars, NEW u \in Users \ Owners
             PROVE  used'[u] + MaxCost * Cardinality(Charging(u)') <= Limit
  BY DEF DebtBounded, Limit
<1> DEFINE n == Cardinality(Charging(u))
           m == Cardinality(Charging(u)')
           k == Cardinality(Reqs)
<1>1. /\ used[u] \in Nat /\ used'[u] \in Nat /\ MaxCost \in Nat
      /\ Budget \in Nat /\ n \in Nat /\ m \in Nat /\ k \in Nat
      /\ m <= k /\ IsFiniteSet(Charging(u))
  <2>1. TypeInv'
    BY NextTyped
  <2>2. IsFiniteSet(Charging(u)') /\ m \in Nat /\ m <= k
    BY ChatAssumption, FS_Subset, FS_CardinalityType
    DEF ChatAssumption, Charging
  <2>3. QED
    BY <2>1, <2>2, ChargingFinite, ChatAssumption
    DEF ChatAssumption, TypeInv, TypeOK
<1>2. used[u] + MaxCost * n <= Budget - 1 + MaxCost * k
  BY DEF DebtBounded, Limit
<1>3. CASE NoNewDebt(u)
  <2>1. m <= n /\ used'[u] <= used[u]
    BY <1>1, <1>3, FS_Subset DEF NoNewDebt
  <2> HIDE DEF n, m, k
  <2>2. MaxCost * m <= MaxCost * n
    BY <1>1, <2>1
  <2>3. MaxCost * m \in Nat /\ MaxCost * n \in Nat /\ MaxCost * k \in Nat
    BY <1>1
  <2>4. used'[u] + MaxCost * m <= Budget - 1 + MaxCost * k
    BY <1>1, <1>2, <2>1, <2>2, <2>3
  <2>5. QED BY <2>4 DEF m, k, Limit
<1>4. CASE Admission(u)
  <2>1. used'[u] <= Budget - 1
    BY <1>1, <1>4 DEF Admission
  <2> HIDE DEF n, m, k
  <2>2. MaxCost * m <= MaxCost * k
    BY <1>1
  <2>3. MaxCost * m \in Nat /\ MaxCost * k \in Nat
    BY <1>1
  <2>4. used'[u] + MaxCost * m <= Budget - 1 + MaxCost * k
    BY <1>1, <2>1, <2>2, <2>3
  <2>5. QED BY <2>4 DEF m, k, Limit
<1>5. CASE Settlement(u)
  <2>1. PICK r \in Charging(u) : /\ Charging(u)' \subseteq Charging(u) \ {r}
                                 /\ used'[u] <= used[u] + MaxCost
    BY <1>5 DEF Settlement
  <2>2. m <= n - 1
    <3>1. /\ IsFiniteSet(Charging(u) \ {r})
          /\ Cardinality(Charging(u) \ {r}) = n - 1
      BY <1>1, FS_RemoveElement
    <3>2. QED BY <2>1, <3>1, FS_Subset
  <2> HIDE DEF n, m, k
  <2>3. MaxCost * m <= MaxCost * (n - 1)
    BY <1>1, <2>2
  <2>4. MaxCost * (n - 1) = MaxCost * n - MaxCost
    BY <1>1
  <2>5. MaxCost * m \in Nat /\ MaxCost * n \in Nat /\ MaxCost * k \in Nat
    BY <1>1
  <2>6. used'[u] + MaxCost * m <= Budget - 1 + MaxCost * k
    BY <1>1, <1>2, <2>1, <2>3, <2>4, <2>5
  <2>7. QED BY <2>6 DEF m, k, Limit
<1>6. QED BY <1>3, <1>4, <1>5, DebtSteps

(* A user overshoots the daily budget by at most one call for each request *)
(* that can be in progress, however these interleave and fail.             *)
THEOREM BudgetBound == Spec => []BudgetOvershootBounded
<1>1. Init => DebtBounded
  <2> SUFFICES ASSUME Init, NEW u \in Users \ Owners
               PROVE  used[u] + MaxCost * Cardinality(Charging(u)) <= Limit
    BY DEF DebtBounded
  <2>1. Charging(u) = {} /\ used[u] = 0
    BY DEF Init, Charging, IdleReq, Begun, Pending
  <2>2. MaxCost * Cardinality(Charging(u)) = 0
    BY <2>1, FS_EmptySet, ChatAssumption DEF ChatAssumption
  <2>3. MaxCost * Cardinality(Reqs) \in Nat /\ Budget \in Nat \ {0}
    BY ChargingFinite, ChatAssumption DEF ChatAssumption
  <2>4. QED BY <2>1, <2>2, <2>3 DEF Limit
<1>2. TypeInv /\ DebtBounded => BudgetOvershootBounded
  <2> SUFFICES ASSUME TypeInv, DebtBounded, NEW u \in Users \ Owners
               PROVE  used[u] <= Limit
    BY DEF BudgetOvershootBounded, Limit
  <2> DEFINE debt == MaxCost * Cardinality(Charging(u))
             room == MaxCost * Cardinality(Reqs)
  <2>1. debt \in Nat /\ room \in Nat
    BY ChargingFinite, ChatAssumption DEF ChatAssumption
  <2>2. used[u] \in Nat /\ Budget \in Nat
    BY ChatAssumption DEF TypeInv, TypeOK, ChatAssumption
  <2>3. used[u] + debt <= Budget - 1 + room
    BY DEF DebtBounded, Limit
  <2> HIDE DEF debt, room
  <2>4. used[u] <= Budget - 1 + room
    BY <2>1, <2>2, <2>3
  <2>5. QED BY <2>4 DEF Limit, room
<1>3. QED BY <1>1, <1>2, DebtStep, Typed, PTL DEF Spec

(***************************************************************************)
(* The log.  What a request has drawn and stored, against the messages and *)
(* the other requests: an id is drawn once, a question is in the log from  *)
(* the time it is saved until its conversation goes, and has no answer     *)
(* until its own request stores one.                                       *)
(***************************************************************************)
Unanswered == {"saving", "saved", "streaming", "streamed", "replying"}
Answered   == {"replied", "bumped", "recorded"}

IsAnswer(m, q) == m.role = "assistant" /\ m.ask = q

Thread(r) ==
    /\ At(r, "saving") =>
          \A m \in messages : m.id # req[r].ask /\ m.ask # req[r].ask
    /\ req[r].pc \in HasAsk =>
          /\ req[r].ask < nextId
          /\ ~At(r, "saving") /\ Live(req[r].conv) =>
                UserRow(req[r].conv, req[r].ask) \in messages
    /\ req[r].pc \in Unanswered =>
          \A m \in messages : ~IsAnswer(m, req[r].ask)
    /\ req[r].pc \in Answered /\ Live(req[r].conv) =>
          \E a \in History(req[r].conv) : IsAnswer(a, req[r].ask)
    /\ At(r, "replying") =>
          /\ req[r].ask < req[r].reply /\ req[r].reply < nextId
          /\ \A m \in messages : m.id # req[r].reply

\* What two requests hold is never the same.
Apart(r, q) ==
    /\ req[r].pc \in HasAsk /\ req[q].pc \in HasAsk => req[r].ask # req[q].ask
    /\ At(r, "replying") /\ At(q, "replying") => req[r].reply # req[q].reply
    /\ At(r, "saving") /\ At(q, "replying") => req[r].ask # req[q].reply

Threads  == \A r \in Reqs : Thread(r)
Distinct == \A r, q \in Reqs : r # q => Apart(r, q)
Numbered == \A m \in messages : m.id < nextId /\ m.ask < nextId
Born     == \A c \in ConvIds : conv[c].status = "unborn" <=> conv[c].user = NoUser

LogInv == Threads /\ Distinct /\ Numbered /\ Born

Known == TypeInv /\ OwnershipHolds /\ LogInv

LEMMA InitLog == Init => LogInv
BY ChatAssumption
DEF ChatAssumption, Init, LogInv, Threads, Thread, Distinct, Apart, Numbered,
    Born, IdleReq, Begun, Row, At, HasAsk, Unanswered, Answered

\* A row that is new leaves alone what request q holds.
Clear(q, m) ==
    /\ At(q, "saving") => m.id # req[q].ask /\ m.ask # req[q].ask
    /\ req[q].pc \in Unanswered => ~IsAnswer(m, req[q].ask)
    /\ At(q, "replying") => m.id # req[q].reply

\* Conversations are not revived, and rows leave with their conversation only.
Lasting ==
    /\ nextId \in Nat /\ nextId' \in Nat /\ nextId <= nextId'
    /\ \A c \in ConvIds : conv[c].status # "unborn" /\ Live(c)' => Live(c)
    /\ \A m \in messages : Live(m.conv)' => m \in messages'

\* A step of others keeps the thread of q.
LEMMA ThreadKept ==
    ASSUME Known, Lasting, NEW q \in Reqs, req'[q] = req[q],
           \A m \in messages' \ messages : Clear(q, m)
    PROVE  Thread(q)'
<1>1. Thread(q) /\ req[q] \in Request /\ Carried(req[q])
  BY DEF Known, LogInv, Threads, TypeInv, TypeOK, Carries
<1>2. CASE At(q, "idle")
  BY <1>2 DEF Thread, At, HasAsk, Unanswered, Answered
<1>3. CASE ~At(q, "idle")
  <2>1. /\ req[q].conv \in ConvIds
        /\ Live(req[q].conv)' => Live(req[q].conv)
    BY <1>1, <1>3 DEF Carried, At, Known, OwnershipHolds, Lasting
  <2>2. At(q, "saving")' =>
           \A m \in messages' : m.id # req'[q].ask /\ m.ask # req'[q].ask
    BY <1>1 DEF Thread, At, Clear
  <2>3. req'[q].pc \in HasAsk => req'[q].ask < nextId'
    BY <1>1 DEF Thread, Lasting, Request
  <2>4. req'[q].pc \in HasAsk /\ ~At(q, "saving")' /\ Live(req[q].conv)' =>
           UserRow(req[q].conv, req[q].ask) \in messages'
    BY <1>1, <2>1 DEF Thread, At, Lasting, UserRow
  <2>5. req'[q].pc \in Unanswered =>
           \A m \in messages' : ~IsAnswer(m, req'[q].ask)
    BY <1>1 DEF Thread, Clear
  <2>6. req'[q].pc \in Answered /\ Live(req[q].conv)' =>
           \E a \in History(req[q].conv)' : IsAnswer(a, req[q].ask)
    BY <1>1, <2>1 DEF Thread, History, Lasting
  <2>7. At(q, "replying")' =>
           /\ req'[q].ask < req'[q].reply /\ req'[q].reply < nextId'
           /\ \A m \in messages' : m.id # req'[q].reply
    BY <1>1 DEF Thread, At, Clear, Lasting, Request
  <2>8. QED
    BY <2>2, <2>3, <2>4, <2>5, <2>6, <2>7 DEF Thread
<1>4. QED BY <1>2, <1>3

\* Request r does not come by what another holds.
LEMMA DistinctKept ==
    ASSUME Known, NEW r \in Reqs,
           \A q \in Reqs \ {r} : req'[q] = req[q],
           req'[r].pc \in HasAsk =>
              req[r].pc \in HasAsk /\ req'[r].ask = req[r].ask,
           req'[r].pc = "replying" =>
              req[r].pc = "replying" /\ req'[r].reply = req[r].reply,
           req'[r].pc = "saving" => req[r].pc = "saving"
    PROVE  Distinct'
<1> SUFFICES ASSUME NEW p \in Reqs, NEW q \in Reqs, p # q
             PROVE  Apart(p, q)'
  BY DEF Distinct
<1>1. Apart(p, q) /\ Apart(q, p)
  BY DEF Known, LogInv, Distinct
<1>2. QED
  BY <1>1 DEF Apart, At, HasAsk

\* A step of r that stores nothing, draws nothing and leaves conversations as
\* they were, dead or alive.
LEMMA QuietLog ==
    ASSUME Known, NEW r \in Reqs,
           \A q \in Reqs \ {r} : req'[q] = req[q],
           UNCHANGED <<messages, nextId>>,
           \A c \in ConvIds : /\ conv'[c].status = conv[c].status
                              /\ conv'[c].user = conv[c].user,
           Thread(r)', Distinct'
    PROVE  LogInv'
<1>1. Lasting
  BY DEF Lasting, Live, Known, TypeInv, TypeOK
<1>2. \A q \in Reqs : Thread(q)'
  BY <1>1, ThreadKept
<1>3. Numbered' /\ Born'
  BY DEF Known, LogInv, Numbered, Born
<1>4. QED BY <1>2, <1>3 DEF LogInv, Threads

\* A request that returns, or has not drawn an id yet, holds nothing.
LEMMA NothingHeld ==
    ASSUME Known, NEW r \in Reqs,
           \A q \in Reqs \ {r} : req'[q] = req[q],
           UNCHANGED <<messages, nextId>>,
           \A c \in ConvIds : /\ conv'[c].status = conv[c].status
                              /\ conv'[c].user = conv[c].user,
           req'[r].pc \notin HasAsk
    PROVE  LogInv'
<1>1. Thread(r)'
  BY DEF Thread, At, HasAsk, Unanswered, Answered
<1>2. Distinct'
  BY DistinctKept DEF HasAsk
<1>3. QED BY <1>1, <1>2, QuietLog

\* A request that goes on with the question it has.
LEMMA GoesOn ==
    ASSUME Known, NEW r \in Reqs,
           \A q \in Reqs \ {r} : req'[q] = req[q],
           UNCHANGED <<messages, nextId>>,
           \A c \in ConvIds : /\ conv'[c].status = conv[c].status
                              /\ conv'[c].user = conv[c].user,
           req'[r].conv = req[r].conv, req'[r].ask = req[r].ask,
           \/ req[r].pc \in {"saved", "streaming"}
              /\ req'[r].pc \in {"streaming", "streamed"}
           \/ req[r].pc \in Answered /\ req'[r].pc \in Answered
    PROVE  LogInv'
<1>1. req[r] \in Request /\ Carried(req[r]) /\ Thread(r)
  BY DEF Known, LogInv, Threads, TypeInv, TypeOK, Carries
<1>2. req[r].conv \in ConvIds
  BY <1>1 DEF Carried, Answered
<1>3. Live(req[r].conv)' <=> Live(req[r].conv)
  BY <1>2 DEF Live
<1>4. Thread(r)'
  BY <1>1, <1>3
  DEF Thread, At, HasAsk, Unanswered, Answered, History, UserRow
<1>5. Distinct'
  BY DistinctKept DEF HasAsk, Answered
<1>6. QED BY <1>4, <1>5, QuietLog

-----------------------------------------------------------------------------
LEMMA SimpleHandlersLog ==
    ASSUME Known, NEW u \in Users, NEW c \in ConvIds,
           Create(u, c) \/ Rename(u, c) \/ Delete(u, c)
    PROVE  LogInv'
<1>1. /\ conv \in [ConvIds -> Conversation] /\ UNCHANGED <<nextId, req>>
      /\ nextId \in Nat
  BY DEF Known, TypeInv, TypeOK, Create, Rename, Delete
<1>2. messages' \subseteq messages
  BY DEF Create, Rename, Delete, AfterDelete
<1>3. Lasting
  <2>1. CASE Create(u, c)
    BY <1>1, <2>1 DEF Create, FreeConv, Row, Lasting, Live
  <2>2. CASE Rename(u, c)
    BY <1>1, <2>2 DEF Rename, Lasting, Live, Conversation
  <2>3. CASE Delete(u, c)
    <3>1. Live(c)' = FALSE /\ \A d \in ConvIds \ {c} : conv'[d] = conv[d]
      BY <1>1, <2>3 DEF Delete, Row, Live
    <3>2. messages' = {m \in messages : m.conv # c}
      BY <2>3 DEF Delete, AfterDelete, History
    <3>3. QED BY <1>1, <3>1, <3>2 DEF Lasting, Live
  <2>4. QED BY <2>1, <2>2, <2>3
<1>4. Threads'
  BY <1>1, <1>2, <1>3, ThreadKept DEF Threads
<1>5. Distinct' /\ Numbered'
  BY <1>1, <1>2 DEF Known, LogInv, Distinct, Apart, At, Numbered
<1>6. Born'
  BY <1>1, ChatAssumption
  DEF ChatAssumption, Create, Rename, Delete, Row, Conversation, Known, LogInv,
      Born, Owned, Live
<1>7. QED BY <1>4, <1>5, <1>6 DEF LogInv

LEMMA DrawIdLog ==
    ASSUME Known, NEW r \in Reqs, SendDrawId(r)
    PROVE  LogInv'
<1>1. /\ req \in [Reqs -> Request] /\ nextId \in Nat /\ nextId' = nextId + 1
      /\ UNCHANGED <<conv, messages>>
  BY DEF Known, TypeInv, TypeOK, SendDrawId
<1>2. /\ \A q \in Reqs \ {r} : req'[q] = req[q]
      /\ req'[r].pc = "saving" /\ req'[r].ask = nextId
  BY <1>1 DEF SendDrawId, Request
<1>3. \A q \in Reqs :
         /\ req[q].pc \in HasAsk => req[q].ask < nextId
         /\ At(q, "replying") => req[q].reply < nextId
  BY DEF Known, LogInv, Threads, Thread
<1>4. Numbered' /\ Born'
  BY <1>1 DEF Known, LogInv, Numbered, Born, TypeInv, TypeOK, Message
<1>5. Lasting
  BY <1>1 DEF Lasting, Live
<1>6. Thread(r)'
  <2>1. \A m \in messages : m.id # nextId /\ m.ask # nextId
    BY <1>1 DEF Known, LogInv, Numbered, TypeInv, TypeOK, Message
  <2>2. QED
    BY <1>1, <1>2, <2>1
    DEF Thread, At, HasAsk, Unanswered, Answered, IsAnswer
<1>7. Threads'
  BY <1>1, <1>2, <1>5, <1>6, ThreadKept DEF Threads
<1>8. Distinct'
  <2> SUFFICES ASSUME NEW p \in Reqs, NEW q \in Reqs, p # q
               PROVE  Apart(p, q)'
    BY DEF Distinct
  <2>1. Apart(p, q) /\ req[p] \in Request /\ req[q] \in Request
    BY <1>1 DEF Known, LogInv, Distinct
  <2>2. QED
    BY <1>1, <1>2, <1>3, <2>1 DEF Apart, At, HasAsk, Request
<1>9. QED BY <1>4, <1>7, <1>8 DEF LogInv

LEMMA DrawReplyIdLog ==
    ASSUME Known, NEW r \in Reqs, SendDrawReplyId(r)
    PROVE  LogInv'
<1>1. /\ req \in [Reqs -> Request] /\ nextId \in Nat /\ nextId' = nextId + 1
      /\ UNCHANGED <<conv, messages>>
  BY DEF Known, TypeInv, TypeOK, SendDrawReplyId
<1>2. /\ \A q \in Reqs \ {r} : req'[q] = req[q]
      /\ req[r].pc = "streamed" /\ req'[r].pc = "replying"
      /\ req'[r].reply = nextId
      /\ req'[r].ask = req[r].ask /\ req'[r].conv = req[r].conv
  BY <1>1 DEF SendDrawReplyId, Request, At
<1>3. \A q \in Reqs :
         /\ req[q].pc \in HasAsk => req[q].ask < nextId
         /\ At(q, "replying") => req[q].reply < nextId
  BY DEF Known, LogInv, Threads, Thread
<1>4. Numbered' /\ Born'
  BY <1>1 DEF Known, LogInv, Numbered, Born, TypeInv, TypeOK, Message
<1>5. Lasting
  BY <1>1 DEF Lasting, Live
<1>6. Thread(r)'
  <2>1. \A m \in messages : m.id # nextId
    BY <1>1 DEF Known, LogInv, Numbered, TypeInv, TypeOK, Message
  <2>2. Thread(r) /\ req[r] \in Request
    BY <1>1 DEF Known, LogInv, Threads
  <2>3. QED
    BY <1>1, <1>2, <2>1, <2>2
    DEF Thread, At, HasAsk, Unanswered, Answered, UserRow, Live, Request
<1>7. Threads'
  BY <1>1, <1>2, <1>5, <1>6, ThreadKept DEF Threads
<1>8. Distinct'
  <2> SUFFICES ASSUME NEW p \in Reqs, NEW q \in Reqs, p # q
               PROVE  Apart(p, q)'
    BY DEF Distinct
  <2>1. Apart(p, q) /\ req[p] \in Request /\ req[q] \in Request
    BY <1>1 DEF Known, LogInv, Distinct
  <2>2. QED
    BY <1>1, <1>2, <1>3, <2>1 DEF Apart, At, HasAsk, Request
<1>9. QED BY <1>4, <1>7, <1>8 DEF LogInv

LEMMA SaveLog ==
    ASSUME Known, NEW r \in Reqs, At(r, "saving"), Live(req[r].conv),
           messages' = messages \cup {UserRow(req[r].conv, req[r].ask)},
           Goto(r, "saved"), UNCHANGED <<conv, nextId>>
    PROVE  LogInv'
<1> DEFINE row == UserRow(req[r].conv, req[r].ask)
<1>1. /\ req \in [Reqs -> Request] /\ nextId \in Nat
      /\ req[r].ask < nextId /\ Thread(r)
  BY DEF Known, TypeInv, TypeOK, LogInv, Threads, Thread, At, HasAsk
<1>2. /\ \A q \in Reqs \ {r} : req'[q] = req[q]
      /\ req'[r].pc = "saved" /\ req'[r].ask = req[r].ask
      /\ req'[r].conv = req[r].conv
  BY <1>1 DEF Goto, Request
<1>3. row.id = req[r].ask /\ row.ask = req[r].ask /\ row.role = "user"
  BY DEF UserRow
<1>4. \A q \in Reqs \ {r} : Clear(q, row)
  BY <1>3
  DEF Known, LogInv, Distinct, Apart, Clear, At, HasAsk, Unanswered, IsAnswer
<1>5. Lasting
  BY <1>1 DEF Lasting, Live
<1>6. Thread(r)'
  <2>1. \A m \in messages' : ~IsAnswer(m, req[r].ask)
    BY <1>1, <1>3 DEF Thread, At, Unanswered, IsAnswer
  <2>2. row \in messages'
    OBVIOUS
  <2>3. QED
    BY <1>1, <1>2, <2>1, <2>2
    DEF Thread, At, HasAsk, Unanswered, Answered, UserRow
<1>7. Threads'
  BY <1>2, <1>4, <1>5, <1>6, ThreadKept DEF Threads
<1>8. Distinct'
  BY <1>2, DistinctKept DEF At, HasAsk
<1>9. Numbered' /\ Born'
  BY <1>1, <1>3 DEF Known, LogInv, Numbered, Born
<1>10. QED BY <1>7, <1>8, <1>9 DEF LogInv

LEMMA ReplyLog ==
    ASSUME Known, NEW r \in Reqs, At(r, "replying"), Live(req[r].conv),
           messages' = messages \cup
              {AssistantRow(req[r].conv, req[r].reply, req[r].ask)},
           Goto(r, "replied"), UNCHANGED <<conv, nextId>>
    PROVE  LogInv'
<1> DEFINE row == AssistantRow(req[r].conv, req[r].reply, req[r].ask)
<1>1. /\ req \in [Reqs -> Request] /\ nextId \in Nat
      /\ req[r].ask < nextId /\ req[r].reply < nextId /\ Thread(r)
  BY DEF Known, TypeInv, TypeOK, LogInv, Threads, Thread, At, HasAsk
<1>2. /\ \A q \in Reqs \ {r} : req'[q] = req[q]
      /\ req'[r].pc = "replied" /\ req'[r].ask = req[r].ask
      /\ req'[r].conv = req[r].conv
  BY <1>1 DEF Goto, Request
<1>3. /\ row.id = req[r].reply /\ row.ask = req[r].ask
      /\ row.role = "assistant" /\ row.conv = req[r].conv
  BY DEF AssistantRow
<1>4. \A q \in Reqs \ {r} : Clear(q, row)
  BY <1>3
  DEF Known, LogInv, Distinct, Apart, Clear, At, HasAsk, Unanswered, IsAnswer
<1>5. Lasting
  BY <1>1 DEF Lasting, Live
<1>6. Thread(r)'
  <2>1. row \in History(req[r].conv)' /\ IsAnswer(row, req[r].ask)
    <3>1. row \in messages'
      OBVIOUS
    <3> HIDE DEF row
    <3>2. QED BY <1>2, <1>3, <3>1 DEF History, IsAnswer
  <2>2. UserRow(req[r].conv, req[r].ask) \in messages'
    BY <1>1 DEF Thread, At, HasAsk
  <2> HIDE DEF row
  <2>3. QED
    BY <1>1, <1>2, <2>1, <2>2
    DEF Thread, At, HasAsk, Unanswered, Answered, UserRow, History
<1>7. Threads'
  BY <1>2, <1>4, <1>5, <1>6, ThreadKept DEF Threads
<1>8. Distinct'
  BY <1>2, DistinctKept DEF At, HasAsk
<1>9. Numbered' /\ Born'
  BY <1>1, <1>3 DEF Known, LogInv, Numbered, Born
<1>10. QED BY <1>7, <1>8, <1>9 DEF LogInv

\* Setting a conversation's bump or title leaves its life and its user.
LEMMA PatchedConv ==
    ASSUME TypeInv, NEW r \in Reqs, SendBump(r) \/ SendFinish(r)
    PROVE  \A c \in ConvIds : /\ conv'[c].status = conv[c].status
                              /\ conv'[c].user = conv[c].user
<1>1. CASE SendBump(r)
  BY <1>1 DEF SendBump, TypeInv, TypeOK, Conversation
<1>2. CASE SendFinish(r)
  BY <1>2 DEF SendFinish, TypeInv, TypeOK, Conversation
<1>3. QED BY <1>1, <1>2

LEMMA RequestLog ==
    ASSUME Known, NEW r \in Reqs,
           Serve(r) \/ StatementFails(r) \/ Abandon(r)
    PROVE  LogInv'
<1>0. req \in [Reqs -> Request]
  BY DEF Known, TypeInv, TypeOK
<1>1. ASSUME Return(r), UNCHANGED <<messages, nextId>>,
             \A c \in ConvIds : /\ conv'[c].status = conv[c].status
                                /\ conv'[c].user = conv[c].user
      PROVE  LogInv'
  <2>1. /\ req'[r].pc = "idle"
        /\ \A q \in Reqs \ {r} : req'[q] = req[q]
    BY <1>0, <1>1 DEF Return, IdleReq, Begun
  <2>2. QED BY <1>1, <2>1, NothingHeld DEF HasAsk
<1>2. ASSUME NEW p \in Answered, req[r].pc \in Answered, Goto(r, p),
             UNCHANGED <<messages, nextId>>,
             \A c \in ConvIds : /\ conv'[c].status = conv[c].status
                                /\ conv'[c].user = conv[c].user
      PROVE  LogInv'
  <2>1. /\ req'[r].pc = p /\ req'[r].ask = req[r].ask
        /\ req'[r].conv = req[r].conv
        /\ \A q \in Reqs \ {r} : req'[q] = req[q]
    BY <1>0, <1>2 DEF Goto, Request
  <2>2. QED BY <1>2, <2>1, GoesOn
<1>3. CASE MessagesRead(r) \/ SendRefuse(r) \/ SendStreamFails(r)
  BY <1>1, <1>3 DEF MessagesRead, SendRefuse, SendStreamFails
<1>4. CASE SendAdmit(r)
  <2>1. /\ req'[r].pc = "admitted"
        /\ \A q \in Reqs \ {r} : req'[q] = req[q]
    BY <1>0, <1>4 DEF SendAdmit, Goto, Request
  <2>2. QED BY <1>4, <2>1, NothingHeld DEF SendAdmit, HasAsk
<1>5. CASE SendSave(r)
  BY <1>1, <1>5, SaveLog DEF SendSave
<1>6. CASE SendHistory(r)
  <2>1. /\ req'[r].pc = "streaming" /\ req[r].pc = "saved"
        /\ req'[r].ask = req[r].ask /\ req'[r].conv = req[r].conv
        /\ \A q \in Reqs \ {r} : req'[q] = req[q]
    BY <1>0, <1>6 DEF SendHistory, Request, At
  <2>2. QED BY <1>6, <2>1, GoesOn DEF SendHistory
<1>7. CASE SendStream(r)
  <2>1. /\ req'[r].pc = "streamed" /\ req[r].pc = "streaming"
        /\ req'[r].ask = req[r].ask /\ req'[r].conv = req[r].conv
        /\ \A q \in Reqs \ {r} : req'[q] = req[q]
    BY <1>0, <1>7 DEF SendStream, Request, At
  <2>2. QED BY <1>7, <2>1, GoesOn DEF SendStream
<1>8. CASE SendReply(r)
  BY <1>1, <1>8, ReplyLog DEF SendReply
<1>9. CASE SendBump(r)
  BY <1>2, <1>9, PatchedConv DEF SendBump, At, Answered, Known
<1>10. CASE SendRecord(r)
  BY <1>2, <1>10 DEF SendRecord, At, Answered
<1>11. CASE SendFinish(r)
  BY <1>1, <1>11, PatchedConv DEF SendFinish, Known
<1>12. CASE StatementFails(r) \/ Abandon(r)
  BY <1>1, <1>2, <1>12 DEF StatementFails, Abandon, At, Answered
<1>13. QED
  BY <1>3, <1>4, <1>5, <1>6, <1>7, <1>8, <1>9, <1>10, <1>11, <1>12,
     DrawIdLog, DrawReplyIdLog
  DEF Serve

LEMMA LogStep == Known /\ [Next]_vars => Known'
<1> SUFFICES ASSUME Known, [Next]_vars PROVE Known'
  OBVIOUS
<1>1. TypeInv' /\ OwnershipHolds'
  BY NextTyped, OwnershipStep DEF Known
<1>2. ASSUME NEW r \in Reqs, NEW u \in Users, NEW c \in ConvIds,
             MessagesCheck(r, u, c) \/ SendCheck(r, u, c)
      PROVE  LogInv'
  <2>1. /\ req'[r].pc \in {"reading", "checked"}
        /\ \A q \in Reqs \ {r} : req'[q] = req[q]
        /\ UNCHANGED <<conv, messages, nextId>>
    BY <1>2 DEF MessagesCheck, SendCheck, Begun, Known, TypeInv, TypeOK
  <2>2. QED BY <2>1, NothingHeld DEF HasAsk
<1>3. ASSUME UNCHANGED <<conv, messages, nextId, req>>
      PROVE  LogInv'
  <2>1. Lasting
    BY <1>3 DEF Lasting, Live, Known, TypeInv, TypeOK
  <2>2. ASSUME NEW q \in Reqs PROVE Thread(q)'
    <3>1. req'[q] = req[q] /\ messages' \ messages = {}
      BY <1>3
    <3>2. QED BY <2>1, <3>1, ThreadKept
  <2>3. Threads'
    BY <2>2 DEF Threads
  <2>4. Distinct' /\ Numbered' /\ Born'
    BY <1>3 DEF Known, LogInv, Distinct, Apart, At, Numbered, Born
  <2>5. QED BY <2>3, <2>4 DEF LogInv
<1>4. LogInv'
  <2>1. CASE UNCHANGED vars \/ \E u \in Users : Age(u)
    BY <1>3, <2>1 DEF vars, Age
  <2>2. CASE \E u \in Users, c \in ConvIds :
                Create(u, c) \/ Rename(u, c) \/ Delete(u, c)
    BY <2>2, SimpleHandlersLog
  <2>3. CASE \E u \in Users, c \in ConvIds, r \in Reqs :
                MessagesCheck(r, u, c) \/ SendCheck(r, u, c)
    BY <1>2, <2>3
  <2>4. CASE \E r \in Reqs : Serve(r) \/ StatementFails(r) \/ Abandon(r)
    BY <2>4, RequestLog
  <2>5. QED BY <2>1, <2>2, <2>3, <2>4 DEF Next
<1>5. QED BY <1>1, <1>4 DEF Known

LEMMA LogHolds == Spec => []Known
<1>1. Init => Known
  <2>1. Init => OwnershipHolds
    BY DEF Init, OwnershipHolds, IdleReq, Begun, At
  <2>2. QED BY <2>1, InitTyped, InitLog DEF Known
<1>2. QED BY <1>1, LogStep, PTL DEF Spec

(***************************************************************************)
(* What the log is for: the marks of a conversation in the list.           *)
(***************************************************************************)
Marked(c) ==
    /\ conv[c].bumped => \E a \in History(c) : a.role = "assistant"
    /\ Live(c) /\ conv[c].title.by = "first" =>
          \E m, a \in History(c) :
             /\ m.role = "user" /\ a.role = "assistant"
             /\ m.id = conv[c].title.ask /\ a.ask = m.id

LEMMA MarksAreMarked == MarksOfAnAnswer <=> \A c \in ConvIds : Marked(c)
BY DEF MarksOfAnAnswer, Marked

\* A conversation whose row is left alone and that loses no message.
LEMMA MarkKept ==
    ASSUME NEW c \in ConvIds, Marked(c), conv'[c] = conv[c],
           History(c) \subseteq History(c)'
    PROVE  Marked(c)'
BY DEF Marked, Live

LEMMA HistoryGrows ==
    ASSUME NEW c \in ConvIds, \A m \in messages : m.conv = c => m \in messages'
    PROVE  History(c) \subseteq History(c)'
BY DEF History

\* A request that has stored its reply shows what the marks stand for.
LEMMA AnsweredQuestion ==
    ASSUME Known, NEW r \in Reqs, req[r].pc \in Answered, Live(req[r].conv)
    PROVE  /\ UserRow(req[r].conv, req[r].ask) \in History(req[r].conv)
           /\ \E a \in History(req[r].conv) : IsAnswer(a, req[r].ask)
<1>1. Thread(r)
  BY DEF Known, LogInv, Threads
<1>2. QED BY <1>1 DEF Thread, At, HasAsk, Answered, History, UserRow

LEMMA MarksStep ==
    Known /\ MarksOfAnAnswer /\ [Next]_vars => MarksOfAnAnswer'
<1> SUFFICES ASSUME Known, MarksOfAnAnswer, [Next]_vars
             PROVE  \A c \in ConvIds : Marked(c)'
  BY DEF MarksOfAnAnswer, Marked
<1>0. /\ conv \in [ConvIds -> Conversation] /\ req \in [Reqs -> Request]
      /\ \A c \in ConvIds : Marked(c)
  BY MarksAreMarked DEF Known, TypeInv, TypeOK
<1>1. ASSUME UNCHANGED conv, messages \subseteq messages', NEW c \in ConvIds
      PROVE  Marked(c)'
  BY <1>0, <1>1, MarkKept, HistoryGrows
<1>2. ASSUME NEW u \in Users, NEW c \in ConvIds, NEW d \in ConvIds,
             Create(u, c) \/ Rename(u, c) \/ Delete(u, c)
      PROVE  Marked(d)'
  <2>1. History(d) \subseteq History(d)' \/ (Delete(u, c) /\ d = c)
    BY <1>2 DEF Create, Rename, Delete, AfterDelete, History
  <2>2. CASE d # c
    <3>1. conv'[d] = conv[d]
      BY <1>0, <1>2, <2>2 DEF Create, Rename, Delete
    <3>2. QED BY <1>0, <2>1, <2>2, <3>1, MarkKept
  <2>3. CASE d = c /\ (Create(u, c) \/ Delete(u, c))
    <3>1. /\ conv'[d].bumped = FALSE
          /\ conv'[d].title.by = "none"
      BY <1>0, <2>3 DEF Create, Delete, Row, Untitled
    <3>2. QED BY <3>1 DEF Marked
  <2>4. CASE d = c /\ Rename(u, c)
    <3>1. /\ conv'[d].bumped = conv[d].bumped
          /\ conv'[d].title.by = "user"
      BY <1>0, <2>4 DEF Rename, UserTitle, Conversation
    <3>2. History(d)' = History(d) /\ Marked(d)
      BY <1>0, <2>4 DEF Rename, History
    <3>3. QED BY <3>1, <3>2 DEF Marked
  <2>5. QED BY <1>2, <2>2, <2>3, <2>4
<1>3. ASSUME NEW r \in Reqs, SendBump(r), NEW c \in ConvIds
      PROVE  Marked(c)'
  <2>1. messages' = messages /\ req[r].pc \in Answered /\ Marked(c)
        /\ History(c)' = History(c)
    BY <1>0, <1>3 DEF SendBump, At, Answered, History
  <2>2. CASE conv'[c] = conv[c]
    BY <2>1, <2>2, MarkKept
  <2>3. CASE conv'[c] # conv[c]
    <3>1. /\ c = req[r].conv /\ Live(c)
          /\ conv'[c].title = conv[c].title /\ conv'[c].status = conv[c].status
      BY <1>0, <1>3, <2>3 DEF SendBump, Conversation
    <3>2. \E a \in History(c) : IsAnswer(a, req[r].ask)
      BY <2>1, <3>1, AnsweredQuestion
    <3>3. QED BY <2>1, <3>1, <3>2 DEF Marked, IsAnswer, Live
  <2>4. QED BY <2>2, <2>3
<1>4. ASSUME NEW r \in Reqs, SendFinish(r), NEW c \in ConvIds
      PROVE  Marked(c)'
  <2>1. messages' = messages /\ req[r].pc \in Answered /\ Marked(c)
        /\ History(c)' = History(c)
    BY <1>0, <1>4 DEF SendFinish, At, Answered, History
  <2>2. CASE conv'[c] = conv[c]
    BY <2>1, <2>2, MarkKept
  <2>3. CASE conv'[c] # conv[c]
    <3>1. /\ c = req[r].conv /\ Live(c)
          /\ conv'[c].bumped = conv[c].bumped
          /\ conv'[c].title = AutoTitle(req[r].ask)
      BY <1>0, <1>4, <2>3 DEF SendFinish, TakesTitle, Conversation
    <3>2. /\ UserRow(c, req[r].ask) \in History(c)
          /\ \E a \in History(c) : IsAnswer(a, req[r].ask)
      BY <2>1, <3>1, AnsweredQuestion
    <3>3. conv'[c].title.ask = req[r].ask
      BY <3>1 DEF AutoTitle
    <3>4. \E m, a \in History(c) :
             /\ m.role = "user" /\ a.role = "assistant"
             /\ m.id = req[r].ask /\ a.ask = m.id
      BY <3>2 DEF IsAnswer, UserRow
    <3>5. QED BY <2>1, <3>1, <3>3, <3>4 DEF Marked
  <2>4. QED BY <2>2, <2>3
<1>5. ASSUME NEW r \in Reqs,
             Serve(r) \/ StatementFails(r) \/ Abandon(r),
             ~SendBump(r), ~SendFinish(r)
      PROVE  UNCHANGED conv /\ messages \subseteq messages'
  BY <1>5
  DEF Serve, StatementFails, Abandon, MessagesRead, SendAdmit, SendRefuse,
      SendDrawId, SendSave, SendHistory, SendStream, SendStreamFails,
      SendDrawReplyId, SendReply, SendRecord
<1>6. CASE UNCHANGED vars \/ \E u \in Users : Age(u)
  BY <1>1, <1>6 DEF vars, Age
<1>7. CASE \E u \in Users, c \in ConvIds :
              Create(u, c) \/ Rename(u, c) \/ Delete(u, c)
  BY <1>2, <1>7
<1>8. CASE \E u \in Users, c \in ConvIds, r \in Reqs :
              MessagesCheck(r, u, c) \/ SendCheck(r, u, c)
  BY <1>1, <1>8 DEF MessagesCheck, SendCheck
<1>9. CASE \E r \in Reqs : Serve(r) \/ StatementFails(r) \/ Abandon(r)
  BY <1>1, <1>3, <1>4, <1>5, <1>9
<1>10. QED BY <1>6, <1>7, <1>8, <1>9 DEF Next

(* A conversation has moved up in the list, or been named by its first      *)
(* message, only if it holds an answer: the one to the question it is named *)
(* after, however late the two statements that mark it run.                 *)
THEOREM MarksAreAnswers == Spec => []MarksOfAnAnswer
<1>1. Init => MarksOfAnAnswer
  BY DEF Init, MarksOfAnAnswer, Row, Untitled, Live
<1>2. QED BY <1>1, LogHolds, MarksStep, PTL DEF Spec

(***************************************************************************)
(* Refinement.  A step opens or closes a conversation, appends one row to  *)
(* an open one, or moves neither log nor lives: each is a move of          *)
(* Transcript, or none.                                                    *)
(***************************************************************************)
owners == [c \in ConvIds |-> conv[c].user]
opened == {c \in ConvIds : Live(c)}

LEMMA MappedState == T!tvars = <<owners, opened, messages>>
BY DEF T!tvars, owners, opened

\* No conversation begins, ends or changes hands.
LEMMA SameLives ==
    ASSUME \A c \in ConvIds : /\ conv'[c].status = conv[c].status
                              /\ conv'[c].user = conv[c].user
    PROVE  UNCHANGED <<owners, opened>>
BY DEF owners, opened, Live

LEMMA OpensOrCloses ==
    ASSUME Known, NEW u \in Users, NEW c \in ConvIds,
           Create(u, c) \/ Delete(u, c)
    PROVE  T!TNext
<1>1. conv \in [ConvIds -> Conversation] /\ Born
  BY DEF Known, LogInv, TypeInv, TypeOK
<1>2. CASE Create(u, c)
  <2>1. /\ owners[c] = NoUser
        /\ owners' = [owners EXCEPT ![c] = u]
        /\ opened' = opened \cup {c}
        /\ messages' = messages
    BY <1>1, <1>2
    DEF Create, FreeConv, Row, Born, owners, opened, Live
  <2>2. T!Open(c)
    BY <2>1 DEF T!Open, owners, opened
  <2>3. QED BY <2>2 DEF T!TNext
<1>3. CASE Delete(u, c)
  <2>1. /\ c \in opened
        /\ owners' = owners
        /\ opened' = opened \ {c}
        /\ messages' = {m \in messages : m.conv # c}
    BY <1>1, <1>3
    DEF Delete, Owned, Row, owners, opened, Live, AfterDelete, History
  <2>2. T!Close(c)
    BY <2>1 DEF T!Close, owners, opened
  <2>3. QED BY <2>2 DEF T!TNext
<1>4. QED BY <1>2, <1>3

LEMMA AppendsQuestion ==
    ASSUME Known, NEW r \in Reqs, SendSave(r), Live(req[r].conv)
    PROVE  T!TNext
<1> DEFINE c == req[r].conv
           i == req[r].ask
<1>1. Thread(r) /\ Carried(req[r]) /\ At(r, "saving")
  BY DEF Known, LogInv, Threads, TypeInv, Carries, SendSave
<1>2. c \in ConvIds /\ i \in 1..MaxId
  BY <1>1 DEF Carried, At, HasAsk
<1>3. /\ messages' = messages \cup {T!Question(c, i)}
      /\ \A m \in messages : m.id # i
      /\ UNCHANGED conv
  BY <1>1 DEF SendSave, UserRow, T!Question, Thread
<1>4. T!Ask(c)
  <2>1. c \in opened /\ UNCHANGED <<owners, opened>>
    BY <1>2, <1>3, SameLives DEF opened
  <2>2. T!UnusedId(i)
    BY <1>3 DEF T!UnusedId
  <2> HIDE DEF c, i
  <2>3. QED BY <1>2, <1>3, <2>1, <2>2 DEF T!Ask, owners, opened
<1>5. QED BY <1>2, <1>4 DEF T!TNext

LEMMA AppendsAnswer ==
    ASSUME Known, NEW r \in Reqs, SendReply(r), Live(req[r].conv)
    PROVE  T!TNext
<1> DEFINE c == req[r].conv
           i == req[r].reply
           q == req[r].ask
<1>1. Thread(r) /\ Carried(req[r]) /\ At(r, "replying")
  BY DEF Known, LogInv, Threads, TypeInv, Carries, SendReply
<1>2. c \in ConvIds /\ i \in 1..MaxId /\ q \in 1..MaxId
  BY <1>1 DEF Carried, At, HasAsk
<1>3. /\ messages' = messages \cup {T!Answer(c, i, q)}
      /\ UNCHANGED conv
  BY <1>1 DEF SendReply, AssistantRow, T!Answer
<1>4. /\ \A m \in messages : m.id # i
      /\ q < i
      /\ T!Question(c, q) \in messages
      /\ \A m \in messages : m.role = "assistant" => m.ask # q
  BY <1>1
  DEF Thread, At, HasAsk, Unanswered, IsAnswer, UserRow, T!Question
<1>5. T!Reply(c)
  <2>1. c \in opened /\ UNCHANGED <<owners, opened>>
    BY <1>2, <1>3, SameLives DEF opened
  <2>2. T!UnusedId(i)
    BY <1>4 DEF T!UnusedId
  <2> HIDE DEF c, i, q
  <2>3. QED BY <1>2, <1>3, <1>4, <2>1, <2>2 DEF T!Reply, owners, opened
<1>6. QED BY <1>2, <1>5 DEF T!TNext

\* Everything else a request does shows in no transcript.
LEMMA ShowsNothing ==
    ASSUME Known, NEW r \in Reqs,
           Serve(r) \/ StatementFails(r) \/ Abandon(r),
           ~(SendSave(r) /\ Live(req[r].conv)),
           ~(SendReply(r) /\ Live(req[r].conv))
    PROVE  UNCHANGED <<owners, opened, messages>>
<1>1. CASE SendBump(r) \/ SendFinish(r)
  <2>1. UNCHANGED messages
    BY <1>1 DEF SendBump, SendFinish
  <2>2. QED BY <1>1, <2>1, PatchedConv, SameLives DEF Known
<1>2. CASE ~SendBump(r) /\ ~SendFinish(r)
  <2>1. UNCHANGED <<conv, messages>>
    BY <1>2
    DEF Serve, StatementFails, Abandon, MessagesRead, SendAdmit, SendRefuse,
        SendDrawId, SendSave, SendHistory, SendStream, SendStreamFails,
        SendDrawReplyId, SendReply, SendRecord
  <2>2. QED BY <2>1, SameLives
<1>3. QED BY <1>1, <1>2

(* The tables and handlers implement the transcripts of module Transcript: *)
(* through any interleaving, failure and departure a transcript gains      *)
(* whole questions and single answers to its own questions, and loses      *)
(* nothing but its life.                                                   *)
THEOREM RefinesTranscript == Spec => ImplementsTranscript
<1>1. Init => T!TInit
  BY DEF Init, T!TInit, Row, Live
<1>2. Known /\ [Next]_vars => [T!TNext]_T!tvars
  <2> SUFFICES ASSUME Known, [Next]_vars
               PROVE  T!TNext \/ UNCHANGED <<owners, opened, messages>>
    BY MappedState DEF T!tvars, owners, opened
  <2>1. CASE UNCHANGED vars \/ \E u \in Users : Age(u)
    BY <2>1, SameLives DEF vars, Age
  <2>2. CASE \E u \in Users, c \in ConvIds : Create(u, c) \/ Delete(u, c)
    BY <2>2, OpensOrCloses
  <2>3. CASE \E u \in Users, c \in ConvIds : Rename(u, c)
    <3>1. PICK u \in Users, c \in ConvIds : Rename(u, c)
      BY <2>3
    <3>2. conv \in [ConvIds -> Conversation]
      BY DEF Known, TypeInv, TypeOK
    <3>3. \A d \in ConvIds : /\ conv'[d].status = conv[d].status
                             /\ conv'[d].user = conv[d].user
      BY <3>1, <3>2 DEF Rename, Conversation
    <3>4. QED BY <3>1, <3>3, SameLives DEF Rename
  <2>4. CASE \E u \in Users, c \in ConvIds, r \in Reqs :
                MessagesCheck(r, u, c) \/ SendCheck(r, u, c)
    BY <2>4, SameLives DEF MessagesCheck, SendCheck
  <2>5. CASE \E r \in Reqs : Serve(r) \/ StatementFails(r) \/ Abandon(r)
    BY <2>5, AppendsQuestion, AppendsAnswer, ShowsNothing
  <2>6. QED BY <2>1, <2>2, <2>3, <2>4, <2>5 DEF Next
<1>3. QED
  BY <1>1, <1>2, LogHolds, PTL DEF Spec, ImplementsTranscript, T!TSpec

(***************************************************************************)
(* One namer.  A request learns that it is the first when it reads the     *)
(* history, after its own question is in it.  Were there another such      *)
(* request, or a title made by one, its rows would be in the history too,  *)
(* and more than one row is not "the first".                               *)
(***************************************************************************)
Naming == {"streaming", "streamed", "replying", "replied", "bumped", "recorded"}

Alone(c) ==
    Live(c) => /\ \A q, r \in Namers(c) : q = r
               /\ conv[c].title.by = "first" => Namers(c) = {}

NamerInv ==
    /\ IsFiniteSet(messages)
    /\ \A r \in Reqs : req[r].first => req[r].pc \in Naming
    /\ \A c \in ConvIds : Alone(c)

LEMMA AtMostOne ==
    ASSUME NEW S, IsFiniteSet(S)
    PROVE  Cardinality(S) <= 1 <=> \A x, y \in S : x = y
<1>1. Cardinality(S) \in Nat
  BY FS_CardinalityType
<1>2. ASSUME \A x, y \in S : x = y
      PROVE  Cardinality(S) <= 1
  <2>1. S = {} \/ \E x : S = {x}
    BY <1>2
  <2>2. QED BY <2>1, FS_EmptySet, FS_Singleton
<1>3. ASSUME Cardinality(S) <= 1
      PROVE  \A x, y \in S : x = y
  <2>1. Cardinality(S) = 0 \/ Cardinality(S) = 1
    BY <1>1, <1>3
  <2>2. S = {} \/ \E x : S = {x}
    BY <2>1, FS_EmptySet, FS_Singleton
  <2>3. QED BY <2>2
<1>4. QED BY <1>2, <1>3

LEMMA NamersAlone == (\A c \in ConvIds : Alone(c)) => OneNamer
<1> SUFFICES ASSUME \A c \in ConvIds : Alone(c), NEW c \in ConvIds, Live(c)
             PROVE  /\ Cardinality(Namers(c)) <= 1
                    /\ conv[c].title.by = "first" => Namers(c) = {}
  BY DEF OneNamer
<1>1. IsFiniteSet(Namers(c))
  BY FS_Subset, ChatAssumption DEF ChatAssumption, Namers
<1>2. QED BY <1>1, AtMostOne DEF Alone

\* The first is the only one in the conversation, and nothing named it.
LEMMA FirstIsAlone ==
    ASSUME Known, MarksOfAnAnswer, NamerInv, NEW r \in Reqs,
           req[r].pc \in HasAsk, ~At(r, "saving"),
           Live(req[r].conv), IsFirst(req[r].conv)
    PROVE  /\ Namers(req[r].conv) \subseteq {r}
           /\ conv[req[r].conv].title.by # "first"
<1> DEFINE c == req[r].conv
<1>1. IsFiniteSet(History(c))
  BY FS_Subset DEF NamerInv, History
<1>2. \A m, n \in History(c) : m = n
  BY <1>1, AtMostOne DEF IsFirst
<1>3. /\ UserRow(c, req[r].ask) \in History(c)
      /\ c \in ConvIds
  BY DEF Known, LogInv, Threads, Thread, History, UserRow, TypeInv, Carries,
         Carried, At, HasAsk
<1>4. ASSUME NEW q \in Namers(c), q # r
      PROVE  FALSE
  <2>1. q \in Reqs /\ req[q].conv = c /\ req[q].pc \in Naming
    BY <1>4 DEF Namers, NamerInv
  <2>2. UserRow(c, req[q].ask) \in History(c)
    BY <2>1
    DEF Known, LogInv, Threads, Thread, History, UserRow, At, HasAsk, Naming
  <2>3. req[q].ask # req[r].ask
    BY <1>4, <2>1 DEF Known, LogInv, Distinct, Apart, HasAsk, Naming
  <2>4. QED BY <1>2, <1>3, <2>2, <2>3 DEF UserRow
<1>5. conv[c].title.by # "first"
  BY <1>2, <1>3 DEF MarksOfAnAnswer
<1>6. Namers(c) \subseteq {r}
  BY <1>4
<1>7. QED BY <1>5, <1>6

LEMMA AloneKept ==
    ASSUME NEW c \in ConvIds, Alone(c), Live(c)' => Live(c),
           Live(c)' => conv'[c].title.by \in {conv[c].title.by, "user"},
           Namers(c)' \subseteq Namers(c)
    PROVE  Alone(c)'
BY DEF Alone

\* A step of r that does not make it the first of anything.
LEMMA NamersShrink ==
    ASSUME NEW r \in Reqs, \A q \in Reqs \ {r} : req'[q] = req[q],
           req'[r].first =>
              /\ req[r].first /\ req'[r].conv = req[r].conv
              /\ req[r].pc \in Naming => req'[r].pc \in Naming,
           NamerInv
    PROVE  /\ \A c \in ConvIds : Namers(c)' \subseteq Namers(c)
           /\ \A q \in Reqs : req'[q].first => req'[q].pc \in Naming
BY DEF Namers, NamerInv

LEMMA RowsFinite ==
    ASSUME Known, IsFiniteSet(messages), [Next]_vars
    PROVE  IsFiniteSet(messages')
<1>1. \/ messages' \subseteq messages
      \/ \E m : messages' = messages \cup {m}
  BY DEF Next, vars, Create, Rename, Delete, AfterDelete, MessagesCheck,
         SendCheck, Serve, StatementFails, Abandon, Age, MessagesRead,
         SendAdmit, SendRefuse, SendDrawId, SendSave, SendHistory, SendStream,
         SendStreamFails, SendDrawReplyId, SendReply, SendBump, SendRecord,
         SendFinish
<1>2. QED BY <1>1, FS_Subset, FS_AddElement
LEMMA SimpleHandlersAlone ==
    ASSUME Known, NamerInv, NEW u \in Users, NEW c \in ConvIds,
           Create(u, c) \/ Rename(u, c) \/ Delete(u, c), NEW d \in ConvIds
    PROVE  Alone(d)'
<1>0. /\ conv \in [ConvIds -> Conversation] /\ req' = req /\ Alone(d)
      /\ Namers(d)' = Namers(d)
  BY DEF Known, TypeInv, TypeOK, NamerInv, Create, Rename, Delete, Namers
<1>1. CASE conv'[d] = conv[d]
  BY <1>0, <1>1, AloneKept DEF Live
<1>2. CASE d = c /\ Create(u, c)
  <2>1. Namers(d) = {}
    BY <1>2
    DEF Known, OwnershipHolds, Create, FreeConv, Namers, NamerInv, Naming, At
  <2>2. QED BY <1>0, <2>1 DEF Alone
<1>3. CASE d = c /\ Rename(u, c)
  <2>1. Live(d) /\ conv'[d].title.by = "user"
    BY <1>0, <1>3 DEF Rename, Owned, UserTitle, Conversation
  <2>2. QED BY <1>0, <2>1, AloneKept
<1>4. CASE d = c /\ Delete(u, c)
  <2>1. ~Live(d)'
    BY <1>0, <1>4 DEF Delete, Row, Live
  <2>2. QED BY <2>1 DEF Alone
<1>5. conv'[d] = conv[d] \/ d = c
  BY <1>0 DEF Create, Rename, Delete
<1>6. QED BY <1>1, <1>2, <1>3, <1>4, <1>5

LEMMA HistoryNamer ==
    ASSUME "read" \notin Faults, Known, MarksOfAnAnswer, NamerInv,
           NEW r \in Reqs, SendHistory(r)
    PROVE  /\ \A c \in ConvIds : Alone(c)'
           /\ \A q \in Reqs : req'[q].first => req'[q].pc \in Naming
<1>1. req[r] \in Request /\ req \in [Reqs -> Request]
  BY DEF Known, TypeInv, TypeOK
<1>2. /\ \A q \in Reqs \ {r} : req'[q] = req[q]
      /\ req'[r].pc = "streaming" /\ req'[r].conv = req[r].conv
      /\ req'[r].first = IsFirst(req[r].conv)
      /\ req[r].pc = "saved" /\ ~req[r].first
      /\ UNCHANGED <<conv, messages>>
  BY <1>1 DEF SendHistory, CutShort, Request, At, NamerInv, Naming
<1>3. \A q \in Reqs : req'[q].first => req'[q].pc \in Naming
  BY <1>2 DEF NamerInv, Naming
<1>4. ASSUME NEW c \in ConvIds
      PROVE  Alone(c)'
  <2>0. Alone(c) /\ (Live(c)' <=> Live(c)) /\ conv' = conv
    BY <1>2 DEF NamerInv, Live
  <2>1. CASE Namers(c)' \subseteq Namers(c)
    BY <2>0, <2>1, AloneKept
  <2>2. CASE ~(Namers(c)' \subseteq Namers(c))
    <3>1. c = req[r].conv /\ IsFirst(c) /\ Namers(c)' \subseteq Namers(c) \cup {r}
      BY <1>2, <2>2 DEF Namers
    <3>2. CASE Live(c)
      <4>1. Namers(c) \subseteq {r} /\ conv[c].title.by # "first"
        BY <1>2, <3>1, <3>2, FirstIsAlone DEF HasAsk, At
      <4>2. QED BY <2>0, <3>1, <4>1 DEF Alone
    <3>3. QED BY <2>0, <3>2 DEF Alone
  <2>3. QED BY <2>1, <2>2
<1>5. QED BY <1>3, <1>4

LEMMA FinishNamer ==
    ASSUME Known, NamerInv, NEW r \in Reqs, SendFinish(r)
    PROVE  /\ \A c \in ConvIds : Alone(c)'
           /\ \A q \in Reqs : req'[q].first => req'[q].pc \in Naming
<1>1. req \in [Reqs -> Request] /\ conv \in [ConvIds -> Conversation]
  BY DEF Known, TypeInv, TypeOK
<1>2. /\ \A q \in Reqs \ {r} : req'[q] = req[q]
      /\ req'[r].first = FALSE
  BY <1>1 DEF SendFinish, Return, IdleReq, Begun
<1>3. /\ \A c \in ConvIds : Namers(c)' \subseteq Namers(c) \ {r}
      /\ \A q \in Reqs : req'[q].first => req'[q].pc \in Naming
  BY <1>2 DEF Namers, NamerInv
<1>4. ASSUME NEW c \in ConvIds
      PROVE  Alone(c)'
  <2>1. Alone(c) /\ (Live(c)' <=> Live(c))
    BY <1>4, PatchedConv DEF NamerInv, Live, Known
  <2>2. CASE conv'[c] = conv[c]
    BY <1>3, <2>1, <2>2, AloneKept
  <2>3. CASE conv'[c] # conv[c]
    <3>1. Live(c) /\ r \in Namers(c)
      BY <1>1, <2>3 DEF SendFinish, TakesTitle, Namers
    <3>2. Namers(c)' = {}
      BY <1>3, <2>1, <3>1 DEF Alone
    <3>3. QED BY <3>2 DEF Alone
  <2>4. QED BY <2>2, <2>3
<1>5. QED BY <1>3, <1>4

LEMMA RequestAlone ==
    ASSUME Known, NamerInv, NEW r \in Reqs,
           Serve(r) \/ StatementFails(r) \/ Abandon(r),
           ~SendHistory(r), ~SendFinish(r)
    PROVE  /\ \A c \in ConvIds : Alone(c)'
           /\ \A q \in Reqs : req'[q].first => req'[q].pc \in Naming
<1>1. /\ req \in [Reqs -> Request] /\ conv \in [ConvIds -> Conversation]
      /\ req[r].first => req[r].pc \in Naming
  BY DEF Known, TypeInv, TypeOK, NamerInv
<1>2. /\ \A q \in Reqs \ {r} : req'[q] = req[q]
      /\ req'[r].first =>
              /\ req[r].first /\ req'[r].conv = req[r].conv
              /\ req[r].pc \in Naming => req'[r].pc \in Naming
  <2>1. ASSUME Return(r)
        PROVE  <1>2!1 /\ ~req'[r].first
    BY <1>1, <2>1 DEF Return, IdleReq, Begun
  <2>2. ASSUME NEW p \in Pcs, Goto(r, p)
        PROVE  /\ <1>2!1 /\ req'[r].first = req[r].first
               /\ req'[r].conv = req[r].conv /\ req'[r].pc = p
    BY <1>1, <2>2 DEF Goto, Request
  <2>3. CASE MessagesRead(r) \/ SendRefuse(r) \/ SendStreamFails(r) \/ Abandon(r)
    BY <2>1, <2>3 DEF MessagesRead, SendRefuse, SendStreamFails, Abandon
  <2>4. CASE SendAdmit(r)
    BY <1>1, <2>2, <2>4 DEF SendAdmit, Pcs, At, Naming
  <2>5. CASE SendSave(r)
    BY <1>1, <2>1, <2>2, <2>5 DEF SendSave, Pcs, At, Naming
  <2>6. CASE SendReply(r) \/ SendBump(r) \/ SendRecord(r)
    BY <2>1, <2>2, <2>6 DEF SendReply, SendBump, SendRecord, Pcs, Naming
  <2>7. CASE StatementFails(r)
    BY <2>1, <2>2, <2>7 DEF StatementFails, Pcs, Naming
  <2>8. CASE SendDrawId(r) \/ SendStream(r) \/ SendDrawReplyId(r)
    BY <1>1, <2>8
    DEF SendDrawId, SendStream, SendDrawReplyId, Request, At, Naming
  <2>9. QED
    BY <2>3, <2>4, <2>5, <2>6, <2>7, <2>8 DEF Serve
<1>3. ASSUME NEW c \in ConvIds
      PROVE  /\ conv'[c].status = conv[c].status
             /\ conv'[c].title = conv[c].title
  <2>1. CASE SendBump(r)
    BY <1>1, <2>1 DEF SendBump, Conversation
  <2>2. CASE ~SendBump(r)
    BY <2>2
    DEF Serve, StatementFails, Abandon, MessagesRead, SendAdmit, SendRefuse,
        SendDrawId, SendSave, SendStream, SendStreamFails, SendDrawReplyId,
        SendReply, SendRecord
  <2>3. QED BY <2>1, <2>2
<1>4. \A c \in ConvIds : Alone(c) /\ (Live(c)' => Live(c))
  BY <1>3 DEF NamerInv, Live
<1>5. QED BY <1>2, <1>3, <1>4, NamersShrink, AloneKept

LEMMA NamerStep ==
    ASSUME "read" \notin Faults
    PROVE  Known /\ MarksOfAnAnswer /\ NamerInv /\ [Next]_vars => NamerInv'
<1> SUFFICES ASSUME Known, MarksOfAnAnswer, NamerInv, [Next]_vars
             PROVE  /\ \A c \in ConvIds : Alone(c)'
                    /\ \A q \in Reqs : req'[q].first => req'[q].pc \in Naming
  BY RowsFinite DEF NamerInv
<1>1. ASSUME UNCHANGED <<conv, req>>
      PROVE  /\ \A c \in ConvIds : Alone(c)'
             /\ \A q \in Reqs : req'[q].first => req'[q].pc \in Naming
  BY <1>1 DEF NamerInv, Alone, Namers, Live
<1>2. CASE UNCHANGED vars \/ \E u \in Users : Age(u)
  BY <1>1, <1>2 DEF vars, Age
<1>3. CASE \E u \in Users, c \in ConvIds :
              Create(u, c) \/ Rename(u, c) \/ Delete(u, c)
  BY <1>3, SimpleHandlersAlone DEF NamerInv, Create, Rename, Delete
<1>4. CASE \E u \in Users, c \in ConvIds, r \in Reqs :
              MessagesCheck(r, u, c) \/ SendCheck(r, u, c)
  <2>1. PICK u \in Users, c \in ConvIds, r \in Reqs :
                MessagesCheck(r, u, c) \/ SendCheck(r, u, c)
    BY <1>4
  <2>2. /\ \A q \in Reqs \ {r} : req'[q] = req[q]
        /\ ~req'[r].first /\ UNCHANGED conv
    BY <2>1 DEF MessagesCheck, SendCheck, Begun, Known, TypeInv, TypeOK
  <2>3. \A d \in ConvIds : Alone(d) /\ (Live(d)' => Live(d))
    BY <2>2 DEF NamerInv, Live
  <2>4. QED BY <2>2, <2>3, NamersShrink, AloneKept
<1>5. CASE \E r \in Reqs : Serve(r) \/ StatementFails(r) \/ Abandon(r)
  BY <1>5, HistoryNamer, FinishNamer, RequestAlone
<1>6. QED BY <1>2, <1>3, <1>4, <1>5 DEF Next

(* As long as no read of a history is cut short, at most one request in a  *)
(* conversation's whole life thinks it is the first, and none once the     *)
(* title is set by one: a second automatic title never replaces the first, *)
(* however the sends interleave, fail and are abandoned.                   *)
THEOREM OneTitle ==
    ASSUME "read" \notin Faults
    PROVE  Spec => []OneNamer
<1>1. Init => NamerInv
  BY FS_EmptySet DEF Init, NamerInv, Alone, Row, Live, IdleReq, Begun
<1>2. NamerInv => OneNamer
  BY NamersAlone DEF NamerInv
<1>3. QED
  BY <1>1, <1>2, LogHolds, MarksAreAnswers, NamerStep, PTL DEF Spec

=============================================================================
