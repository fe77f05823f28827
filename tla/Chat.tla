-------------------------------- MODULE Chat --------------------------------
(***************************************************************************)
(* The conversation handlers of the Go API (api/chat.go, api/usage.go)     *)
(* over the tables of api/migrations: concurrent requests, each a sequence *)
(* of single SQL statements with no transaction around them, so that other *)
(* requests run between any two.                                           *)
(*                                                                         *)
(* One step is one statement, except an INSERT into messages, which is     *)
(* two: its id is drawn from the bigserial's sequence, which no snapshot   *)
(* protects, and the row becomes visible later.  Rows are therefore not    *)
(* always committed in the order of their ids.                             *)
(*                                                                         *)
(* A message's text is its id: `ask' is the id of the user message that a  *)
(* row carries (user) or answers (assistant), and the id of the one whose  *)
(* opening words an automatic title is made of.                            *)
(*                                                                         *)
(* An operator named Slip<Name> is <Name> as a plausible mistake would     *)
(* have it; no specification uses it, and some property must notice it.    *)
(***************************************************************************)
EXTENDS Integers, FiniteSets

CONSTANTS
    Users,    \* the authenticated callers
    Owners,   \* those whose e-mail is OWNER_EMAIL: no budget applies to them
    NoUser,
    ConvIds,
    NoConv,
    Reqs,     \* the requests that can be in progress at a time
    Budget,   \* DAILY_TOKEN_BUDGET
    MaxCost,  \* the most tokens one model call uses
    MaxId,    \* bound: message ids drawn in a behaviour
    Faults    \* what may fail: "statement", "read", "upstream", "abandon"

ASSUME ChatAssumption ==
    /\ NoUser \notin Users /\ NoConv \notin ConvIds
    /\ Owners \subseteq Users
    /\ IsFiniteSet(Reqs)
    /\ Budget \in Nat \ {0}      \* getenvInt refuses anything else
    /\ MaxCost \in Nat /\ MaxId \in Nat
    /\ Faults \subseteq {"statement", "read", "upstream", "abandon"}

VARIABLES
    conv,      \* the conversations table, and whom a deleted id belonged to
    messages,  \* the messages table
    nextId,    \* the sequence behind messages.id
    used,      \* the sum of a user's token_usage rows of the last 24 hours
    req        \* the requests in progress

vars == <<conv, messages, nextId, used, req>>

Pcs == {"idle", "reading", "checked", "admitted", "saving", "saved",
        "streaming", "streamed", "replying", "replied", "bumped", "recorded"}

Begun(p, u, c) == [pc |-> p, user |-> u, conv |-> c, ask |-> 0, reply |-> 0,
                   first |-> FALSE, cost |-> 0]
IdleReq == Begun("idle", NoUser, NoConv)

Untitled     == [by |-> "none", ask |-> 0]
UserTitle    == [by |-> "user", ask |-> 0]
AutoTitle(q) == [by |-> "first", ask |-> q]

Row(s, u) == [status |-> s, user |-> u, title |-> Untitled, bumped |-> FALSE]

UserRow(c, i) == [id |-> i, conv |-> c, role |-> "user", ask |-> i]
\* Slip: the reply forgets which question it answers.
SlipAssistantRow(c, i, q) == [id |-> i, conv |-> c, role |-> "assistant", ask |-> 0]

AssistantRow(c, i, q) == [id |-> i, conv |-> c, role |-> "assistant", ask |-> q]

Title        == [by : {"none", "user", "first"}, ask : 0..MaxId]
Conversation == [status : {"unborn", "live", "deleted"},
                 user : Users \cup {NoUser}, title : Title, bumped : BOOLEAN]
Message      == [id : 1..MaxId, conv : ConvIds, role : {"user", "assistant"},
                 ask : 1..MaxId]
Request      == [pc : Pcs, user : Users \cup {NoUser},
                 conv : ConvIds \cup {NoConv}, ask : 0..MaxId,
                 reply : 0..MaxId, first : BOOLEAN, cost : 0..MaxCost]

TypeOK ==
    /\ conv \in [ConvIds -> Conversation]
    /\ messages \subseteq Message
    /\ nextId \in 1..(MaxId + 1)
    /\ used \in [Users -> Nat]
    /\ req \in [Reqs -> Request]

Init ==
    /\ conv = [c \in ConvIds |-> Row("unborn", NoUser)]
    /\ messages = {}
    /\ nextId = 1
    /\ used = [u \in Users |-> 0]
    /\ req = [r \in Reqs |-> IdleReq]

-----------------------------------------------------------------------------
(* What the statements read.                                               *)

Live(c)     == conv[c].status = "live"
Owned(u, c) == Live(c) /\ conv[c].user = u   \* where id = $1 and user_id = $2
History(c)  == {m \in messages : m.conv = c} \* where conversation_id = $1

\* Slip: the id of a deleted conversation is given out again.
SlipFreeConv(c) == conv[c].status # "live"

FreeConv(c) == conv[c].status = "unborn"  \* a bigserial never repeats an id

\* Slip: the first message is told by the absence of a reply.
SlipIsFirst(c) == \A m \in History(c) : m.role = "user"

IsFirst(c) == Cardinality(History(c)) = 1

\* Nobody asks rows.Err: a read that fails half-way passes for the whole, and
\* any beginning of the history may count one row.
CutShort(c) == {b \in BOOLEAN : "read" \in Faults /\ (b => History(c) # {})}

\* Slip: a user exactly at the budget is let in.
SlipWithinBudget(u) == used[u] <= Budget

WithinBudget(u) == used[u] < Budget

\* The owner's e-mail is compared with the user's; a failed lookup is not one.
OwnerLookup(u) == {u \in Owners} \cup
                  (IF "statement" \in Faults THEN {FALSE} ELSE {})

At(r, p) == req[r].pc = p
Goto(r, p) == req' = [req EXCEPT ![r] = [@ EXCEPT !.pc = p]]
Return(r)  == req' = [req EXCEPT ![r] = IdleReq]

\* Bound: a request starts only if it and those in progress find their ids.
Room == nextId + 2 * Cardinality({r \in Reqs : ~At(r, "idle")}) < MaxId

-----------------------------------------------------------------------------
(* Handlers of one statement: Create, Rename, Delete.  Their errors and    *)
(* 404s, like those of List and Usage, change nothing.                     *)

Create(u, c) ==
    /\ FreeConv(c)
    /\ conv' = [conv EXCEPT ![c] = Row("live", u)]
    /\ UNCHANGED <<messages, nextId, used, req>>

Rename(u, c) ==
    /\ Owned(u, c)
    /\ conv' = [conv EXCEPT ![c].title = UserTitle]
    /\ UNCHANGED <<messages, nextId, used, req>>

\* Slip: only the user's messages go with the conversation.
SlipAfterDelete(c) == {m \in messages : m.role = "user" => m.conv # c}

AfterDelete(c) == messages \ History(c)      \* on delete cascade

Delete(u, c) ==
    /\ Owned(u, c)
    /\ conv' = [conv EXCEPT ![c] = Row("deleted", u)]
    /\ messages' = AfterDelete(c)
    /\ UNCHANGED <<nextId, used, req>>

-----------------------------------------------------------------------------
(* Messages: the ownership check, then the read, which names no user.      *)

MessagesCheck(r, u, c) ==
    /\ At(r, "idle")
    /\ Owned(u, c)
    /\ req' = [req EXCEPT ![r] = Begun("reading", u, c)]
    /\ UNCHANGED <<conv, messages, nextId, used>>

MessagesRead(r) ==
    /\ At(r, "reading")
    /\ Return(r)
    /\ UNCHANGED <<conv, messages, nextId, used>>

-----------------------------------------------------------------------------
(* Send.                                                                   *)

SendCheck(r, u, c) ==
    /\ At(r, "idle") /\ Room
    /\ Owned(u, c)
    /\ req' = [req EXCEPT ![r] = Begun("checked", u, c)]
    /\ UNCHANGED <<conv, messages, nextId, used>>

Admits(u, owner) == owner \/ WithinBudget(u)

SendAdmit(r) ==
    /\ At(r, "checked")
    /\ \E owner \in OwnerLookup(req[r].user) : Admits(req[r].user, owner)
    /\ Goto(r, "admitted")
    /\ UNCHANGED <<conv, messages, nextId, used>>

\* 400 for a bad body at any time, 429 when the budget is spent.
SendRefuse(r) ==
    /\ At(r, "checked")
    /\ Return(r)
    /\ UNCHANGED <<conv, messages, nextId, used>>

SendDrawId(r) ==
    /\ At(r, "admitted")
    /\ nextId <= MaxId
    /\ nextId' = nextId + 1
    /\ req' = [req EXCEPT ![r] = [@ EXCEPT !.pc = "saving", !.ask = nextId]]
    /\ UNCHANGED <<conv, messages, used>>

\* A foreign key refuses the row of a conversation deleted since the check.
SendSave(r) ==
    /\ At(r, "saving")
    /\ \/ /\ Live(req[r].conv)
          /\ messages' = messages \cup {UserRow(req[r].conv, req[r].ask)}
          /\ Goto(r, "saved")
       \/ /\ ~Live(req[r].conv)
          /\ Return(r)
          /\ UNCHANGED messages
    /\ UNCHANGED <<conv, nextId, used>>

SendHistory(r) ==
    /\ At(r, "saved")
    /\ \E b \in {IsFirst(req[r].conv)} \cup CutShort(req[r].conv) :
          req' = [req EXCEPT ![r] = [@ EXCEPT !.pc = "streaming", !.first = b]]
    /\ UNCHANGED <<conv, messages, nextId, used>>

\* The whole reply has been relayed; its usage is what the last chunk said.
SendStream(r) ==
    /\ At(r, "streaming")
    /\ \E n \in 0..MaxCost :
          req' = [req EXCEPT ![r] = [@ EXCEPT !.pc = "streamed", !.cost = n]]
    /\ UNCHANGED <<conv, messages, nextId, used>>

\* Slip: a conversation is named even when its first stream fails.
SlipSendStreamFails(r) ==
    /\ At(r, "streaming")
    /\ "upstream" \in Faults
    /\ conv' = IF req[r].first /\ Live(req[r].conv)
               THEN [conv EXCEPT ![req[r].conv].title = AutoTitle(req[r].ask)]
               ELSE conv
    /\ Return(r)
    /\ UNCHANGED <<messages, nextId, used>>

SendStreamFails(r) ==
    /\ At(r, "streaming")
    /\ "upstream" \in Faults
    /\ Return(r)
    /\ UNCHANGED <<conv, messages, nextId, used>>

SendDrawReplyId(r) ==
    /\ At(r, "streamed")
    /\ nextId <= MaxId
    /\ nextId' = nextId + 1
    /\ req' = [req EXCEPT ![r] = [@ EXCEPT !.pc = "replying",
                                           !.reply = nextId]]
    /\ UNCHANGED <<conv, messages, used>>

\* Slip: the reply waits for a conversation that is gone.
SlipSendReply(r) ==
    /\ At(r, "replying")
    /\ Live(req[r].conv)
    /\ messages' = messages \cup
          {AssistantRow(req[r].conv, req[r].reply, req[r].ask)}
    /\ Goto(r, "replied")
    /\ UNCHANGED <<conv, nextId, used>>

SendReply(r) ==
    /\ At(r, "replying")
    /\ \/ /\ Live(req[r].conv)
          /\ messages' = messages \cup
                {AssistantRow(req[r].conv, req[r].reply, req[r].ask)}
          /\ Goto(r, "replied")
       \/ /\ ~Live(req[r].conv)
          /\ Return(r)
          /\ UNCHANGED messages
    /\ UNCHANGED <<conv, nextId, used>>

\* Slip: no row to bump ends the request.
SlipSendBump(r) ==
    /\ At(r, "replied")
    /\ conv' = IF Live(req[r].conv)
               THEN [conv EXCEPT ![req[r].conv].bumped = TRUE]
               ELSE conv
    /\ IF Live(req[r].conv) THEN Goto(r, "bumped") ELSE Return(r)
    /\ UNCHANGED <<messages, nextId, used>>

SendBump(r) ==
    /\ At(r, "replied")
    /\ conv' = IF Live(req[r].conv)
               THEN [conv EXCEPT ![req[r].conv].bumped = TRUE]
               ELSE conv
    /\ Goto(r, "bumped")
    /\ UNCHANGED <<messages, nextId, used>>

SendRecord(r) ==
    /\ At(r, "bumped")
    /\ used' = [used EXCEPT ![req[r].user] = @ + req[r].cost]
    /\ Goto(r, "recorded")
    /\ UNCHANGED <<conv, messages, nextId>>

TakesTitle(r) == req[r].first /\ Live(req[r].conv)

SendFinish(r) ==
    /\ At(r, "recorded")
    /\ conv' = IF TakesTitle(r)
               THEN [conv EXCEPT ![req[r].conv].title = AutoTitle(req[r].ask)]
               ELSE conv
    /\ Return(r)
    /\ UNCHANGED <<messages, nextId, used>>

-----------------------------------------------------------------------------
(* What goes wrong, and the clock.                                         *)

\* A failing statement ends the request, but for the three whose error is
\* dropped or only logged: the bump, the usage row and the title.
Fatal == {"reading", "checked", "admitted", "saving", "saved", "streamed",
          "replying"}

StatementFails(r) ==
    /\ "statement" \in Faults
    /\ \/ req[r].pc \in Fatal /\ Return(r)
       \/ At(r, "replied") /\ Goto(r, "bumped")
       \/ At(r, "bumped") /\ Goto(r, "recorded")
       \/ At(r, "recorded") /\ Return(r)
    /\ UNCHANGED <<conv, messages, nextId, used>>

\* The client goes away, which cancels the context every later statement
\* runs in, or the process dies: what is done is done, nothing more follows.
Abandon(r) ==
    /\ "abandon" \in Faults
    /\ ~At(r, "idle")
    /\ Return(r)
    /\ UNCHANGED <<conv, messages, nextId, used>>

\* Usage rows leave the 24-hour window.
Age(u) ==
    /\ used[u] > 0
    /\ \E n \in 0..(used[u] - 1) : used' = [used EXCEPT ![u] = n]
    /\ UNCHANGED <<conv, messages, nextId, req>>

Serve(r) ==
    \/ MessagesRead(r)
    \/ SendAdmit(r) \/ SendRefuse(r) \/ SendDrawId(r) \/ SendSave(r)
    \/ SendHistory(r) \/ SendStream(r) \/ SendStreamFails(r)
    \/ SendDrawReplyId(r) \/ SendReply(r) \/ SendBump(r) \/ SendRecord(r)
    \/ SendFinish(r)

Next ==
    \/ \E u \in Users, c \in ConvIds :
          \/ Create(u, c) \/ Rename(u, c) \/ Delete(u, c)
          \/ \E r \in Reqs : MessagesCheck(r, u, c) \/ SendCheck(r, u, c)
    \/ \E r \in Reqs : Serve(r) \/ StatementFails(r) \/ Abandon(r)
    \/ \E u \in Users : Age(u)

Spec == Init /\ [][Next]_vars

\* The Go scheduler runs every request, and Cloud Run cuts one that waits for
\* a silent upstream after an hour, so each request keeps taking steps.
FairSpec == Spec /\ \A r \in Reqs : WF_vars(Serve(r))

-----------------------------------------------------------------------------
(* Safety.                                                                 *)

\* The statements after the ownership check name no user, and the check may
\* be seconds old (chat.go:107, 239, 293, 302, 314).  They still touch the
\* caller's conversation only, because an id never changes hands.
OwnershipHolds ==
    \A r \in Reqs : ~At(r, "idle") =>
        /\ conv[req[r].conv].status # "unborn"
        /\ conv[req[r].conv].user = req[r].user

\* The budget is read once, before a stream that is paid for after it: the
\* requests in progress may overshoot it, by one call each and no more.
BudgetOvershootBounded ==
    \A u \in Users \ Owners :
        used[u] <= Budget - 1 + MaxCost * Cardinality(Reqs)

\* As long as histories are read whole, at most one request of a
\* conversation's whole life thinks it is the first, however the sends
\* interleave: nothing else stops a second automatic title from replacing the
\* first (chat.go:265, 311).
Namers(c) == {r \in Reqs : req[r].first /\ req[r].conv = c}

OneNamer ==
    \A c \in ConvIds : Live(c) =>
        /\ Cardinality(Namers(c)) <= 1
        /\ conv[c].title.by = "first" => Namers(c) = {}

\* An answer, and nothing less, moves a conversation up in the list or names it:
\* not a rename, a question without a reply, a failed stream.  The name is of a
\* question of this very conversation that has been answered; it is set by the
\* conversation's id alone, long after the question was saved (chat.go:302, 314).
MarksOfAnAnswer ==
    \A c \in ConvIds :
        /\ conv[c].bumped => \E a \in History(c) : a.role = "assistant"
        /\ Live(c) /\ conv[c].title.by = "first" =>
              \E m, a \in History(c) :
                 /\ m.role = "user" /\ a.role = "assistant"
                 /\ m.id = conv[c].title.ask /\ a.ask = m.id

\* The tables and handlers implement the transcripts of module Transcript:
\* through any interleaving and failure a transcript gains whole questions
\* and single answers to its own questions, and loses nothing but its life.
T == INSTANCE Transcript WITH
        owner <- [c \in ConvIds |-> conv[c].user],
        open  <- {c \in ConvIds : Live(c)},
        log   <- messages,
        Ids   <- 1..MaxId

ImplementsTranscript == T!TSpec

-----------------------------------------------------------------------------
(* Liveness, where no statement fails and no client leaves.                *)

\* A request that starts also ends.
SendEnds == \A r \in Reqs : ~At(r, "idle") ~> At(r, "idle")

\* Once its reply is stored a call is charged to the user, even when the
\* conversation is deleted in between (usage_test.go:60).
ReplyIsCharged ==
    \A r \in Reqs, u \in Users, n \in 1..MaxCost :
        At(r, "replied") /\ req[r].user = u /\ req[r].cost = n
            ~> At(r, "recorded") /\ req[r].user = u /\ used[u] >= n

-----------------------------------------------------------------------------
(* What the code says of itself and does not do.                           *)

\* usage.go:11: the ledger holds "the prompt/completion token count for one
\* completed LLM call": a completed call leaves only once it is charged.
CompletedCallsCharged ==
    [][\A r \in Reqs :
          req[r].cost > 0 /\ req'[r].pc = "idle" => At(r, "recorded")]_vars
=============================================================================
