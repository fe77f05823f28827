---------------------------- MODULE MessagesProofs ----------------------------
(* Theorems about MessagesStore, for every value of its constants.         *)
EXTENDS MessagesStore, TLAPS

(***************************************************************************)
(* Types.  A call that was made is one of a conversation.                  *)
(***************************************************************************)
Used(k) == call[k].at # "unused"

TypeInv == TypeOK /\ \A k \in Sends : Used(k) => call[k].conv \in ConvIds

(***************************************************************************)
(* Waits.  Loading is left for good: a conversation that is shown as it,   *)
(* and not fetched, is one that nothing was ever done with.                *)
(***************************************************************************)
Untouched(c) == view[c].loading /\ fetch[c].at = "none"

Fresh(c) == /\ view[c] = LOADING /\ c \notin loaded
            /\ \A k \in Sends : Used(k) => call[k].conv # c

\* The button of a conversation stops a call of that conversation.
OwnController(c) ==
    controllers[c] # NoSend => Used(controllers[c]) /\ call[controllers[c]].conv = c

Served(c) == view[c].sending => \E k \in Sends : /\ call[k].conv = c
                                                 /\ call[k].at \in Running \cup {"lost"}

\* What a failed load leaves, and what a failed send leaves.
Refused(c) == Unloadable(c) => fetch[c].at # "none" \/ c \notin loaded

Waits(c) == /\ Untouched(c) => Fresh(c)
            /\ OwnController(c)
            /\ Served(c)
            /\ Refused(c)

WaitInv == \A c \in ConvIds : Waits(c)

(***************************************************************************)
(* Texts.  What the server has stored of a call, each row once; a page has *)
(* rows of it, or the optimistic messages, and never both.                 *)
(***************************************************************************)
Once(ms) == \A m, n \in ms : m.send = n.send /\ m.role = n.role => m = n

Question(k) == Text(k, "user", 0, FALSE)
Whole(k)    == Text(k, "assistant", call[k].text, FALSE)

RowsOf(k) ==
    /\ call[k].at \in {"open", "answered", "done"} => Question(k) \in stored
    /\ call[k].at \in {"answered", "done"} => Whole(k) \in stored

RowOK(m) ==
    /\ ~m.temp /\ call[m.send].at \notin {"unused", "posted"}
    /\ m.role = "user" => m.text = 0
    /\ m.role = "assistant" => call[m.send].at \notin {"open", "failed"}

MessageOK(c, m) ==
    /\ Used(m.send) /\ call[m.send].conv = c
    /\ ~m.temp => m \in stored
    /\ Streaming(m) => m.text = call[m.send].text

StoredInv == /\ \A m \in stored : RowOK(m)
             /\ Once(stored)
             /\ \A k \in Sends : RowsOf(k)

PageInv(c) == /\ \A m \in fetch[c].rows : m \in stored /\ call[m.send].conv = c
              /\ \A m \in view[c].messages : MessageOK(c, m)
              /\ Once(view[c].messages)

TextInv == StoredInv /\ \A c \in ConvIds : PageInv(c)

(***************************************************************************)
(* Streams.  A send waited for the messages to be there, and sendNew found *)
(* nothing under way, so that no answer of a load comes between a stream   *)
(* and its end.                                                            *)
(***************************************************************************)
Streams(c)    == {m.send : m \in {n \in view[c].messages : Streaming(n)}}
AskedIn(c, k) == \E m \in view[c].messages : m.send = k /\ m.role = "user"
ShownIn(c, k) == Whole(k) \in view[c].messages /\ AskedIn(c, k)
DoneIn(c)     == {k \in Sends : At(k, "done") /\ call[k].conv = c}

Sound(c) ==
    /\ view[c].sending <=> RunningIn(c) # {}
    /\ RunningIn(c) = {controllers[c]} \ {NoSend}
    /\ Streams(c) = RunningIn(c)
    /\ RunningIn(c) # {} => c \in loaded /\ fetch[c].at = "none"
    /\ fetch[c].at = "read" =>
          \A k \in DoneIn(c) : {Question(k), Whole(k)} \subseteq fetch[c].rows
    /\ \A k \in RunningIn(c) : AskedIn(c, k)
    /\ \A k \in DoneIn(c) : ShownIn(c, k)

StreamInv == \A c \in ConvIds \ upset : Sound(c)

-----------------------------------------------------------------------------
(* Types.                                                                  *)

Views == [messages : SUBSET Messages, loading : BOOLEAN, error : BOOLEAN,
          notFound : BOOLEAN, sending : BOOLEAN]
Calls == [at : {"unused", "done", "failed", "stopped", "lost"} \cup Running,
          conv : ConvIds \cup {"none"}, text : 0..MaxText]
Fetches == [at : {"none", "asked", "read"}, found : BOOLEAN, rows : SUBSET Messages]

LEMMA Types ==
    ASSUME TypeInv
    PROVE  /\ view \in [ConvIds -> Views] /\ call \in [Sends -> Calls]
           /\ fetch \in [ConvIds -> Fetches]
           /\ \A k \in Sends : Used(k) => call[k].conv \in ConvIds
           /\ controllers \in [ConvIds -> Sends \cup {NoSend}]
           /\ stored \subseteq Messages
BY DEF TypeInv, TypeOK, Views, Calls, Fetches

LEMMA TextTyped ==
    ASSUME NEW k \in Sends, NEW n \in 0..MaxText, NEW temp \in BOOLEAN
    PROVE  /\ Text(k, "user", n, temp) \in Messages
           /\ Text(k, "assistant", n, temp) \in Messages
BY DEF Text, Messages

LEMMA NoText == 0 \in 0..MaxText
BY StoreAssumption DEF StoreAssumption

LEMMA FilledTyped == ASSUME NEW ms \in SUBSET Messages PROVE Filled(ms) \in Views
BY DEF Filled, LOADING, Views

LEMMA OptimisticTyped ==
    ASSUME NEW v \in Views, NEW k \in Sends
    PROVE  Optimistic(v, k) \in Views
<1>1. v.messages \in SUBSET Messages
  BY DEF Views
<1>2. Text(k, "user", 0, TRUE) \in Messages /\ Text(k, "assistant", 0, TRUE) \in Messages
  BY TextTyped, NoText
<1>3. QED BY <1>1, <1>2 DEF Optimistic, Views

LEMMA StoppedTyped == ASSUME NEW v \in Views PROVE Stopped(v) \in Views
BY DEF Stopped, Views

\* What a step of a call leaves of the calls.
LEMMA GotoMoves ==
    ASSUME TypeInv, NEW k \in Sends, NEW p, Goto(k, p)
    PROVE  /\ \A j \in Sends : j # k => call'[j] = call[j]
           /\ call'[k].at = p /\ call'[k].conv = call[k].conv
           /\ call'[k].text = call[k].text
           /\ call'[k] = [call[k] EXCEPT !.at = p]
BY Types DEF Goto, Calls

LEMMA InitTyped == Init => TypeInv
BY NoText DEF Init, TypeInv, TypeOK, LOADING, NoFetch, Used, ConvIds, Running

LEMMA VisitTyped ==
    ASSUME TypeInv, NEW c \in ConvIds, Visit(c) \/ Load(c) \/ Stop(c) \/ Create(c)
    PROVE  TypeInv'
<1>1. view[c] \in Views /\ fetch[c] \in Fetches
  BY Types
<1>2. CASE Visit(c)
  <2>1. [NoFetch EXCEPT !.at = "asked"] \in Fetches
    BY DEF NoFetch, Fetches
  <2>2. fetch' \in [ConvIds -> Fetches]
    BY <1>2, <2>1, Types DEF Visit
  <2>3. QED BY <1>2, <2>2 DEF Visit, TypeInv, TypeOK, Fetches, Used
<1>7. CASE Create(c)
  BY <1>7 DEF Create, TypeInv, TypeOK, Used
<1>3. CASE FetchReads(c)
  <2>1. fetch' \in [ConvIds -> Fetches]
    BY <1>3, Types DEF FetchReads, Fetches
  <2>2. QED BY <1>3, <2>1 DEF FetchReads, TypeInv, TypeOK, Fetches, Used
<1>4. CASE LoadDone(c) \/ LoadFails(c)
  <2>1. NoFetch \in Fetches
    BY DEF NoFetch, Fetches
  <2>2. Filled(Answer(c)) \in Views
    BY <1>1, FilledTyped DEF Fetches, Answer
  <2>3. \A nf \in BOOLEAN : FailedLoad(c, nf) \in Views
    BY <1>1 DEF FailedLoad, Views
  <2>4. fetch' \in [ConvIds -> Fetches] /\ view' \in [ConvIds -> Views]
    BY <1>4, <2>1, <2>2, <2>3, Types DEF LoadDone, LoadFails, Patch
  <2>5. QED
    BY <1>4, <2>4 DEF LoadDone, LoadFails, TypeInv, TypeOK, Fetches, Views, Used
<1>5. CASE Stop(c)
  <2>1. view' \in [ConvIds -> Views]
    BY <1>1, <1>5, StoppedTyped, Types DEF Stop, Patch
  <2>2. controllers' \in [ConvIds -> Sends \cup {NoSend}]
    BY <1>5, Types DEF Stop
  <2>3. call' \in [Sends -> Calls] /\ \A k \in Sends : Used(k)' => call'[k].conv \in ConvIds
    <3>1. PICK k \in Sends \cup {NoSend} : k = controllers[c]
      BY Types
    <3>2. CASE k \in Sends /\ call[k].at \in Running
      <4>1. Goto(k, "stopped")
        BY <1>5, <3>1, <3>2, StoreAssumption DEF Stop, Abort, StoreAssumption
      <4>2. [call[k] EXCEPT !.at = "stopped"] \in Calls
        BY <3>2, Types DEF Calls
      <4>3. call' \in [Sends -> Calls]
        BY <4>1, <4>2, Types DEF Goto
      <4>4. QED BY <3>2, <4>1, <4>3, GotoMoves, Types DEF Used, Running
    <3>3. CASE ~(k \in Sends /\ call[k].at \in Running)
      <4>1. call' = call
        BY <1>5, <3>1, <3>3 DEF Stop, Abort
      <4>2. QED BY <4>1, Types DEF Used
    <3>4. QED BY <3>2, <3>3
  <2>4. QED
    BY <1>5, <2>1, <2>2, <2>3 DEF Stop, TypeInv, TypeOK, Views, Calls
<1>6. QED BY <1>2, <1>3, <1>4, <1>5, <1>7 DEF Load

LEMMA SendTyped ==
    ASSUME TypeInv, NEW c \in ConvIds, NEW k \in Sends, Send(c, k) \/ SendNew(c, k)
    PROVE  TypeInv'
<1>1. PICK v \in Views : Begin(c, k, v)
  BY Types, FilledTyped DEF Send, SendNew, FirstSend
<1>2. view' \in [ConvIds -> Views]
  BY <1>1, OptimisticTyped, Types DEF Begin, Patch
<1>3. controllers' \in [ConvIds -> Sends \cup {NoSend}]
  BY <1>1, Types DEF Begin
<1>4. call' \in [Sends -> Calls] /\ \A j \in Sends : Used(j)' => call'[j].conv \in ConvIds
  <2>1. [at |-> "posted", conv |-> c, text |-> 0] \in Calls
    BY NoText DEF Calls, Running
  <2>2. QED BY <1>1, <2>1, Types DEF Begin, Used
<1>5. /\ loaded' \subseteq ConvIds /\ exists' = exists
      /\ creating' \subseteq creating /\ upset' \subseteq ConvIds
      /\ UNCHANGED <<fetch, stored>>
  BY <1>1 DEF Send, SendNew, FirstSend, Begin, TypeInv, TypeOK
<1>6. QED
  BY <1>2, <1>3, <1>4, <1>5 DEF TypeInv, TypeOK, Views, Calls

\* What the events of a stream make of the messages.
LEMMA MessagesTyped ==
    ASSUME TypeInv, NEW c \in ConvIds, NEW k \in Sends
    PROVE  /\ Answered(c, k) \in Views /\ Failed(c, k) \in Views
           /\ (\A m \in view[c].messages : Bubble(m, k) => m.text < MaxText)
                 => {WithDelta(m, k) : m \in view[c].messages} \subseteq Messages
<1>1. view[c] \in Views /\ view[c].messages \in SUBSET Messages
  BY Types DEF Views
<1>2. \A m \in Messages : Settled(m, k) \in Messages
  BY DEF Settled, Messages
<1>3. ASSUME NEW m \in Messages, Bubble(m, k) => m.text < MaxText
      PROVE  WithDelta(m, k) \in Messages
  <2>1. m.text \in 0..MaxText
    BY DEF Messages
  <2>2. Bubble(m, k) => m.text + 1 \in 0..MaxText
    BY <1>3, <2>1, StoreAssumption DEF StoreAssumption
  <2>3. QED BY <2>2 DEF WithDelta, Messages
<1>4. Answered(c, k) \in Views
  <2>1. {Settled(m, k) : m \in view[c].messages} \in SUBSET Messages
    BY <1>1, <1>2
  <2>2. QED BY <1>1, <2>1 DEF Answered, Views
<1>5. Failed(c, k) \in Views
  BY <1>1 DEF Failed, Views
<1>6. QED BY <1>1, <1>3, <1>4, <1>5

LEMMA ServeTyped ==
    ASSUME TypeInv, TextInv, NEW k \in Sends, Serve(k) \/ Lost(k) \/ StoresLate(k)
    PROVE  TypeInv'
<1> DEFINE c == call[k].conv
<1>0. call[k] \in Calls /\ call[k].text \in 0..MaxText
  BY Types DEF Calls
<1>1. UNCHANGED call \/ (Used(k) /\ c \in ConvIds)
  BY Types DEF Serve, Accept, Delta, Reply, Done, Fail, Lost, StoresLate, At, Used,
               Running
<1>2. call' \in [Sends -> Calls] /\ \A j \in Sends : Used(j)' => call'[j].conv \in ConvIds
  <2>1. CASE \E p \in Running \cup {"done", "failed", "lost"} : Goto(k, p)
    <3>1. PICK p \in Running \cup {"done", "failed", "lost"} : Goto(k, p)
      BY <2>1
    <3>2. [call[k] EXCEPT !.at = p] \in Calls
      BY <1>0 DEF Calls
    <3>3. call' \in [Sends -> Calls]
      BY <3>1, <3>2, Types DEF Goto
    <3>4. UNCHANGED call \/ c \in ConvIds
      BY <1>1
    <3>5. QED BY <3>1, <3>3, <3>4, GotoMoves, Types DEF Used
  <2>2. CASE Delta(k)
    <3>1. call[k].text + 1 \in 0..MaxText
      BY <1>0, <2>2, StoreAssumption DEF Delta, StoreAssumption
    <3>2. [call[k] EXCEPT !.text = @ + 1] \in Calls
      BY <1>0, <3>1 DEF Calls
    <3>3. call' = [call EXCEPT ![k] = [call[k] EXCEPT !.text = @ + 1]]
      BY <1>0, <2>2 DEF Delta, Calls
    <3>4. call' \in [Sends -> Calls]
      BY <3>2, <3>3, Types
    <3>5. \A j \in Sends : call'[j].at = call[j].at /\ call'[j].conv = call[j].conv
      BY <1>0, <3>3, Types DEF Calls
    <3>6. QED BY <3>4, <3>5, Types DEF Used
  <2>3. CASE UNCHANGED call
    BY <2>3, Types DEF Used
  <2>4. QED
    BY <2>1, <2>2, <2>3
    DEF Serve, Accept, Reply, Done, Fail, Lost, StoresLate, Running
<1>3. stored' \subseteq Messages
  <2> DEFINE replies == {Text(k, "assistant", n, FALSE) : n \in 0..MaxText}
  <2>1. Text(k, "user", 0, FALSE) \in Messages
    BY TextTyped, NoText
  <2>2. replies \subseteq Messages
    BY TextTyped
  <2>3. call[k].text..MaxText \subseteq 0..MaxText
    BY <1>0
  <2>4. stored' \subseteq stored \cup {Text(k, "user", 0, FALSE)} \cup replies
    <3>1. CASE StoresLate(k)
      BY <2>3, <3>1 DEF StoresLate
    <3>2. CASE Accept(k) \/ Fail(k)
      BY <3>2 DEF Accept, Fail
    <3>3. CASE Reply(k)
      BY <1>0, <3>3 DEF Reply
    <3>4. QED BY <3>1, <3>2, <3>3 DEF Serve, Delta, Done, Lost
  <2>5. QED BY <2>1, <2>2, <2>4, Types
<1>4. view' \in [ConvIds -> Views]
  <2>1. CASE Delta(k)
    <3>1. c \in ConvIds /\ At(k, "open") /\ call[k].text < MaxText
      BY <1>1, <2>1, Types DEF Delta, At, Used
    <3>2. \A m \in view[c].messages : Bubble(m, k) => m.text < MaxText
      BY <3>1 DEF TextInv, PageInv, MessageOK, Bubble, Streaming
    <3>3. {WithDelta(m, k) : m \in view[c].messages} \in SUBSET Messages
      BY <3>1, <3>2, MessagesTyped
    <3>4. [view[c] EXCEPT !.messages = {WithDelta(m, k) : m \in view[c].messages}]
             \in Views
      BY <3>1, <3>3, Types DEF Views
    <3>5. QED BY <2>1, <3>1, <3>4, Types DEF Delta, Patch
  <2>2. CASE Done(k) \/ Fail(k)
    <3>1. c \in ConvIds
      BY <2>2, Types DEF Done, Fail, At, Used
    <3>2. Answered(c, k) \in Views /\ Failed(c, k) \in Views
      BY <3>1, MessagesTyped
    <3>3. view' \in {[view EXCEPT ![c] = Answered(c, k)],
                     [view EXCEPT ![c] = Failed(c, k)]}
      BY <2>2 DEF Done, Fail, Patch
    <3>4. QED BY <3>1, <3>2, <3>3, Types
  <2>3. QED
    BY <2>1, <2>2, Types DEF Serve, Accept, Reply, Lost, StoresLate
<1>5. controllers' \in [ConvIds -> Sends \cup {NoSend}]
  BY Types DEF Serve, Accept, Delta, Reply, Done, Fail, Lost, StoresLate
<1>6. upset' \subseteq ConvIds /\ UNCHANGED <<loaded, fetch, creating, exists>>
  BY <1>1, Types
  DEF Serve, Accept, Delta, Reply, Done, Fail, Lost, StoresLate, TypeInv, TypeOK,
      Used, Running
<1>7. QED
  BY <1>2, <1>3, <1>4, <1>5, <1>6 DEF TypeInv, TypeOK, Views, Calls

\* What a step is a step of.
LEMMA Steps ==
    ASSUME Next
    PROVE  \/ \E c \in ConvIds : Visit(c) \/ Load(c) \/ Stop(c) \/ Create(c)
           \/ \E c \in ConvIds, k \in Sends : Send(c, k) \/ SendNew(c, k)
           \/ \E k \in Sends : Serve(k) \/ Lost(k) \/ StoresLate(k)
BY DEF Next

LEMMA NextTyped == TypeInv /\ TextInv /\ [Next]_vars => TypeInv'
<1>1. CASE UNCHANGED vars
  BY <1>1 DEF vars, TypeInv, TypeOK, Used
<1>2. QED BY <1>1, Steps, VisitTyped, SendTyped, ServeTyped

-----------------------------------------------------------------------------
(* What the server has stored.                                             *)

LEMMA OnceMore ==
    ASSUME NEW ms, Once(ms), NEW r,
           \A m \in ms : m.send = r.send /\ m.role = r.role => m = r
    PROVE  Once(ms \cup {r})
BY DEF Once

\* A call ends, or its answer is handled.
LEMMA StoredAfter ==
    ASSUME TypeInv, StoredInv, NEW k \in Sends, NEW p \in {"done", "failed",
           "stopped", "lost"}, Goto(k, p), Used(k), ~At(k, "posted"),
           p = "done" => At(k, "answered"), p = "failed" => At(k, "open"),
           stored' = stored
    PROVE  StoredInv'
<1>1. ASSUME NEW m \in stored
      PROVE  RowOK(m)'
  <2>1. m.send \in Sends /\ RowOK(m)
    BY Types DEF StoredInv, Messages
  <2>2. CASE m.send = k
    BY <2>1, <2>2, GotoMoves DEF RowOK, At
  <2>3. CASE m.send # k
    BY <2>1, <2>3, GotoMoves DEF RowOK
  <2>4. QED BY <2>2, <2>3
<1>2. \A j \in Sends : RowsOf(j)'
  BY GotoMoves DEF StoredInv, RowsOf, Question, Whole, At
<1>3. QED BY <1>1, <1>2 DEF StoredInv, Once

\* The same of a call that nothing was stored of yet.
LEMMA StoredBefore ==
    ASSUME TypeInv, StoredInv, NEW k \in Sends, NEW p \in {"open", "failed",
           "stopped", "lost"}, Goto(k, p), At(k, "posted"),
           \/ p # "open" /\ stored' = stored
           \/ p \in {"open", "failed"} /\ stored' = stored \cup {Question(k)}
    PROVE  StoredInv'
<1>0. \A m \in stored : m.send \in Sends /\ m.send # k
  BY Types DEF StoredInv, RowOK, Messages, At
<1>1. \A m \in stored : RowOK(m)'
  BY <1>0, GotoMoves DEF StoredInv, RowOK
<1>2. stored' = stored \cup {Question(k)} => RowOK(Question(k))'
  BY GotoMoves DEF RowOK, Question, Text
<1>3. Once(stored')
  BY <1>0, OnceMore DEF StoredInv, Question, Text
<1>4. \A j \in Sends : RowsOf(j)'
  BY GotoMoves DEF StoredInv, RowsOf, Question, Whole
<1>5. QED BY <1>1, <1>2, <1>3, <1>4 DEF StoredInv

LEMMA StoredStep == TypeInv /\ StoredInv /\ [Next]_vars => StoredInv'
<1> SUFFICES ASSUME TypeInv, StoredInv, [Next]_vars PROVE StoredInv'
  OBVIOUS
<1>1. CASE UNCHANGED <<call, stored>>
  BY <1>1 DEF StoredInv, RowOK, Once, RowsOf, Question, Whole
<1>2. ASSUME NEW c \in ConvIds, NEW k \in Sends, Send(c, k) \/ SendNew(c, k)
      PROVE  StoredInv'
  <2>1. /\ At(k, "unused") /\ stored' = stored
        /\ \A j \in Sends : call'[j] = IF j = k THEN [at |-> "posted", conv |-> c,
                                                      text |-> 0]
                                       ELSE call[j]
    BY <1>2, Types DEF Send, SendNew, FirstSend, Begin
  <2>2. \A m \in stored : m.send \in Sends /\ m.send # k
    BY <2>1, Types DEF StoredInv, RowOK, Messages, At
  <2>3. \A m \in stored : RowOK(m)'
    BY <2>1, <2>2 DEF StoredInv, RowOK
  <2>4. ASSUME NEW j \in Sends
        PROVE  RowsOf(j)'
    <3>1. CASE j = k
      BY <2>1, <3>1 DEF RowsOf
    <3>2. CASE j # k
      BY <2>1, <3>2 DEF StoredInv, RowsOf, Question, Whole
    <3>3. QED BY <3>1, <3>2
  <2>5. QED BY <2>1, <2>3, <2>4 DEF StoredInv, Once
<1>3. ASSUME NEW c \in ConvIds, Stop(c)
      PROVE  StoredInv'
  <2>1. PICK k \in Sends \cup {NoSend} : k = controllers[c]
    BY Types
  <2>2. CASE k \in Sends /\ call[k].at \in Running
    <3>1. Goto(k, "stopped") /\ stored' = stored
      BY <1>3, <2>1, <2>2, StoreAssumption DEF Stop, Abort, StoreAssumption
    <3>2. QED
      BY <2>2, <3>1, StoredAfter, StoredBefore DEF Used, Running, At
  <2>3. CASE ~(k \in Sends /\ call[k].at \in Running)
    BY <1>1, <1>3, <2>1, <2>3 DEF Stop, Abort
  <2>4. QED BY <2>2, <2>3
<1>4. ASSUME NEW k \in Sends, Serve(k) \/ Lost(k) \/ StoresLate(k)
      PROVE  StoredInv'
  <2>0. call[k] \in Calls
    BY Types
  <2>1. CASE Accept(k)
    BY <2>1, StoredBefore DEF Accept, Question
  <2>2. CASE Delta(k)
    <3>1. /\ At(k, "open") /\ stored' = stored
          /\ \A j \in Sends : /\ call'[j].at = call[j].at
                              /\ j # k => call'[j] = call[j]
      BY <2>0, <2>2, Types DEF Delta, Calls
    <3>2. \A m \in stored : RowOK(m)'
      BY <3>1, Types DEF StoredInv, RowOK, Messages
    <3>3. \A j \in Sends : RowsOf(j)'
      BY <3>1 DEF StoredInv, RowsOf, Question, Whole, At
    <3>4. QED BY <3>1, <3>2, <3>3 DEF StoredInv, Once
  <2>3. CASE Reply(k)
    <3>1. At(k, "open") /\ Goto(k, "answered") /\ stored' = stored \cup {Whole(k)}
      BY <2>3 DEF Reply, Whole
    <3>2. \A m \in stored : m.send = k => m.role # "assistant"
      BY <3>1, Types DEF StoredInv, RowOK, Messages, At
    <3>3. \A m \in stored : RowOK(m)'
      <4>1. /\ \A j \in Sends \ {k} : call'[j].at = call[j].at
            /\ call'[k].at = "answered"
        BY <3>1, GotoMoves
      <4>2. ASSUME NEW m \in stored
            PROVE  RowOK(m)'
        <5>1. m.send \in Sends /\ RowOK(m)
          BY Types DEF StoredInv, Messages
        <5>2. QED BY <4>1, <5>1 DEF RowOK
      <4>3. QED BY <4>2
    <3>4. RowOK(Whole(k))'
      <4>1. call'[k].at = "answered"
        BY <3>1, GotoMoves
      <4>2. PICK r : r = Whole(k)
        OBVIOUS
      <4>3. ~r.temp /\ r.send = k /\ r.role = "assistant"
        BY <4>2 DEF Whole, Text
      <4>4. RowOK(r)'
        BY <4>1, <4>3 DEF RowOK
      <4>5. Whole(k)' = Whole(k)
        BY <3>1, GotoMoves DEF Whole
      <4>6. QED BY <4>2, <4>4, <4>5
    <3>5. Once(stored')
      BY <3>1, <3>2, OnceMore DEF StoredInv, Whole, Text
    <3>6. Whole(k)' = Whole(k) /\ \A j \in Sends : RowsOf(j)'
      BY <3>1, GotoMoves DEF StoredInv, RowsOf, Question, Whole, At
    <3>7. QED BY <3>1, <3>3, <3>4, <3>5, <3>6 DEF StoredInv
  <2>4. CASE Done(k)
    BY <2>4, StoredAfter DEF Done, At, Used
  <2>5. CASE Fail(k)
    <3>1. CASE At(k, "posted")
      BY <2>5, <3>1, StoredBefore DEF Fail, Question
    <3>2. CASE At(k, "open")
      <4>1. stored' = stored
        BY <2>5, <3>2 DEF Fail, StoredInv, RowsOf, Question, At
      <4>2. QED BY <2>5, <3>2, <4>1, StoredAfter DEF Fail, At, Used
    <3>3. QED BY <2>5, <3>1, <3>2 DEF Fail
  <2>6. CASE Lost(k)
    BY <2>6, StoredAfter, StoredBefore DEF Lost, Running, At, Used
  <2>7. CASE StoresLate(k)
    <3>1. PICK r : /\ stored' = stored \cup {r} /\ r.send = k /\ ~r.temp
                   /\ \/ r.role = "user" /\ r.text = 0 /\ ~HasRow(k, "user")
                      \/ r.role = "assistant" /\ ~HasRow(k, "assistant")
      <4>1. CASE HasRow(k, "user")
        <5>1. PICK n, r : /\ stored' = stored \cup {r}
                          /\ r = Text(k, "assistant", n, FALSE)
          BY <2>7, <4>1 DEF StoresLate
        <5>2. ~HasRow(k, "assistant")
          BY <2>7, <4>1 DEF StoresLate
        <5>3. r.send = k /\ ~r.temp /\ r.role = "assistant"
          BY <5>1 DEF Text
        <5>4. QED BY <5>1, <5>2, <5>3
      <4>2. CASE ~HasRow(k, "user")
        <5>1. PICK r : stored' = stored \cup {r} /\ r = Question(k)
          BY <2>7, <4>2 DEF StoresLate, Question
        <5>2. r.send = k /\ ~r.temp /\ r.role = "user" /\ r.text = 0
          BY <5>1 DEF Question, Text
        <5>3. QED BY <4>2, <5>1, <5>2
      <4>3. QED BY <4>1, <4>2
    <3>2. Once(stored')
      BY <3>1, OnceMore DEF StoredInv, HasRow
    <3>3. call' = call /\ call[k].at \in {"stopped", "lost"}
      BY <2>7 DEF StoresLate, At
    <3>4. RowOK(r)'
      BY <3>1, <3>3 DEF RowOK
    <3>5. \A m \in stored : RowOK(m)'
      BY <3>3 DEF StoredInv, RowOK
    <3>6. \A j \in Sends : RowsOf(j)'
      BY <3>1, <3>3 DEF StoredInv, RowsOf, Question, Whole
    <3>7. QED BY <3>1, <3>2, <3>4, <3>5, <3>6 DEF StoredInv
  <2>8. QED
    BY <1>4, <2>1, <2>2, <2>3, <2>4, <2>5, <2>6, <2>7 DEF Serve
<1>5. ASSUME NEW c \in ConvIds, Visit(c) \/ Load(c) \/ Create(c)
      PROVE  StoredInv'
  BY <1>1, <1>5 DEF Visit, Load, FetchReads, LoadDone, LoadFails, Create
<1>6. CASE UNCHANGED vars
  BY <1>1, <1>6 DEF vars
<1>7. QED BY <1>2, <1>3, <1>4, <1>5, <1>6, Steps

-----------------------------------------------------------------------------
(* What the pages have.                                                    *)

\* Nothing is said of the calls that was not so before.
CallsKept == \A j \in Sends : Used(j) => /\ Used(j)'
                                         /\ call'[j].conv = call[j].conv
                                         /\ call'[j].text = call[j].text

LEMMA PageKept ==
    ASSUME TypeInv, CallsKept, stored \subseteq stored', NEW d \in ConvIds,
           PageInv(d), view'[d].messages \subseteq view[d].messages,
           fetch'[d].rows \subseteq fetch[d].rows, StoredInv
    PROVE  PageInv(d)'
<1>1. \A m \in stored \cup view[d].messages : m.send \in Sends
  BY Types DEF Views, Messages
<1>2. \A m \in stored : Used(m.send)
  BY DEF StoredInv, RowOK, Used
<1>3. \A m \in fetch'[d].rows : m \in stored' /\ call'[m.send].conv = d
  BY <1>1, <1>2 DEF PageInv, CallsKept
<1>4. ASSUME NEW m \in view'[d].messages
      PROVE  MessageOK(d, m)'
  BY <1>1 DEF PageInv, MessageOK, CallsKept, Streaming
<1>5. QED BY <1>3, <1>4 DEF PageInv, Once

LEMMA GotoKeeps ==
    ASSUME TypeInv, NEW k \in Sends, NEW p \in Running \cup {"done", "failed",
           "stopped", "lost"}, Goto(k, p)
    PROVE  CallsKept
<1>1. p # "unused"
  BY DEF Running
<1>2. QED BY <1>1, GotoMoves DEF CallsKept, Used

\* Each conversation's own page: what a load and a send make of it.
LEMMA LoadsPages ==
    ASSUME TypeInv, TextInv, NEW c \in ConvIds, Visit(c) \/ Load(c)
    PROVE  \A d \in ConvIds : PageInv(d)'
<1>1. CallsKept /\ stored' = stored
  BY DEF Visit, Load, FetchReads, LoadDone, LoadFails, CallsKept, Used
<1>2. \A d \in ConvIds : d # c => view'[d] = view[d] /\ fetch'[d] = fetch[d]
  BY Types DEF Visit, Load, FetchReads, LoadDone, LoadFails, Patch
<1>3. ASSUME NEW d \in ConvIds, d # c
      PROVE  PageInv(d)'
  BY <1>1, <1>2, <1>3, PageKept DEF TextInv
<1>4. PageInv(c)'
  <2>1. CASE Visit(c) \/ LoadFails(c)
    <3>0. NoFetch.rows = {} /\ [NoFetch EXCEPT !.at = "asked"].rows = {}
      BY DEF NoFetch
    <3>1. fetch'[c].rows = {}
      BY <2>1, <3>0, Types DEF Visit, LoadFails
    <3>2. \A nf : FailedLoad(c, nf).messages = view[c].messages
      BY Types DEF FailedLoad, Views
    <3>3. view'[c].messages = view[c].messages
      BY <2>1, <3>2, Types DEF Visit, LoadFails, Patch
    <3>4. QED BY <1>1, <3>1, <3>3, PageKept DEF TextInv
  <2>2. CASE FetchReads(c)
    <3>1. fetch'[c].rows = {m \in stored : call[m.send].conv = c}
      BY <2>2, Types DEF FetchReads
    <3>2. view' = view /\ call' = call /\ stored' = stored
      BY <2>2 DEF FetchReads
    <3>3. \A m \in view[c].messages : MessageOK(c, m)'
      BY <3>2 DEF TextInv, PageInv, MessageOK, Used, Streaming
    <3>4. QED BY <3>1, <3>2, <3>3 DEF TextInv, PageInv, Once
  <2>3. CASE LoadDone(c)
    <3>1. /\ view'[c].messages = fetch[c].rows /\ fetch'[c].rows = {}
          /\ call' = call /\ stored' = stored
      BY <2>3, Types DEF LoadDone, Patch, Filled, LOADING, Answer, NoFetch
    <3>2. ASSUME NEW m \in fetch[c].rows
          PROVE  MessageOK(c, m)'
      BY <3>1
      DEF TextInv, PageInv, StoredInv, RowOK, MessageOK, Used, Streaming
    <3>3. Once(fetch[c].rows)
      BY DEF TextInv, PageInv, StoredInv, Once
    <3>4. QED BY <3>1, <3>2, <3>3 DEF PageInv, Once
  <2>4. QED BY <2>1, <2>2, <2>3 DEF Load
<1>5. QED BY <1>3, <1>4

LEMMA CreatePages ==
    ASSUME TypeInv, TextInv, NEW c \in ConvIds, Create(c)
    PROVE  \A d \in ConvIds : PageInv(d)'
BY PageKept DEF Create, TextInv, CallsKept, Used

LEMMA SendPages ==
    ASSUME TypeInv, TextInv, NEW c \in ConvIds, NEW k \in Sends,
           Send(c, k) \/ SendNew(c, k)
    PROVE  \A d \in ConvIds : PageInv(d)'
<1>1. PICK v \in Views : /\ Begin(c, k, v)
                         /\ v.messages \subseteq view[c].messages
  <2>1. Filled({}) \in Views /\ Filled({}).messages = {}
    BY FilledTyped DEF Filled, LOADING
  <2>2. QED BY <2>1, Types DEF Send, SendNew, FirstSend
<1>2. /\ ~Used(k) /\ stored' = stored /\ fetch' = fetch
      /\ \A j \in Sends : j # k => call'[j] = call[j]
      /\ call'[k] = [at |-> "posted", conv |-> c, text |-> 0]
      /\ \A d \in ConvIds : d # c => view'[d] = view[d]
      /\ view'[c] = Optimistic(v, k)
  BY <1>1, Types DEF Begin, Patch, At, Used
<1>3. CallsKept
  BY <1>2 DEF CallsKept, Used
<1>4. ASSUME NEW d \in ConvIds, d # c
      PROVE  PageInv(d)'
  BY <1>2, <1>3, <1>4, PageKept DEF TextInv
<1>5. PageInv(c)'
  <2> DEFINE q == Text(k, "user", 0, TRUE)
             b == Text(k, "assistant", 0, TRUE)
  <2>1. view'[c].messages = v.messages \cup {q, b}
    BY <1>1, <1>2 DEF Optimistic, Views
  <2>2. \A m \in v.messages : m.send \in Sends /\ m.send # k /\ MessageOK(c, m)
    BY <1>1, <1>2, Types DEF TextInv, PageInv, MessageOK, Views, Messages
  <2>3. /\ q.send = k /\ q.role = "user" /\ q.temp
        /\ b.send = k /\ b.role = "assistant" /\ b.temp /\ b.text = 0
    BY DEF Text
  <2> HIDE DEF q, b
  <2>4. ASSUME NEW m \in view'[c].messages
        PROVE  MessageOK(c, m)'
    <3>1. CASE m \in v.messages
      BY <1>2, <1>3, <2>2, <3>1 DEF MessageOK, CallsKept, Streaming
    <3>2. CASE m \in {q, b}
      BY <1>2, <2>3, <3>2 DEF MessageOK, Used, Streaming
    <3>3. QED BY <2>1, <2>4, <3>1, <3>2
  <2>5. Once(view'[c].messages)
    BY <1>1, <2>1, <2>2, <2>3 DEF TextInv, PageInv, Once
  <2>6. \A m \in fetch'[c].rows : m \in stored' /\ call'[m.send].conv = c
    <3>1. \A m \in stored : m.send \in Sends /\ Used(m.send)
      BY Types DEF TextInv, StoredInv, RowOK, Used, Messages
    <3>2. QED BY <1>2, <3>1 DEF TextInv, PageInv
  <2>7. QED BY <2>4, <2>5, <2>6 DEF PageInv, Once
<1>6. QED BY <1>4, <1>5

\* Another conversation's page, whatever a call does to its own.
LEMMA OtherPages ==
    ASSUME TypeInv, TextInv, NEW k \in Sends, NEW d \in ConvIds, call[k].conv # d,
           \A j \in Sends : j # k => call'[j] = call[j],
           call'[k].at # "unused", call'[k].conv = call[k].conv, Used(k),
           stored \subseteq stored', view'[d] = view[d], fetch' = fetch
    PROVE  PageInv(d)'
<1>1. /\ \A m \in stored : m.send \in Sends /\ Used(m.send)
      /\ \A m \in view[d].messages : m.send \in Sends /\ m.send # k
  BY Types DEF TextInv, StoredInv, PageInv, MessageOK, RowOK, Used, Views, Messages
<1>2. \A m \in fetch'[d].rows : m \in stored' /\ call'[m.send].conv = d
  BY <1>1 DEF TextInv, PageInv
<1>3. \A m \in view'[d].messages : MessageOK(d, m)'
  BY <1>1 DEF TextInv, PageInv, MessageOK, Used, Streaming
<1>4. QED BY <1>2, <1>3 DEF TextInv, PageInv, Once

LEMMA DeltaPages ==
    ASSUME TypeInv, TextInv, NEW k \in Sends, Delta(k)
    PROVE  \A d \in ConvIds : PageInv(d)'
<1>a. PICK c : c = call[k].conv
  OBVIOUS
<1>0. call[k] \in Calls /\ call[k].text \in Nat /\ Used(k) /\ c \in ConvIds
  BY <1>a, Types DEF Delta, Calls, At, Used
<1>1. /\ \A j \in Sends : j # k => call'[j] = call[j]
      /\ call'[k].at = "open" /\ call'[k].conv = c
      /\ call'[k].text = call[k].text + 1
      /\ stored' = stored /\ fetch' = fetch
      /\ \A d \in ConvIds : d # c => view'[d] = view[d]
      /\ view'[c].messages = {WithDelta(m, k) : m \in view[c].messages}
  BY <1>a, <1>0, Types DEF Delta, Calls, Patch, Views, At
<1>2. \A d \in ConvIds : d # c => PageInv(d)'
  BY <1>a, <1>0, <1>1, OtherPages
<1>3. ASSUME NEW m \in view[c].messages
      PROVE  /\ MessageOK(c, WithDelta(m, k))'
             /\ WithDelta(m, k).send = m.send /\ WithDelta(m, k).role = m.role
  <2>1. m \in Messages /\ m.send \in Sends /\ MessageOK(c, m)
    BY <1>a, <1>0, Types DEF TextInv, PageInv, Views, Messages
  <2>2. PICK n : n = WithDelta(m, k)
    OBVIOUS
  <2>3. CASE Bubble(m, k)
    <3>1. n = [m EXCEPT !.text = m.text + 1]
      BY <2>1, <2>2, <2>3 DEF WithDelta, Messages
    <3>2. /\ n.send = k /\ n.role = "assistant" /\ n.temp
          /\ n.text = m.text + 1 /\ m.send = k /\ m.role = "assistant" /\ m.temp
      BY <2>1, <2>3, <3>1 DEF Bubble, Messages
    <3>3. n.text = call'[k].text
      BY <1>a, <1>1, <2>1, <3>2 DEF MessageOK, Streaming
    <3>4. MessageOK(c, n)'
      BY <1>1, <3>2, <3>3 DEF MessageOK, Used, Streaming
    <3>5. QED BY <2>2, <3>2, <3>4
  <2>4. CASE ~Bubble(m, k)
    <3>1. WithDelta(m, k) = m
      BY <2>4 DEF WithDelta
    <3>2. Streaming(m) => m.send # k
      BY <2>4 DEF Bubble, Streaming
    <3>3. MessageOK(c, m)'
      BY <1>a, <1>0, <1>1, <2>1, <3>2 DEF MessageOK, Used, Streaming
    <3>4. QED BY <3>1, <3>3
  <2>5. QED BY <2>3, <2>4
<1>4. \A m \in view'[c].messages : MessageOK(c, m)'
  BY <1>1, <1>3
<1>5. Once(view'[c].messages)
  BY <1>a, <1>0, <1>1, <1>3 DEF TextInv, PageInv, Once
<1>6. \A m \in fetch'[c].rows : m \in stored' /\ call'[m.send].conv = c
  BY <1>a, <1>0, <1>1, Types DEF TextInv, PageInv, Fetches, Messages
<1>7. PageInv(c)'
  BY <1>4, <1>5, <1>6 DEF PageInv, Once
<1>8. QED BY <1>2, <1>7

LEMMA DonePages ==
    ASSUME TypeInv, TextInv, NEW k \in Sends, Done(k)
    PROVE  \A d \in ConvIds : PageInv(d)'
<1>a. PICK c : c = call[k].conv
  OBVIOUS
<1>0. call[k] \in Calls /\ Used(k) /\ c \in ConvIds
  BY <1>a, Types DEF Done, At, Used
<1>1. /\ \A j \in Sends : j # k => call'[j] = call[j]
      /\ call'[k].at = "done" /\ call'[k].conv = c /\ call'[k].text = call[k].text
      /\ stored' = stored /\ fetch' = fetch
  BY <1>a, GotoMoves DEF Done
<1>2. /\ \A d \in ConvIds : d # c => view'[d] = view[d]
      /\ view'[c].messages = {Settled(m, k) : m \in view[c].messages}
  BY <1>a, <1>0, Types DEF Done, Patch, Answered, Views
<1>3. \A d \in ConvIds : d # c => PageInv(d)'
  BY <1>a, <1>0, <1>1, <1>2, OtherPages
<1>4. CallsKept
  BY <1>a, <1>1 DEF CallsKept, Used
<1>5. ASSUME NEW m \in view[c].messages
      PROVE  /\ MessageOK(c, Settled(m, k))'
             /\ Settled(m, k).send = m.send /\ Settled(m, k).role = m.role
  <2>1. m \in Messages /\ m.send \in Sends /\ MessageOK(c, m)
    BY <1>a, <1>0, Types DEF TextInv, PageInv, Views, Messages
  <2>2. PICK n : n = Settled(m, k)
    OBVIOUS
  <2>3. CASE Bubble(m, k)
    <3>1. m.send = k /\ m.role = "assistant" /\ m.text = call[k].text
      BY <2>1, <2>3 DEF Bubble, MessageOK, Streaming
    <3>2. n = Whole(k)
      BY <2>1, <2>2, <2>3, <3>1 DEF Settled, Whole, Text, Messages
    <3>3. n \in stored
      BY <3>2 DEF TextInv, StoredInv, RowsOf, Done, At
    <3>4. n.send = k /\ n.role = "assistant" /\ ~n.temp
      BY <3>2 DEF Whole, Text
    <3>5. MessageOK(c, n)'
      BY <1>1, <3>3, <3>4 DEF MessageOK, Used, Streaming
    <3>6. QED BY <2>2, <3>1, <3>4, <3>5
  <2>4. CASE ~Bubble(m, k)
    <3>1. Settled(m, k) = m
      BY <2>4 DEF Settled
    <3>2. MessageOK(c, m)'
      BY <1>1, <1>4, <2>1 DEF MessageOK, CallsKept, Streaming
    <3>3. QED BY <3>1, <3>2
  <2>5. QED BY <2>3, <2>4
<1>6. \A m \in view'[c].messages : MessageOK(c, m)'
  BY <1>2, <1>5
<1>7. Once(view'[c].messages)
  BY <1>a, <1>0, <1>2, <1>5 DEF TextInv, PageInv, Once
<1>8. \A m \in fetch'[c].rows : m \in stored' /\ call'[m.send].conv = c
  BY <1>a, <1>0, <1>1, Types DEF TextInv, PageInv, Fetches, Messages
<1>9. PageInv(c)'
  BY <1>6, <1>7, <1>8 DEF PageInv, Once
<1>10. QED BY <1>3, <1>9

LEMMA CallPages ==
    ASSUME TypeInv, TextInv, NEW k \in Sends, Serve(k) \/ Lost(k) \/ StoresLate(k)
    PROVE  \A d \in ConvIds : PageInv(d)'
<1>1. CASE Delta(k)
  BY <1>1, DeltaPages
<1>2. CASE Done(k)
  BY <1>2, DonePages
<1>3. CASE Fail(k)
  <2>1. CallsKept /\ Used(k)
    BY <1>3, GotoKeeps DEF Fail, At, Used
  <2>2. \A d \in ConvIds : view'[d].messages \subseteq view[d].messages
    BY <1>3, <2>1, Types DEF Fail, Patch, Failed, Views
  <2>3. stored \subseteq stored' /\ fetch' = fetch
    BY <1>3 DEF Fail
  <2>4. QED BY <2>1, <2>2, <2>3, PageKept DEF TextInv
<1>4. CASE Accept(k) \/ Reply(k) \/ Lost(k) \/ StoresLate(k)
  <2>1. CallsKept
    BY <1>4, GotoKeeps DEF Accept, Reply, Lost, StoresLate, Running, CallsKept, Used
  <2>2. stored \subseteq stored' /\ fetch' = fetch /\ view' = view
    BY <1>4 DEF Accept, Reply, Lost, StoresLate
  <2>3. QED BY <2>1, <2>2, PageKept DEF TextInv
<1>5. QED BY <1>1, <1>2, <1>3, <1>4 DEF Serve

LEMMA StopPages ==
    ASSUME TypeInv, TextInv, NEW c \in ConvIds, Stop(c)
    PROVE  \A d \in ConvIds : PageInv(d)'
<1>1. CallsKept
  <2>1. PICK k \in Sends \cup {NoSend} : k = controllers[c]
    BY Types
  <2>2. CASE k \in Sends /\ Goto(k, "stopped")
    BY <2>2, GotoKeeps
  <2>3. CASE UNCHANGED call
    BY <2>3 DEF CallsKept, Used
  <2>4. QED BY <2>1, <2>2, <2>3 DEF Stop, Abort
<1>2. \A d \in ConvIds : view'[d].messages \subseteq view[d].messages
  BY Types DEF Stop, Patch, Stopped, Views
<1>3. QED BY <1>1, <1>2, PageKept DEF Stop, TextInv

LEMMA TextStep == TypeInv /\ TextInv /\ [Next]_vars => TextInv'
<1> SUFFICES ASSUME TypeInv, TextInv, [Next]_vars
             PROVE  StoredInv' /\ \A d \in ConvIds : PageInv(d)'
  BY DEF TextInv
<1>1. StoredInv'
  BY StoredStep DEF TextInv
<1>2. CASE UNCHANGED vars
  BY <1>1, <1>2
  DEF vars, TextInv, PageInv, MessageOK, Once, Used, Streaming
<1>3. QED
  BY <1>1, <1>2, Steps, LoadsPages, StopPages, CreatePages, SendPages, CallPages

LEMMA InitText == Init => TextInv
BY DEF Init, TextInv, StoredInv, PageInv, Once, RowsOf, LOADING, NoFetch

LEMMA TextHolds == Spec => [](TypeInv /\ TextInv)
BY InitTyped, InitText, NextTyped, TextStep, PTL DEF Spec

(* Every variable keeps the type that the code gives it: above all, no text *)
(* outgrows the stream that it comes from.                                  *)
THEOREM TypeCorrect == Spec => []TypeOK
<1>1. TypeInv => TypeOK
  BY DEF TypeInv
<1>2. QED BY <1>1, TextHolds, PTL

(* Whatever the order in which loads and streams arrive, a stream writes to *)
(* its own bubble, in its own conversation, and the bubble has all of what  *)
(* the stream has brought (messages-context.tsx:132).                       *)
THEOREM BubblesAreWhole == Spec => []TextIsWhole
<1>1. TypeInv /\ TextInv => TextIsWhole
  <2> SUFFICES ASSUME TypeInv, TextInv, NEW c \in ConvIds,
                      NEW m \in view[c].messages
               PROVE  /\ call[m.send].conv = c
                      /\ m.role = "assistant" /\ (m.temp \/ At(m.send, "done")) =>
                            m.text = call[m.send].text
    BY DEF TextIsWhole
  <2>1. MessageOK(c, m) /\ m.send \in Sends
    BY Types DEF TextInv, PageInv, Views, Messages
  <2>2. CASE m.temp
    BY <2>1, <2>2 DEF MessageOK, Streaming
  <2>3. ASSUME ~m.temp, At(m.send, "done"), m.role = "assistant"
        PROVE  m.text = call[m.send].text
    <3>1. Whole(m.send) \in stored /\ m \in stored
      BY <2>1, <2>3 DEF TextInv, StoredInv, RowsOf, MessageOK, At
    <3>2. m = Whole(m.send)
      BY <2>3, <3>1 DEF TextInv, StoredInv, Once, Whole, Text
    <3>3. QED BY <3>2 DEF Whole, Text
  <2>4. QED BY <2>1, <2>2, <2>3 DEF MessageOK
<1>2. QED BY <1>1, TextHolds, PTL

(* A question and a reply are on a page once, as sent or as loaded: a load *)
(* replaces the list, and a send is new to it (messages-context.tsx:81).   *)
THEOREM OnceOnAPage == Spec => []NoRowTwice
<1>1. TextInv => NoRowTwice
  BY DEF TextInv, PageInv, Once, NoRowTwice
<1>2. QED BY <1>1, TextHolds, PTL

-----------------------------------------------------------------------------
(* Waits.                                                                  *)

LEMMA InitWaits == Init => WaitInv
BY DEF Init, WaitInv, Waits, Untouched, Fresh, OwnController, Served, Refused,
       Unloadable, LOADING, NoFetch, Used, ConvIds

\* A conversation that a step only ends calls of others in.
LEMMA WaitsKept ==
    ASSUME TypeInv, NEW d \in ConvIds, Waits(d), CallsKept,
           view'[d] = view[d], fetch'[d] = fetch[d], d \in loaded' => d \in loaded,
           controllers'[d] = controllers[d],
           \A j \in Sends :
              /\ Used(j)' => Used(j) \/ call'[j].conv # d
              /\ call[j].conv = d /\ call[j].at \in Running \cup {"lost"} =>
                    call'[j].at \in Running \cup {"lost"}
              /\ call[j].conv = d /\ At(j, "failed") => At(j, "failed")'
    PROVE  Waits(d)'
<1>1. \A j \in Sends : call[j].at \in Running \cup {"lost"} => Used(j)
  BY DEF Running, Used
<1>2. Served(d)'
  BY <1>1 DEF Waits, Served, CallsKept
<1>3. OwnController(d)'
  BY Types DEF Waits, OwnController, CallsKept
<1>4. Untouched(d)' => Fresh(d)'
  BY DEF Waits, Untouched, Fresh, CallsKept
<1>5. Refused(d)'
  <2>1. \A j \in Sends : At(j, "failed") => Used(j)
    BY DEF At, Used
  <2>2. QED BY <2>1 DEF Waits, Refused, Unloadable, CallsKept
<1>6. QED BY <1>2, <1>3, <1>4, <1>5 DEF Waits

\* A conversation that something was done with.
LEMMA WaitsTouched ==
    ASSUME NEW c \in ConvIds, ~Untouched(c)', OwnController(c)', Served(c)',
           Refused(c)'
    PROVE  Waits(c)'
BY DEF Waits

LEMMA WaitsVisited ==
    ASSUME TypeInv, WaitInv, NEW c \in ConvIds, Visit(c) \/ Load(c)
    PROVE  WaitInv'
<1>1. /\ call' = call /\ controllers' = controllers
      /\ \A d \in ConvIds : d # c => /\ view'[d] = view[d] /\ fetch'[d] = fetch[d]
                                     /\ d \in loaded' => d \in loaded
  BY Types DEF Visit, Load, FetchReads, LoadDone, LoadFails, Patch
<1>2. ASSUME NEW d \in ConvIds, d # c
      PROVE  Waits(d)'
  <2>1. CallsKept
    BY <1>1 DEF CallsKept, Used
  <2>2. Waits(d)
    BY DEF WaitInv
  <2>3. QED BY <1>1, <1>2, <2>1, <2>2, WaitsKept DEF Used, At
<1>3. ~Untouched(c)'
  <2>1. CASE Visit(c) \/ FetchReads(c)
    <3>1. fetch'[c].at \in {"asked", "read"}
      BY <2>1, Types DEF Visit, FetchReads, NoFetch
    <3>2. QED BY <3>1 DEF Untouched
  <2>2. CASE LoadDone(c)
    BY <2>2, Types DEF LoadDone, Patch, Filled, LOADING, Untouched
  <2>3. CASE LoadFails(c)
    <3>1. \A nf : FailedLoad(c, nf).loading = FALSE
      BY Types DEF FailedLoad, Views
    <3>2. QED BY <2>3, <3>1, Types DEF LoadFails, Patch, Untouched
  <2>4. QED BY <2>1, <2>2, <2>3 DEF Load
<1>4. Refused(c)'
  <2>1. CASE Visit(c) \/ FetchReads(c)
    <3>1. fetch'[c].at # "none"
      BY <2>1, Types DEF Visit, FetchReads, NoFetch
    <3>2. QED BY <3>1 DEF Refused
  <2>2. CASE LoadDone(c)
    <3>1. ~view'[c].notFound /\ ~view'[c].error
      BY <2>2, Types DEF LoadDone, Patch, Filled, LOADING
    <3>2. QED BY <3>1 DEF Refused, Unloadable
  <2>3. CASE LoadFails(c)
    BY <2>3 DEF LoadFails, Refused
  <2>4. QED BY <2>1, <2>2, <2>3 DEF Load
<1>5. OwnController(c)'
  BY <1>1 DEF WaitInv, Waits, OwnController, Used
<1>6. Served(c)'
  <2>1. \A nf : FailedLoad(c, nf).sending = view[c].sending
    BY Types DEF FailedLoad, Views
  <2>2. Filled(Answer(c)).sending = FALSE
    BY DEF Filled, LOADING
  <2>3. view'[c].sending => view[c].sending
    <3>1. CASE Visit(c) \/ FetchReads(c)
      BY <3>1 DEF Visit, FetchReads
    <3>2. CASE LoadDone(c) \/ LoadFails(c)
      <4>1. \/ view'[c] = Filled(Answer(c))
            \/ \E nf \in BOOLEAN : view'[c] = FailedLoad(c, nf)
        BY <3>2, Types DEF LoadDone, LoadFails, Patch
      <4>2. QED BY <2>1, <2>2, <4>1
    <3>3. QED BY <3>1, <3>2 DEF Load
  <2>4. QED BY <1>1, <2>3 DEF WaitInv, Waits, Served
<1>7. QED BY <1>2, <1>3, <1>4, <1>5, <1>6, WaitsTouched DEF WaitInv

LEMMA WaitsSent ==
    ASSUME TypeInv, WaitInv, NEW c \in ConvIds, NEW k \in Sends,
           Send(c, k) \/ SendNew(c, k)
    PROVE  WaitInv'
<1>1. PICK v \in Views : /\ Begin(c, k, v) /\ (v = view[c] \/ v = Filled({}))
                         /\ SendNew(c, k) \/ v = view[c]
                         /\ SendNew(c, k) => v = Filled({})
  BY FilledTyped, Types DEF Send, SendNew, FirstSend
<1>2. /\ ~Used(k) /\ fetch' = fetch
      /\ \A j \in Sends : j # k => call'[j] = call[j]
      /\ call'[k].at = "posted" /\ call'[k].conv = c
      /\ \A d \in ConvIds : /\ d # c => view'[d] = view[d]
                            /\ d # c => controllers'[d] = controllers[d]
      /\ view'[c] = Optimistic(v, k) /\ controllers'[c] = k
  BY <1>1, Types DEF Begin, Patch, At, Used
<1>3. \A d \in ConvIds : d # c /\ d \in loaded' => d \in loaded
  BY DEF Send, SendNew
<1>4. ASSUME NEW d \in ConvIds, d # c
      PROVE  Waits(d)'
  <2>1. CallsKept
    BY <1>2 DEF CallsKept, Used
  <2>2. \A j \in Sends :
           /\ Used(j)' => Used(j) \/ call'[j].conv # d
           /\ call[j].conv = d /\ call[j].at \in Running \cup {"lost"} =>
                 call'[j].at \in Running \cup {"lost"}
           /\ At(j, "failed") => At(j, "failed")'
    BY <1>2, <1>4 DEF Used, Running, At
  <2>3. QED BY <1>2, <1>3, <1>4, <2>1, <2>2, WaitsKept DEF WaitInv
<1>5. Optimistic(v, k).loading = v.loading /\ Optimistic(v, k).sending = TRUE
  BY DEF Optimistic, Views
<1>6. ~Untouched(c)'
  <2>1. CASE SendNew(c, k)
    <3>1. v.loading = FALSE
      BY <1>1, <2>1 DEF Filled, LOADING
    <3>2. QED BY <1>2, <1>5, <2>1, <3>1 DEF Untouched
  <2>2. CASE Send(c, k) /\ ~SendNew(c, k)
    <3>1. v = view[c]
      BY <1>1, <2>2
    <3>2. ~Fresh(c)
      BY <2>2 DEF Send, Calm, Hasty, Fresh, LOADING
    <3>3. ~Untouched(c)
      BY <3>2 DEF WaitInv, Waits
    <3>4. QED BY <1>2, <1>5, <3>1, <3>3 DEF Untouched
  <2>3. QED BY <2>1, <2>2
<1>7. OwnController(c)' /\ Served(c)'
  BY <1>2 DEF OwnController, Served, Used, Running
<1>9. Refused(c)'
  <2>1. Optimistic(v, k).error = FALSE /\ Optimistic(v, k).notFound = v.notFound
    BY DEF Optimistic, Views
  <2>2. ~v.notFound
    BY <1>1 DEF Send, Filled, LOADING
  <2>3. QED BY <1>2, <2>1, <2>2 DEF Refused, Unloadable
<1>8. QED BY <1>4, <1>6, <1>7, <1>9, WaitsTouched DEF WaitInv

LEMMA WaitsCalled ==
    ASSUME TypeInv, WaitInv, NEW k \in Sends, Serve(k) \/ Lost(k) \/ StoresLate(k)
    PROVE  WaitInv'
<1>0. PICK c : c = call[k].conv
  OBVIOUS
<1>1. CASE StoresLate(k)
  BY <1>1
  DEF StoresLate, WaitInv, Waits, Untouched, Fresh, OwnController, Served, Used,
      Refused, Unloadable, At
<1>2. CASE Serve(k) \/ Lost(k)
  <2>1. Used(k) /\ call[k] \in Calls /\ c \in ConvIds
    BY <1>0, <1>2, Types
    DEF Serve, Accept, Delta, Reply, Done, Fail, Lost, At, Running, Used
  <2>2. /\ \A j \in Sends : j # k => call'[j] = call[j]
        /\ call'[k].conv = c /\ call'[k].at # "unused"
        /\ ~(Done(k) \/ Fail(k)) => call'[k].at \in Running \cup {"lost"}
        /\ ~At(k, "failed") /\ (Fail(k) => At(k, "failed")')
    <3>0. ~At(k, "failed") /\ (Fail(k) => At(k, "failed")')
      BY <1>2, <2>1, GotoMoves
      DEF Serve, Accept, Delta, Reply, Done, Fail, Lost, At, Running
    <3>1. CASE Delta(k)
      BY <1>0, <2>1, <3>0, <3>1, Types DEF Delta, Calls, At, Running
    <3>2. CASE \/ Goto(k, "open") \/ Goto(k, "answered") \/ Goto(k, "lost")
               \/ (Done(k) \/ Fail(k)) /\ (Goto(k, "done") \/ Goto(k, "failed"))
      <4>1. PICK p : /\ p \in {"open", "answered", "lost", "done", "failed"}
                     /\ p \in {"done", "failed"} => Done(k) \/ Fail(k)
                     /\ Goto(k, p)
        BY <3>2
      <4>2. QED BY <1>0, <3>0, <4>1, GotoMoves DEF Running
    <3>3. QED
      BY <1>2, <3>1, <3>2 DEF Serve, Accept, Reply, Done, Fail, Lost
  <2>3. /\ fetch' = fetch /\ loaded' = loaded
        /\ \A d \in ConvIds : d # c => /\ view'[d] = view[d]
                                       /\ controllers'[d] = controllers[d]
        /\ controllers'[c] \in {controllers[c], NoSend}
    BY <1>0, <1>2, <2>1, Types
    DEF Serve, Accept, Delta, Reply, Done, Fail, Lost, Patch
  <2>4. /\ view'[c].loading = view[c].loading
        /\ view'[c].sending => view[c].sending /\ ~(Done(k) \/ Fail(k))
        /\ view'[c].notFound = view[c].notFound
        /\ Fail(k) \/ view'[c].error = view[c].error
    <3>1. /\ Answered(c, k).loading = view[c].loading /\ ~Answered(c, k).sending
          /\ Failed(c, k).loading = view[c].loading /\ ~Failed(c, k).sending
          /\ Answered(c, k).notFound = view[c].notFound
          /\ Failed(c, k).notFound = view[c].notFound
          /\ Answered(c, k).error = view[c].error
      BY <2>1, Types DEF Answered, Failed, Views
    <3>2. CASE Done(k) \/ Fail(k)
      <4>1. view'[c] \in {Answered(c, k), Failed(c, k)}
        BY <1>0, <2>1, <3>2, Types DEF Done, Fail, Patch
      <4>3. Fail(k) \/ view'[c] = Answered(c, k)
        BY <1>0, <2>1, <3>2, Types DEF Done, Patch
      <4>2. QED BY <3>1, <3>2, <4>1, <4>3
    <3>3. CASE ~(Done(k) \/ Fail(k))
      <4>1. CASE Delta(k)
        BY <1>0, <2>1, <3>3, <4>1, Types DEF Delta, Patch, Views
      <4>2. CASE ~Delta(k)
        BY <1>2, <3>3, <4>2 DEF Serve, Accept, Reply, Lost
      <4>3. QED BY <4>1, <4>2
    <3>4. QED BY <3>2, <3>3
  <2>5. CallsKept \/ Delta(k)
    BY <1>2, GotoKeeps
    DEF Serve, Accept, Reply, Done, Fail, Lost, Running
  <2>6. ASSUME NEW d \in ConvIds, d # c
        PROVE  Waits(d)'
    <3>1. Served(d)'
      BY <2>2, <2>3, <2>6, Types, <1>0 DEF WaitInv, Waits, Served
    <3>2. OwnController(d)'
      BY <2>2, <2>3, <2>6, Types, <1>0 DEF WaitInv, Waits, OwnController, Used
    <3>3. Untouched(d)' => Fresh(d)'
      BY <2>2, <2>3, <2>6 DEF WaitInv, Waits, Untouched, Fresh, Used
    <3>4. Refused(d)'
      BY <1>0, <2>2, <2>3, <2>6 DEF WaitInv, Waits, Refused, Unloadable, At
    <3>5. QED BY <3>1, <3>2, <3>3, <3>4 DEF Waits
  <2>7. ~Untouched(c)
    BY <1>0, <2>1 DEF WaitInv, Waits, Fresh
  <2>8. OwnController(c)'
    BY <1>0, <2>1, <2>2, <2>3, Types DEF WaitInv, Waits, OwnController, Used
  <2>9. Served(c)'
    BY <1>0, <2>1, <2>2, <2>4 DEF WaitInv, Waits, Served
  <2>10. ~Untouched(c)'
    BY <2>3, <2>4, <2>7 DEF Untouched
  <2>11. Refused(c)'
    <3>1. Unloadable(c)' => Unloadable(c)
      <4>1. CASE Fail(k)
        BY <1>0, <2>1, <2>2, <2>4, <4>1 DEF Unloadable
      <4>2. CASE ~Fail(k)
        BY <2>2, <2>4, <4>2 DEF Unloadable, At
      <4>3. QED BY <4>1, <4>2
    <3>2. QED BY <2>1, <2>3, <3>1 DEF WaitInv, Waits, Refused
  <2>12. QED BY <2>6, <2>8, <2>9, <2>10, <2>11, WaitsTouched DEF WaitInv
<1>3. QED BY <1>1, <1>2

LEMMA WaitsStopped ==
    ASSUME TypeInv, WaitInv, NEW c \in ConvIds, Stop(c)
    PROVE  WaitInv'
<1>1. PICK k \in Sends \cup {NoSend} : k = controllers[c]
  BY Types
<1>2. /\ \A j \in Sends : j # k => call'[j] = call[j]
      /\ k # NoSend => k \in Sends /\ call'[k].conv = c /\ call'[k].at # "unused"
      /\ k # NoSend => Used(k) /\ call[k].conv = c
  <2>1. k # NoSend => Used(k) /\ call[k].conv = c /\ k \in Sends
    BY <1>1 DEF WaitInv, Waits, OwnController
  <2>2. CASE k # NoSend /\ Goto(k, "stopped")
    <3>1. /\ \A j \in Sends : j # k => call'[j] = call[j]
          /\ call'[k].at = "stopped" /\ call'[k].conv = call[k].conv
      BY <2>1, <2>2, GotoMoves
    <3>2. QED BY <2>1, <3>1
  <2>3. CASE UNCHANGED call
    BY <2>1, <2>3 DEF Used
  <2>4. QED BY <1>1, <2>2, <2>3 DEF Stop, Abort
<1>3. /\ fetch' = fetch /\ loaded' = loaded
      /\ \A d \in ConvIds : d # c => /\ view'[d] = view[d]
                                     /\ controllers'[d] = controllers[d]
      /\ controllers'[c] = NoSend
      /\ view'[c].loading = view[c].loading /\ ~view'[c].sending
      /\ view'[c].error = view[c].error /\ view'[c].notFound = view[c].notFound
      /\ view[c].sending
  <2>1. /\ Stopped(view[c]).loading = view[c].loading /\ ~Stopped(view[c]).sending
        /\ Stopped(view[c]).error = view[c].error
        /\ Stopped(view[c]).notFound = view[c].notFound
    BY Types DEF Stopped, Views
  <2>2. QED BY <2>1, Types DEF Stop, Patch
<1>4. CallsKept
  <2>1. CASE k \in Sends /\ Goto(k, "stopped")
    BY <2>1, GotoKeeps
  <2>2. CASE UNCHANGED call
    BY <2>2 DEF CallsKept, Used
  <2>3. QED BY <1>1, <2>1, <2>2 DEF Stop, Abort
<1>9. \A j \in Sends : At(j, "failed") => At(j, "failed")'
  <2>1. CASE k \in Sends /\ call[k].at \in Running /\ Goto(k, "stopped")
    BY <2>1, GotoMoves DEF At, Running
  <2>2. CASE UNCHANGED call
    BY <2>2 DEF At
  <2>3. QED BY <1>1, <2>1, <2>2, StoreAssumption DEF Stop, Abort, StoreAssumption
<1>5. ASSUME NEW d \in ConvIds, d # c
      PROVE  Waits(d)'
  <2>1. \A j \in Sends :
           /\ Used(j)' => Used(j) \/ call'[j].conv # d
           /\ call[j].conv = d /\ call[j].at \in Running \cup {"lost"} =>
                 call'[j].at \in Running \cup {"lost"}
           /\ At(j, "failed") => At(j, "failed")'
    BY <1>2, <1>5, <1>9, StoreAssumption DEF Used, StoreAssumption
  <2>2. QED BY <1>3, <1>4, <1>5, <2>1, WaitsKept DEF WaitInv
<1>6. ~Untouched(c)
  BY <1>3 DEF WaitInv, Waits, Fresh, LOADING
<1>7. ~Untouched(c)' /\ OwnController(c)' /\ Served(c)'
  BY <1>3, <1>6 DEF Untouched, OwnController, Served
<1>8. Refused(c)'
  <2>1. Unloadable(c)' => Unloadable(c)
    BY <1>3, <1>4, <1>9 DEF Unloadable, CallsKept, Used, At
  <2>2. QED BY <1>3, <2>1 DEF WaitInv, Waits, Refused
<1>10. QED BY <1>5, <1>7, <1>8, WaitsTouched DEF WaitInv

LEMMA WaitStep == TypeInv /\ WaitInv /\ [Next]_vars => WaitInv'
<1> SUFFICES ASSUME TypeInv, WaitInv, [Next]_vars
             PROVE  WaitInv'
  OBVIOUS
<1>1. CASE UNCHANGED vars
  BY <1>1
  DEF vars, WaitInv, Waits, Untouched, Fresh, OwnController, Served, Refused,
      Unloadable, Used, At
<1>2. ASSUME NEW c \in ConvIds, Create(c)
      PROVE  WaitInv'
  BY <1>2, WaitsKept DEF Create, WaitInv, CallsKept, Used, At
<1>3. QED
  BY <1>1, <1>2, Steps, WaitsVisited, WaitsSent, WaitsCalled, WaitsStopped

(* A page that shows a send has a call that will end it, or lost it, a     *)
(* page that loads has a fetch under way, or is about to begin one, and    *)
(* one that a load has failed for can be loaded again, after hasty sends   *)
(* and crossed creates too (messages-context.tsx:74, 89, 90, 146, 168).    *)
THEOREM NobodyForgotten == Spec => []WaitsAreServed
<1>1. WaitInv => WaitsAreServed
  BY DEF WaitInv, Waits, Served, Refused, Untouched, Fresh, WaitsAreServed
<1>2. QED BY <1>1, InitWaits, WaitStep, TextHolds, PTL DEF Spec

-----------------------------------------------------------------------------
(* Streams.                                                                *)

LEMMA InitStreams == Init => StreamInv
<1> SUFFICES ASSUME Init, NEW c \in ConvIds \ upset PROVE Sound(c)
  BY DEF StreamInv
<1>1. RunningIn(c) = {} /\ DoneIn(c) = {}
  BY DEF Init, RunningIn, DoneIn, Running, At
<1>2. Streams(c) = {}
  BY DEF Init, Streams, LOADING
<1>3. QED BY <1>1, <1>2 DEF Init, Sound, LOADING, NoFetch

\* What is under way, and what is done, where the calls of d stay as they are.
LEMMA CallsOf ==
    ASSUME NEW d, \A j \in Sends : /\ Used(j) /\ call[j].conv = d =>
                                         call'[j] = call[j]
                                   /\ Used(j)' /\ call'[j].conv = d =>
                                         call'[j] = call[j]
    PROVE  /\ RunningIn(d)' = RunningIn(d) /\ DoneIn(d)' = DoneIn(d)
           /\ \A j \in DoneIn(d) : Whole(j)' = Whole(j)
<1>1. \A j \in Sends : /\ call[j].at \in Running \cup {"done"} => Used(j)
                       /\ call'[j].at \in Running \cup {"done"} => Used(j)'
  BY DEF Used, Running
<1>2. RunningIn(d)' = RunningIn(d)
  BY <1>1 DEF RunningIn
<1>3. DoneIn(d)' = DoneIn(d)
  BY <1>1 DEF DoneIn, At
<1>4. \A j \in DoneIn(d) : Whole(j)' = Whole(j)
  BY <1>1 DEF DoneIn, At, Whole
<1>5. QED BY <1>2, <1>3, <1>4

LEMMA SoundKept ==
    ASSUME NEW d, Sound(d), view'[d] = view[d], controllers'[d] = controllers[d],
           fetch'[d] = fetch[d], d \in loaded => d \in loaded',
           \A j \in Sends : /\ Used(j) /\ call[j].conv = d => call'[j] = call[j]
                            /\ Used(j)' /\ call'[j].conv = d => call'[j] = call[j]
    PROVE  Sound(d)'
<1>1. /\ RunningIn(d)' = RunningIn(d) /\ DoneIn(d)' = DoneIn(d)
      /\ \A j \in DoneIn(d) : Whole(j)' = Whole(j)
  BY CallsOf
<1>2. Streams(d)' = Streams(d)
  BY DEF Streams
<1>3. \A j : AskedIn(d, j) => AskedIn(d, j)'
  BY DEF AskedIn
<1>4. \A j \in DoneIn(d) : ShownIn(d, j)'
  BY <1>1, <1>3 DEF Sound, ShownIn
<1>5. fetch'[d].at = "read" =>
         \A k \in DoneIn(d)' : {Question(k), Whole(k)'} \subseteq fetch'[d].rows
  BY <1>1 DEF Sound
<1>6. QED BY <1>1, <1>2, <1>3, <1>4, <1>5 DEF Sound, Question

LEMMA StreamsLoad ==
    ASSUME TypeInv, TextInv, NEW c \in ConvIds \ upset, Sound(c),
           Visit(c) \/ Load(c)
    PROVE  Sound(c)'
<1>1. call' = call /\ controllers' = controllers
  BY DEF Visit, Load, FetchReads, LoadDone, LoadFails
<1>2. /\ RunningIn(c)' = RunningIn(c) /\ DoneIn(c)' = DoneIn(c)
      /\ \A k \in DoneIn(c) : Whole(k)' = Whole(k)
  BY <1>1, CallsOf
<1>3. RunningIn(c) = {}
  BY DEF Visit, Load, FetchReads, LoadDone, LoadFails, Sound
<1>4. fetch'[c].at = "read" =>
         \A k \in DoneIn(c)' : {Question(k), Whole(k)'} \subseteq fetch'[c].rows
  <2>1. CASE FetchReads(c)
    <3>1. fetch'[c].rows = {m \in stored : call[m.send].conv = c}
      BY <2>1, Types DEF FetchReads
    <3>2. ASSUME NEW k \in DoneIn(c)
          PROVE  {Question(k), Whole(k)} \subseteq fetch'[c].rows
      <4>1. Question(k) \in stored /\ Whole(k) \in stored
        BY DEF TextInv, StoredInv, RowsOf, DoneIn, At
      <4>2. Question(k).send = k /\ Whole(k).send = k /\ call[k].conv = c
        BY DEF Question, Whole, Text, DoneIn
      <4>3. QED BY <3>1, <4>1, <4>2
    <3>3. QED BY <1>2, <3>2
  <2>2. CASE ~FetchReads(c)
    <3>1. NoFetch.at = "none" /\ [NoFetch EXCEPT !.at = "asked"].at = "asked"
      BY DEF NoFetch
    <3>2. QED BY <2>2, <3>1, Types DEF Visit, Load, LoadDone, LoadFails
  <2>3. QED BY <2>1, <2>2
<1>5. CASE LoadDone(c)
  <2>1. /\ view'[c].messages = fetch[c].rows /\ view'[c].sending = FALSE
        /\ fetch[c].at = "read"
    BY <1>5, Types DEF LoadDone, Patch, Filled, LOADING, Answer
  <2>2. \A m \in fetch[c].rows : ~m.temp
    BY DEF TextInv, PageInv, StoredInv, RowOK
  <2>3. Streams(c)' = {}
    BY <2>1, <2>2 DEF Streams, Streaming
  <2>4. ASSUME NEW k \in DoneIn(c)
        PROVE  ShownIn(c, k)'
    <3>1. Question(k) \in view'[c].messages /\ Whole(k) \in view'[c].messages
      BY <2>1 DEF Sound
    <3>2. Question(k).send = k /\ Question(k).role = "user"
      BY DEF Question, Text
    <3>3. QED BY <1>2, <3>1, <3>2 DEF ShownIn, AskedIn
  <2>5. QED BY <1>1, <1>2, <1>3, <1>4, <2>1, <2>3, <2>4 DEF Sound, Question
<1>6. CASE ~LoadDone(c)
  <2>1. \A nf : /\ FailedLoad(c, nf).sending = view[c].sending
                /\ FailedLoad(c, nf).messages = view[c].messages
    BY Types DEF FailedLoad, Views
  <2>2. /\ view'[c].sending = view[c].sending
        /\ view'[c].messages = view[c].messages
    <3>1. view'[c] = view[c] \/ \E nf \in BOOLEAN : view'[c] = FailedLoad(c, nf)
      BY <1>6, Types DEF Visit, Load, FetchReads, LoadFails, Patch
    <3>2. QED BY <2>1, <3>1
  <2>3. Streams(c)' = Streams(c)
    BY <2>2 DEF Streams
  <2>4. \A k \in DoneIn(c) : ShownIn(c, k)'
    BY <1>2, <2>2 DEF Sound, ShownIn, AskedIn
  <2>5. QED BY <1>1, <1>2, <1>3, <1>4, <2>2, <2>3, <2>4 DEF Sound, Question
<1>7. QED BY <1>5, <1>6

LEMMA StreamsSend ==
    ASSUME TypeInv, TextInv, WaitInv, NEW c \in ConvIds \ upset, Sound(c),
           c \notin upset', NEW k \in Sends, Send(c, k) \/ SendNew(c, k)
    PROVE  Sound(c)'
<1>1. PICK v \in Views : /\ Begin(c, k, v)
                         /\ \/ v = view[c] /\ RunningIn(c) = {}
                            \/ v.messages = {} /\ \A j \in Sends : Used(j) =>
                                                     call[j].conv # c
  <2>1. CASE SendNew(c, k)
    <3>1. Filled({}) \in Views /\ Filled({}).messages = {}
      BY FilledTyped DEF Filled, LOADING
    <3>2. \A j \in Sends : call[j].conv # c
      BY <2>1 DEF SendNew, FirstSend, Crossed
    <3>3. QED BY <2>1, <3>1, <3>2 DEF SendNew, FirstSend
  <2>2. CASE Send(c, k)
    BY <2>2, Types DEF Send, Sound
  <2>3. QED BY <2>1, <2>2
<1>2. /\ At(k, "unused") /\ fetch' = fetch
      /\ \A j \in Sends : j # k => call'[j] = call[j]
      /\ call'[k].at = "posted" /\ call'[k].conv = c
      /\ view'[c] = Optimistic(v, k) /\ controllers'[c] = k
  BY <1>1, Types DEF Begin, Patch
<1>3. RunningIn(c) = {}
  <2>1. \A j \in Sends : call[j].at \in Running => Used(j)
    BY DEF Running, Used
  <2>2. QED BY <1>1, <2>1 DEF RunningIn
<1>4. RunningIn(c)' = {k} /\ DoneIn(c)' = DoneIn(c)
      /\ \A j \in DoneIn(c) : Whole(j)' = Whole(j)
  <2>1. \A j \in Sends : j # k => (j \in RunningIn(c)' <=> j \in RunningIn(c))
    BY <1>2 DEF RunningIn
  <2>2. k \in RunningIn(c)'
    BY <1>2 DEF RunningIn, Running
  <2>3. RunningIn(c)' = {k}
    BY <1>3, <2>1, <2>2 DEF RunningIn
  <2>4. DoneIn(c)' = DoneIn(c)
    BY <1>2 DEF DoneIn, At
  <2>5. \A j \in DoneIn(c) : Whole(j)' = Whole(j)
    BY <1>2 DEF DoneIn, At, Whole
  <2>6. QED BY <2>3, <2>4, <2>5
<1>5. PICK q, b : /\ view'[c].messages = v.messages \cup {q, b}
                  /\ q.send = k /\ q.role = "user"
                  /\ b.send = k /\ b.role = "assistant" /\ b.temp
                  /\ view'[c].sending = TRUE
  <2>1. PICK q, b : q = Text(k, "user", 0, TRUE) /\ b = Text(k, "assistant", 0, TRUE)
    OBVIOUS
  <2>2. view'[c].messages = v.messages \cup {q, b} /\ view'[c].sending = TRUE
    BY <1>2, <2>1 DEF Optimistic, Views
  <2>3. /\ q.send = k /\ q.role = "user"
        /\ b.send = k /\ b.role = "assistant" /\ b.temp
    BY <2>1 DEF Text
  <2>4. QED BY <2>2, <2>3
<1>6. \A m \in v.messages : ~Streaming(m)
  BY <1>1, <1>3 DEF Sound, Streams
<1>7. Streams(c)' = {k}
  BY <1>5, <1>6 DEF Streams, Streaming
<1>8. c \in loaded' /\ fetch[c].at = "none"
  <2>1. CASE SendNew(c, k)
    BY <2>1 DEF SendNew, FirstSend, Crossed
  <2>2. CASE Send(c, k)
    BY <2>2 DEF Send, Calm
  <2>3. QED BY <2>1, <2>2
<1>9. AskedIn(c, k)'
  BY <1>5 DEF AskedIn
<1>10. \A j \in DoneIn(c) : ShownIn(c, j)'
  <2>1. \A j \in DoneIn(c) : Used(j) /\ call[j].conv = c
    BY DEF DoneIn, At, Used
  <2>2. QED
    BY <1>1, <1>4, <1>5, <2>1 DEF Sound, ShownIn, AskedIn, DoneIn
<1>11. k # NoSend
  BY StoreAssumption DEF StoreAssumption
<1>12. QED
  BY <1>2, <1>4, <1>5, <1>7, <1>8, <1>9, <1>10, <1>11 DEF Sound

\* A stream ends: what is left of the page is what it showed before.
LEMMA StreamsEnd ==
    ASSUME NEW c, Sound(c), NEW k \in RunningIn(c),
           \A j \in Sends : j # k => call'[j] = call[j],
           call'[k].at \notin Running, ~view'[c].sending, controllers'[c] = NoSend,
           fetch' = fetch,
           \A m \in view'[c].messages : ~(Streaming(m) /\ m.send = k),
           \A m \in view'[c].messages : Streaming(m) => m \in view[c].messages,
           \A m \in view[c].messages : ~Streaming(m) => m \in view'[c].messages,
           At(k, "done")' => ShownIn(c, k)'
    PROVE  Sound(c)'
<1>1. RunningIn(c) = {k}
  BY DEF Sound
<1>2. RunningIn(c)' = {}
  BY <1>1 DEF RunningIn
<1>3. Streams(c)' = {}
  <2>1. \A m \in view'[c].messages : ~Streaming(m)
    BY <1>1 DEF Sound, Streams
  <2>2. QED BY <2>1 DEF Streams
<1>4. \A j \in DoneIn(c)' : ShownIn(c, j)'
  <2>1. ASSUME NEW j \in DoneIn(c)', j # k
        PROVE  ShownIn(c, j)'
    <3>1. j \in DoneIn(c) /\ Whole(j)' = Whole(j)
      BY <2>1 DEF DoneIn, At, Whole
    <3>2. Whole(j) \in view'[c].messages
      BY <3>1 DEF Sound, ShownIn, Whole, Text, Streaming
    <3>3. AskedIn(c, j)'
      BY <3>1 DEF Sound, ShownIn, AskedIn, Streaming
    <3>4. QED BY <3>1, <3>2, <3>3 DEF ShownIn
  <2>2. QED BY <2>1 DEF DoneIn, At
<1>5. fetch'[c].at = "none"
  BY <1>1 DEF Sound
<1>6. QED BY <1>2, <1>3, <1>4, <1>5 DEF Sound

LEMMA StreamsCall ==
    ASSUME TypeInv, TextInv, NEW k \in Sends, NEW c \in ConvIds \ upset,
           c = call[k].conv, Sound(c), c \notin upset', Serve(k) \/ Lost(k)
    PROVE  Sound(c)'
<1>0. k \in RunningIn(c) /\ ~Lost(k) /\ call[k] \in Calls
  BY Types DEF Serve, Accept, Delta, Reply, Done, Fail, Lost, At, Running, RunningIn
<1>1. k \in RunningIn(c) /\ ~Lost(k) /\ call[k] \in Calls /\ fetch[c].at = "none"
  BY <1>0 DEF Sound
<1>2. CASE Accept(k) \/ Reply(k)
  <2>1. /\ \A j \in Sends : j # k => call'[j] = call[j]
        /\ call'[k].at \in Running /\ call'[k].conv = c
        /\ UNCHANGED <<view, controllers, fetch, loaded>>
    BY <1>2, GotoMoves DEF Accept, Reply, Running
  <2>2. RunningIn(c)' = RunningIn(c)
    BY <1>1, <2>1 DEF RunningIn
  <2>3. DoneIn(c)' = DoneIn(c) /\ \A j \in DoneIn(c) : Whole(j)' = Whole(j)
    BY <1>1, <2>1 DEF DoneIn, Whole, At, RunningIn, Running
  <2>4. Streams(c)' = Streams(c) /\ \A j : AskedIn(c, j)' = AskedIn(c, j)
    BY <2>1 DEF Streams, AskedIn
  <2>5. \A j \in DoneIn(c) : ShownIn(c, j)'
    BY <2>1, <2>3, <2>4 DEF Sound, ShownIn
  <2>6. QED BY <1>1, <2>1, <2>2, <2>3, <2>4, <2>5 DEF Sound
<1>3. CASE Delta(k)
  <2>1. /\ \A j \in Sends : j # k => call'[j] = call[j]
        /\ call'[k].at = "open" /\ call'[k].conv = c /\ At(k, "open")
        /\ UNCHANGED <<controllers, fetch, loaded>>
        /\ view'[c].sending = view[c].sending
        /\ view'[c].messages = {WithDelta(m, k) : m \in view[c].messages}
    BY <1>1, <1>3, Types DEF Delta, Patch, Views, Calls, At
  <2>2. RunningIn(c)' = RunningIn(c)
    BY <1>1, <2>1 DEF RunningIn, Running
  <2>3. DoneIn(c)' = DoneIn(c) /\ k \notin DoneIn(c)
        /\ \A j \in DoneIn(c) : Whole(j)' = Whole(j)
    BY <2>1 DEF DoneIn, Whole, At
  <2>4. \A m \in view[c].messages :
           LET n == WithDelta(m, k)
           IN  /\ n.send = m.send /\ n.role = m.role /\ n.temp = m.temp
               /\ m.send # k => n = m
    BY Types DEF WithDelta, Bubble, Views, Messages
  <2>5. Streams(c)' = Streams(c)
    BY <2>1, <2>4 DEF Streams, Streaming
  <2>6. \A j : AskedIn(c, j) => AskedIn(c, j)'
    BY <2>1, <2>4 DEF AskedIn
  <2>7. ASSUME NEW j \in DoneIn(c)
        PROVE  ShownIn(c, j)'
    <3>1. Whole(j).send # k
      BY <2>3 DEF Whole, Text
    <3>2. Whole(j) \in view'[c].messages
      BY <2>1, <2>4, <3>1 DEF Sound, ShownIn
    <3>3. QED BY <2>3, <2>6, <3>2 DEF Sound, ShownIn
  <2>8. QED BY <1>1, <2>1, <2>2, <2>3, <2>5, <2>6, <2>7 DEF Sound
<1>4. CASE Done(k)
  <2>1. /\ \A j \in Sends : j # k => call'[j] = call[j]
        /\ call'[k].at = "done" /\ call'[k].conv = c /\ Whole(k)' = Whole(k)
    BY <1>4, GotoMoves DEF Done, Whole
  <2>2. /\ fetch' = fetch /\ controllers'[c] = NoSend /\ ~view'[c].sending
        /\ view'[c].messages = {Settled(m, k) : m \in view[c].messages}
    BY <1>4, Types DEF Done, Patch, Answered, Views
  <2>3. \A m \in view[c].messages :
           LET n == Settled(m, k)
           IN  /\ n.send = m.send /\ n.role = m.role
               /\ Bubble(m, k) => n = Text(k, "assistant", m.text, FALSE)
               /\ ~Bubble(m, k) => n = m
    <3>1. view[c].messages \subseteq Messages
      BY Types DEF Views
    <3>2. ASSUME NEW m \in Messages, Bubble(m, k)
          PROVE  Settled(m, k) = Text(k, "assistant", m.text, FALSE)
      BY <3>2 DEF Settled, Bubble, Messages, Text
    <3>3. \A m : ~Bubble(m, k) => Settled(m, k) = m
      BY DEF Settled
    <3>4. QED BY <3>1, <3>2, <3>3 DEF Bubble, Text
  <2>4. \A m \in view'[c].messages :
           /\ ~(Streaming(m) /\ m.send = k)
           /\ Streaming(m) => m \in view[c].messages
    BY <2>2, <2>3 DEF Bubble, Streaming, Text
  <2>5. ASSUME NEW m \in view[c].messages, ~Streaming(m)
        PROVE  m \in view'[c].messages
    <3>1. ~Bubble(m, k)
      BY <2>5 DEF Bubble, Streaming
    <3>2. Settled(m, k) = m
      BY <3>1 DEF Settled
    <3>3. QED BY <2>2, <3>2
  <2>6. ShownIn(c, k)'
    <3>1. PICK m \in view[c].messages : Streaming(m) /\ m.send = k
      BY <1>1 DEF Sound, Streams
    <3>2. m.text = call[k].text
      BY <3>1 DEF TextInv, PageInv, MessageOK
    <3>3. Settled(m, k) = Whole(k)
      BY <2>3, <3>1, <3>2 DEF Bubble, Streaming, Whole
    <3>4. AskedIn(c, k)'
      BY <1>1, <2>5 DEF Sound, AskedIn, Streaming
    <3>5. QED BY <2>1, <2>2, <3>3, <3>4 DEF ShownIn
  <2>7. call'[k].at \notin Running
    BY <2>1 DEF Running
  <2>8. QED BY <1>1, <2>1, <2>2, <2>4, <2>5, <2>6, <2>7, StreamsEnd
<1>5. CASE Fail(k)
  <2>1. /\ \A j \in Sends : j # k => call'[j] = call[j]
        /\ call'[k].at = "failed"
    BY <1>5, GotoMoves DEF Fail
  <2>2. /\ fetch' = fetch /\ controllers'[c] = NoSend /\ ~view'[c].sending
        /\ view'[c].messages = {m \in view[c].messages : ~Bubble(m, k)}
    BY <1>5, Types DEF Fail, Patch, Failed, Views
  <2>3. call'[k].at \notin Running /\ ~At(k, "done")'
    BY <2>1 DEF Running, At
  <2>4. \A m \in view'[c].messages : ~(Streaming(m) /\ m.send = k)
    BY <2>2 DEF Bubble, Streaming
  <2>5. \A m \in view[c].messages : ~Streaming(m) => m \in view'[c].messages
    BY <2>2 DEF Bubble, Streaming
  <2>6. QED BY <1>1, <2>1, <2>2, <2>3, <2>4, <2>5, StreamsEnd
<1>6. QED BY <1>1, <1>2, <1>3, <1>4, <1>5 DEF Serve

LEMMA StreamsStop ==
    ASSUME TypeInv, NEW c \in ConvIds \ upset, Sound(c), Stop(c)
    PROVE  Sound(c)'
<1>1. PICK k \in Sends : k = controllers[c] /\ k \in RunningIn(c)
  BY DEF Stop, Sound, RunningIn
<1>2. Goto(k, "stopped")
  BY <1>1, StoreAssumption DEF Stop, Abort, RunningIn, StoreAssumption
<1>3. /\ \A j \in Sends : j # k => call'[j] = call[j]
      /\ call'[k].at \notin Running /\ ~At(k, "done")'
  <2>1. /\ \A j \in Sends : j # k => call'[j] = call[j]
        /\ call'[k].at = "stopped"
    BY <1>2, GotoMoves
  <2>2. QED BY <2>1 DEF Running, At
<1>4. /\ fetch' = fetch /\ controllers'[c] = NoSend /\ ~view'[c].sending
      /\ view'[c].messages = {m \in view[c].messages : ~Streaming(m)}
  BY Types DEF Stop, Patch, Stopped, Views
<1>5. QED BY <1>1, <1>3, <1>4, StreamsEnd

LEMMA StreamStep ==
    TypeInv /\ TextInv /\ WaitInv /\ StreamInv /\ [Next]_vars => StreamInv'
<1> SUFFICES ASSUME TypeInv, TextInv, WaitInv, StreamInv, [Next]_vars,
                    NEW d \in ConvIds \ upset'
             PROVE  Sound(d)'
  BY DEF StreamInv
<1>1. d \in ConvIds \ upset /\ Sound(d)
  BY DEF StreamInv, Next, vars, Visit, Load, FetchReads, LoadDone, LoadFails, Stop,
         Send, SendNew, FirstSend, Create, Serve, Accept, Delta, Reply, Done, Fail, Lost, StoresLate
<1>2. ASSUME NEW c \in ConvIds, Visit(c) \/ Load(c)
      PROVE  Sound(d)'
  <2>1. CASE c = d
    BY <1>1, <1>2, <2>1, StreamsLoad
  <2>2. CASE c # d
    BY <1>1, <1>2, <2>2, SoundKept, Types
    DEF Visit, Load, FetchReads, LoadDone, LoadFails, Patch
  <2>3. QED BY <2>1, <2>2
<1>3. ASSUME NEW c \in ConvIds, NEW k \in Sends, Send(c, k) \/ SendNew(c, k)
      PROVE  Sound(d)'
  <2>1. CASE c = d
    BY <1>1, <1>3, <2>1, StreamsSend
  <2>2. CASE c # d
    <3>1. PICK v : Begin(c, k, v)
      BY <1>3 DEF Send, SendNew, FirstSend
    <3>2. /\ ~Used(k) /\ call'[k].conv = c /\ fetch' = fetch
          /\ \A j \in Sends : j # k => call'[j] = call[j]
          /\ view'[d] = view[d] /\ controllers'[d] = controllers[d]
      BY <1>1, <2>2, <3>1, Types DEF Begin, Patch, At, Used
    <3>3. d \in loaded => d \in loaded'
      BY <1>3 DEF Send, SendNew
    <3>4. QED BY <1>1, <2>2, <3>2, <3>3, SoundKept
  <2>3. QED BY <2>1, <2>2
<1>4. ASSUME NEW k \in Sends, Serve(k) \/ Lost(k)
      PROVE  Sound(d)'
  <2>1. CASE call[k].conv = d
    BY <1>1, <1>4, <2>1, StreamsCall
  <2>2. CASE call[k].conv # d
    <3>1. /\ \A j \in Sends : j # k => call'[j] = call[j]
          /\ call'[k].conv = call[k].conv
      <4>1. CASE Delta(k)
        BY <4>1, Types DEF Delta, Calls
      <4>2. CASE \E p : Goto(k, p)
        BY <4>2, GotoMoves
      <4>3. QED
        BY <1>4, <4>1, <4>2 DEF Serve, Accept, Reply, Done, Fail, Lost
    <3>2. /\ view'[d] = view[d] /\ controllers'[d] = controllers[d]
          /\ fetch' = fetch /\ loaded' = loaded
      BY <1>1, <1>4, <2>2, Types
      DEF Serve, Accept, Delta, Reply, Done, Fail, Lost, Patch
    <3>3. QED BY <1>1, <2>2, <3>1, <3>2, SoundKept
  <2>3. QED BY <2>1, <2>2
<1>5. ASSUME NEW c \in ConvIds, Stop(c)
      PROVE  Sound(d)'
  <2>1. CASE c = d
    BY <1>1, <1>5, <2>1, StreamsStop
  <2>2. CASE c # d
    <3>1. PICK k \in Sends \cup {NoSend} : k = controllers[c]
      BY Types
    <3>2. \A j \in Sends : /\ j # k => call'[j] = call[j]
                           /\ j = k => call[j].conv = c /\ call'[j].conv = c
      <4>1. k \in Sends => call[k].conv = c
        BY <3>1, StoreAssumption DEF StoreAssumption, WaitInv, Waits, OwnController
      <4>2. CASE k \in Sends /\ Goto(k, "stopped")
        BY <4>1, <4>2, GotoMoves
      <4>3. CASE UNCHANGED call
        BY <4>1, <4>3
      <4>4. QED
        BY <1>5, <3>1, <4>2, <4>3 DEF Stop, Abort
    <3>3. /\ view'[d] = view[d] /\ controllers'[d] = controllers[d]
          /\ fetch' = fetch /\ loaded' = loaded
      BY <1>1, <1>5, <2>2, Types DEF Stop, Patch
    <3>4. QED BY <1>1, <2>2, <3>2, <3>3, SoundKept
  <2>3. QED BY <2>1, <2>2
<1>6. ASSUME NEW k \in Sends, StoresLate(k)
      PROVE  Sound(d)'
  BY <1>1, <1>6, SoundKept DEF StoresLate
<1>7. CASE UNCHANGED vars
  BY <1>1, <1>7, SoundKept DEF vars
<1>8. ASSUME NEW c \in ConvIds, Create(c)
      PROVE  Sound(d)'
  BY <1>1, <1>8, SoundKept DEF Create
<1>9. QED BY <1>2, <1>3, <1>4, <1>5, <1>6, <1>7, <1>8, Steps

LEMMA StreamsHold == Spec => [](TypeInv /\ TextInv /\ WaitInv /\ StreamInv)
BY InitWaits, InitStreams, WaitStep, StreamStep, TextHolds, PTL DEF Spec

(* Where sends wait for the messages, no call is lost, and nobody loads a  *)
(* new conversation or writes to it before sendNew has the create's answer,*)
(* the stop button, the controller that it aborts, the bubble and the call *)
(* go together: a conversation has all four of one send, or none           *)
(* (messages-context.tsx:124, 146, 156, 168, 189).                         *)
THEOREM StopButtonAborts == Spec => []OneStream
<1>1. StreamInv => OneStream
  BY DEF StreamInv, Sound, Streams, OneStream
<1>2. QED BY <1>1, StreamsHold, PTL

(* There too, a reply whose last event was handled is on the page, whole,  *)
(* with its question, and no load that was under way takes it away again   *)
(* (messages-context.tsx:81, 132, 168, 169).                               *)
THEOREM RepliesStay == Spec => []ReplyShown
<1>1. TypeInv /\ StreamInv => ReplyShown
  <2> SUFFICES ASSUME TypeInv, StreamInv, NEW k \in Sends, At(k, "done"),
                      call[k].conv \notin upset
               PROVE  Shown(k)
    BY DEF ReplyShown
  <2>1. call[k].conv \in ConvIds
    BY Types DEF At, Used
  <2>2. ShownIn(call[k].conv, k)
    BY <2>1 DEF StreamInv, Sound, DoneIn
  <2>3. QED BY <2>2 DEF ShownIn, AskedIn, Whole, Shown
<1>2. QED BY <1>1, StreamsHold, PTL
=============================================================================
