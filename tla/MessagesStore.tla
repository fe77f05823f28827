--------------------------- MODULE MessagesStore ---------------------------
(***************************************************************************)
(* The web client's message store (web/src/lib/messages-context.tsx) with  *)
(* the streaming call under it (sendMessage in web/src/lib/api.ts) and the *)
(* two pages that drive it: one tab's state, patched by the answers of     *)
(* loads and by the events of streams, in whatever order these arrive.     *)
(* JavaScript runs one callback at a time, and a callback is one step.     *)
(*                                                                         *)
(* A send is known by its number, as its two temporary ids are.  A message *)
(* has the send it belongs to, the number of deltas of its text, and       *)
(* whether its id is still a temporary one; an assistant's message with a  *)
(* temporary id is the bubble of a stream.  The server is external: what   *)
(* it has stored, and when a call of its is answered.                      *)
(*                                                                         *)
(* An operator named Slip<Name> is <Name> as a plausible mistake would     *)
(* have it; no specification uses it, and some property must notice it.    *)
(***************************************************************************)
EXTENDS Integers, FiniteSets

CONSTANTS
    Old,       \* conversations that exist from the start
    New,       \* those that sendNew creates; until then, ids of nothing
    Sends, NoSend,
    MaxText,   \* bound: deltas of a reply
    Faults     \* "hasty": sends before the messages are there; "network"

ConvIds == Old \cup New

ASSUME StoreAssumption ==
    /\ Old \cap New = {}
    /\ NoSend \notin Sends
    /\ MaxText \in Nat
    /\ Faults \subseteq {"hasty", "network"}

VARIABLES
    view,         \* byId
    loaded,       \* the ids not to be fetched again
    controllers,  \* the abort controller of an id, by its send
    fetch,        \* the getMessages in flight, one per id at most
    call,         \* the sendMessage calls
    creating,     \* those that the server has created and sendNew awaits
    exists,       \* external: the conversations the server has
    stored,       \* external: the messages the server has
    upset         \* history: where a send was hasty or crossed, or a call lost

vars == <<view, loaded, controllers, fetch, call, creating, exists, stored,
          upset>>

Text(k, role, n, temp) == [send |-> k, role |-> role, text |-> n, temp |-> temp]

Messages == [send : Sends, role : {"user", "assistant"}, text : 0..MaxText,
             temp : BOOLEAN]

\* An id that byId lacks is shown, and patched, as LOADING.
LOADING == [messages |-> {}, loading |-> TRUE, error |-> FALSE,
            notFound |-> FALSE, sending |-> FALSE]
Filled(ms) == [LOADING EXCEPT !.messages = ms, !.loading = FALSE]

NoFetch == [at |-> "none", found |-> FALSE, rows |-> {}]

Running == {"posted", "open", "answered"}

TypeOK ==
    /\ view \in [ConvIds -> [messages : SUBSET Messages, loading : BOOLEAN,
                             error : BOOLEAN, notFound : BOOLEAN,
                             sending : BOOLEAN]]
    /\ loaded \subseteq ConvIds
    /\ controllers \in [ConvIds -> Sends \cup {NoSend}]
    /\ fetch \in [ConvIds -> [at : {"none", "asked", "read"}, found : BOOLEAN,
                              rows : SUBSET Messages]]
    /\ call \in [Sends -> [at : {"unused", "done", "failed", "stopped", "lost"}
                                \cup Running,
                           conv : ConvIds \cup {"none"}, text : 0..MaxText]]
    /\ creating \subseteq exists \cap New /\ exists \subseteq ConvIds
    /\ stored \subseteq Messages
    /\ upset \subseteq ConvIds

Init ==
    /\ view = [c \in ConvIds |-> LOADING]
    /\ loaded = {}
    /\ controllers = [c \in ConvIds |-> NoSend]
    /\ fetch = [c \in ConvIds |-> NoFetch]
    /\ call = [k \in Sends |-> [at |-> "unused", conv |-> "none", text |-> 0]]
    /\ creating = {}
    /\ exists = Old
    /\ stored = {}
    /\ upset = {}

At(k, p) == call[k].at = p
Goto(k, p) == call' = [call EXCEPT ![k].at = p]
Patch(c, v) == view' = [view EXCEPT ![c] = v]

\* m.id === assistantId
Bubble(m, k) == m.send = k /\ m.role = "assistant" /\ m.temp
Streaming(m) == m.role = "assistant" /\ m.temp

-----------------------------------------------------------------------------
(* Loading.                                                                *)

\* A page for the id, which a link or a URL names, is mounted: useMessages and
\* load.
Visit(c) ==
    /\ c \notin loaded
    /\ loaded' = loaded \cup {c}
    /\ fetch' = [fetch EXCEPT ![c] = [NoFetch EXCEPT !.at = "asked"]]
    /\ UNCHANGED <<view, controllers, call, creating, exists, stored, upset>>

\* External: the server answers with what it has at this moment.
FetchReads(c) ==
    /\ fetch[c].at = "asked"
    /\ fetch' = [fetch EXCEPT ![c] =
          [at |-> "read", found |-> c \in exists,
           rows |-> {m \in stored : call[m.send].conv = c}]]
    /\ UNCHANGED <<view, loaded, controllers, call, creating, exists, stored,
                   upset>>

\* Slip: the answer is added to what is there.
SlipAnswer(c) == view[c].messages \cup fetch[c].rows

Answer(c) == fetch[c].rows

LoadDone(c) ==
    /\ fetch[c].at = "read" /\ fetch[c].found
    /\ Patch(c, Filled(Answer(c)))
    /\ fetch' = [fetch EXCEPT ![c] = NoFetch]
    /\ UNCHANGED <<loaded, controllers, call, creating, exists, stored, upset>>

FailedLoad(c, nf) ==
    [view[c] EXCEPT !.loading = FALSE, !.error = ~nf, !.notFound = nf]

LoadFails(c) ==
    /\ \/ /\ fetch[c].at = "read" /\ ~fetch[c].found
          /\ Patch(c, FailedLoad(c, TRUE))
       \/ /\ fetch[c].at # "none" /\ "network" \in Faults
          /\ Patch(c, FailedLoad(c, FALSE))
    /\ loaded' = loaded \ {c}       \* a later visit tries again
    /\ fetch' = [fetch EXCEPT ![c] = NoFetch]
    /\ UNCHANGED <<controllers, call, creating, exists, stored, upset>>

-----------------------------------------------------------------------------
(* Sending.                                                                *)

Optimistic(v, k) ==
    [v EXCEPT !.error = FALSE, !.sending = TRUE,
              !.messages = @ \cup {Text(k, "user", 0, TRUE),
                                   Text(k, "assistant", 0, TRUE)}]

Begin(c, k, v) ==
    /\ At(k, "unused")
    /\ Patch(c, Optimistic(v, k))
    /\ controllers' = [controllers EXCEPT ![c] = k]
    /\ call' = [call EXCEPT ![k] = [at |-> "posted", conv |-> c, text |-> 0]]
    /\ UNCHANGED <<fetch, stored>>

\* The composer of a page takes text unless a send is shown.  It does so as well
\* while the messages load and after they failed to: whoever uses it then is
\* hasty.
Calm(c)  == c \in loaded /\ fetch[c].at = "none"
Hasty(c) == "hasty" \in Faults /\ (c \in loaded \/ ~view[c].loading)

Send(c, k) ==
    /\ ~view[c].notFound /\ ~view[c].sending
    /\ Calm(c) \/ Hasty(c)
    /\ Begin(c, k, view[c])
    /\ upset' = IF Calm(c) THEN upset ELSE upset \cup {c}
    /\ UNCHANGED <<loaded, creating, exists>>

\* External: the create that the home page asked for.  Its answer may take any
\* time, or never arrive, and the list may show the conversation before it does.
Create(c) ==
    /\ c \in New \ exists
    /\ exists' = exists \cup {c}
    /\ creating' = creating \cup {c}
    /\ UNCHANGED <<view, loaded, controllers, fetch, call, stored, upset>>

\* The user was there before the answer: its messages load, or were sent to.
Crossed(c) == fetch[c].at # "none" \/ \E k \in Sends : call[k].conv = c

FirstSend(c, k) ==
    /\ c \in creating
    /\ creating' = creating \ {c}
    /\ Begin(c, k, Filled({}))
    /\ upset' = IF Crossed(c) THEN upset \cup {c} ELSE upset
    /\ UNCHANGED exists

\* Slip: the new conversation is not marked, so that its page loads it.
SlipSendNew(c, k) == FirstSend(c, k) /\ UNCHANGED loaded

\* The create is answered: mark as loaded, empty the page and send.
SendNew(c, k) == FirstSend(c, k) /\ loaded' = loaded \cup {c}

-----------------------------------------------------------------------------
(* The call: "posted" until the response is there, with a 401, a refresh   *)
(* and a second request in between or not; then "open" until the reply is  *)
(* stored, and "answered" until the done event is handled.                 *)

\* External: the user's message is stored and the stream begins.
Accept(k) ==
    /\ At(k, "posted") /\ call[k].conv \in exists
    /\ Goto(k, "open")
    /\ stored' = stored \cup {Text(k, "user", 0, FALSE)}
    /\ UNCHANGED <<view, loaded, controllers, fetch, creating, exists, upset>>

\* Slip: the delta goes to whatever bubble is streaming.
SlipWithDelta(m, k) == IF Streaming(m) /\ m.text < MaxText
                       THEN [m EXCEPT !.text = @ + 1] ELSE m

WithDelta(m, k) == IF Bubble(m, k) THEN [m EXCEPT !.text = @ + 1] ELSE m

Delta(k) ==
    LET c == call[k].conv
    IN  /\ At(k, "open") /\ call[k].text < MaxText
        /\ call' = [call EXCEPT ![k].text = @ + 1]
        /\ Patch(c, [view[c] EXCEPT
              !.messages = {WithDelta(m, k) : m \in view[c].messages}])
        /\ UNCHANGED <<loaded, controllers, fetch, creating, exists, stored,
                       upset>>

\* External: the reply is stored.
Reply(k) ==
    /\ At(k, "open")
    /\ Goto(k, "answered")
    /\ stored' = stored \cup {Text(k, "assistant", call[k].text, FALSE)}
    /\ UNCHANGED <<view, loaded, controllers, fetch, creating, exists, upset>>

\* Slip: the last event is taken for one more delta.
SlipSettled(m, k) == IF Bubble(m, k) THEN [m EXCEPT !.temp = FALSE, !.text = @ + 1]
                                     ELSE m

Settled(m, k) == IF Bubble(m, k) THEN [m EXCEPT !.temp = FALSE] ELSE m

\* Slip: only an error, or the user, ends a send.
SlipAnswered(c, k) ==
    [view[c] EXCEPT !.messages = {Settled(m, k) : m \in view[c].messages}]

Answered(c, k) ==
    [view[c] EXCEPT !.sending = FALSE,
                    !.messages = {Settled(m, k) : m \in view[c].messages}]

\* onDone: the entry of controllers goes, whosoever it is.
Done(k) ==
    LET c == call[k].conv
    IN  /\ At(k, "answered")
        /\ Goto(k, "done")
        /\ Patch(c, Answered(c, k))
        /\ controllers' = [controllers EXCEPT ![c] = NoSend]
        /\ UNCHANGED <<loaded, fetch, creating, exists, stored, upset>>

Failed(c, k) ==
    [view[c] EXCEPT !.sending = FALSE, !.error = TRUE,
                    !.messages = {m \in @ : ~Bubble(m, k)}]

\* onError: a response that is not ok, or an error event in the stream.  The
\* server may have stored the question, and then not have gone on.
Fail(k) ==
    LET c == call[k].conv
    IN  /\ At(k, "posted") \/ At(k, "open")
        /\ Goto(k, "failed")
        /\ Patch(c, Failed(c, k))
        /\ controllers' = [controllers EXCEPT ![c] = NoSend]
        /\ \/ UNCHANGED stored
           \/ c \in exists /\ stored' = stored \cup {Text(k, "user", 0, FALSE)}
        /\ UNCHANGED <<loaded, fetch, creating, exists, upset>>

\* The connection breaks, or the stream ends without a last event: the call
\* throws or returns, and no handler is called.
Lost(k) ==
    /\ "network" \in Faults
    /\ call[k].at \in Running
    /\ Goto(k, "lost")
    /\ upset' = upset \cup {call[k].conv}
    /\ UNCHANGED <<view, loaded, controllers, fetch, creating, exists, stored>>

HasRow(k, role) == \E m \in stored : m.send = k /\ m.role = role

\* External: the server has not noticed yet that nobody listens.
StoresLate(k) ==
    /\ At(k, "stopped") \/ At(k, "lost")
    /\ \/ /\ call[k].conv \in exists /\ ~HasRow(k, "user")
          /\ stored' = stored \cup {Text(k, "user", 0, FALSE)}
       \/ /\ HasRow(k, "user") /\ ~HasRow(k, "assistant")
          /\ \E n \in call[k].text..MaxText :
                stored' = stored \cup {Text(k, "assistant", n, FALSE)}
    /\ UNCHANGED <<view, loaded, controllers, fetch, call, creating, exists, upset>>

\* Slip: the text that came so far stays on the screen.
SlipStopped(v) == [v EXCEPT !.sending = FALSE]

Stopped(v) ==
    [v EXCEPT !.sending = FALSE, !.messages = {m \in @ : ~Streaming(m)}]

Abort(k) ==
    IF k # NoSend /\ call[k].at \in Running THEN Goto(k, "stopped")
                                            ELSE UNCHANGED call

\* The stop button, which is there while a send is shown.
Stop(c) ==
    /\ view[c].sending
    /\ Abort(controllers[c])
    /\ controllers' = [controllers EXCEPT ![c] = NoSend]
    /\ Patch(c, Stopped(view[c]))
    /\ UNCHANGED <<loaded, fetch, creating, exists, stored, upset>>

-----------------------------------------------------------------------------
Load(c) == FetchReads(c) \/ LoadDone(c) \/ LoadFails(c)
Serve(k) == Accept(k) \/ Delta(k) \/ Reply(k) \/ Done(k) \/ Fail(k)

Next ==
    \/ \E c \in ConvIds : Visit(c) \/ Load(c) \/ Stop(c) \/ Create(c)
    \/ \E c \in ConvIds, k \in Sends : Send(c, k) \/ SendNew(c, k)
    \/ \E k \in Sends : Serve(k) \/ Lost(k) \/ StoresLate(k)

Spec == Init /\ [][Next]_vars

-----------------------------------------------------------------------------
(* What holds where every send waited for the messages, no call was lost,  *)
(* and sendNew, when its create was answered, found nobody there, whatever *)
(* goes on elsewhere.                                                      *)

RunningIn(c) == {k \in Sends : call[k].at \in Running /\ call[k].conv = c}

\* The stop button is there, and aborts the right call, exactly while a
\* stream runs, whose bubble is the only one: state, refs and calls agree
\* (messages-context.tsx:124, 146, 156, 189).
OneStream ==
    \A c \in ConvIds \ upset :
        /\ view[c].sending <=> RunningIn(c) # {}
        /\ RunningIn(c) = {controllers[c]} \ {NoSend}
        /\ {m.send : m \in {n \in view[c].messages : Streaming(n)}} = RunningIn(c)

\* A reply that the server has stored and announced is on the screen, whole,
\* and so is its question, however loads and streams overlap
\* (messages-context.tsx:81, 132, 169).
Shown(k) ==
    LET ms == view[call[k].conv].messages
    IN  /\ Text(k, "assistant", call[k].text, FALSE) \in ms
        /\ \E m \in ms : m.send = k /\ m.role = "user"

ReplyShown ==
    \A k \in Sends : At(k, "done") /\ call[k].conv \notin upset => Shown(k)

-----------------------------------------------------------------------------
(* What holds for any user and network.                                    *)

\* A stream writes to its own bubble only, and the bubble has all of what the
\* stream has brought, though each event finds it by searching the list
\* (messages-context.tsx:132).
TextIsWhole ==
    \A c \in ConvIds : \A m \in view[c].messages :
        /\ call[m.send].conv = c
        /\ m.role = "assistant" /\ (m.temp \/ At(m.send, "done")) =>
              m.text = call[m.send].text

\* No question and no reply is on the screen twice, once as sent and once as
\* loaded (messages-context.tsx:81, 107).
NoRowTwice ==
    \A c \in ConvIds : \A m, n \in view[c].messages :
        m.send = n.send /\ m.role = n.role => m = n

\* What is shown as going on has something going on that will end it: a send
\* its call, unless that was lost, and a page that loads its fetch.  And
\* a page that says that it could not be loaded, or is of nothing, can be asked
\* for again: its error, if no send's, is of a load that is no longer marked
\* (messages-context.tsx:74, 89, 90, 146, 158).
Unloadable(c) ==
    \/ view[c].notFound
    \/ view[c].error /\ \A k \in Sends : ~(At(k, "failed") /\ call[k].conv = c)

WaitsAreServed ==
    \A c \in ConvIds :
        /\ view[c].sending =>
              \E k \in Sends : /\ call[k].conv = c
                               /\ call[k].at \in Running \cup {"lost"}
        /\ view[c].loading => \/ fetch[c].at # "none"
                              \/ c \notin loaded /\ view[c] = LOADING
        /\ Unloadable(c) => fetch[c].at # "none" \/ c \notin loaded

-----------------------------------------------------------------------------
(* What a test says of the code, and it does not do.                       *)

\* messages-context.test.tsx:93: "send appends optimistic user + assistant and
\* streams deltas to done", hasty or not.  messages-context.tsx:169: a new one is
\* marked so that no mount "refetch[es] over the live stream", crossed or not.
EveryReplyShown == \A k \in Sends : At(k, "done") => Shown(k)
=============================================================================
