---------------------------- MODULE ReplyStream ----------------------------
(***************************************************************************)
(* One reply on its way: the lines of a model call's body as stream of     *)
(* api/openrouter.go reads them, what Send of api/chat.go keeps, stores    *)
(* and writes as events, the wire, which cuts them anywhere, and the loop  *)
(* of sendMessage with parseSSE (web/src/lib/api.ts) that puts them        *)
(* together again for the handlers.                                        *)
(*                                                                         *)
(* A text, and a count of tokens, is known by the line that it came in.    *)
(* On the wire a frame is its two lines, each in two halves so that a cut  *)
(* may fall inside it, with their ends of line, and an empty line.         *)
(*                                                                         *)
(* An operator named Slip<Name> is <Name> as a plausible mistake would     *)
(* have it; no specification uses it, and some property must notice it.    *)
(***************************************************************************)
EXTENDS Integers, Sequences, FiniteSets, FiniteSetsExt

CONSTANTS
    MaxLines,   \* bound: the lines of a body
    Faults      \* "database": a statement fails; "network": the wire is cut

ASSUME StreamAssumption ==
    MaxLines \in Nat /\ Faults \subseteq {"database", "network"}

\* other: no data, or data that is no chunk; both: a text and the usage.
Lines == {"other", "text", "usage", "both", "[DONE]"}

VARIABLES
    body,      \* external: the lines that the model call answers with
    breaks,    \* external: whether an error ends them
    first,     \* firstMessage
    at,        \* the handler's next step
    line,      \* lines read
    reply, usage,
    stored,    \* the row of the reply, if there is one
    charged,   \* the row of the ledger, if there is one
    wire,      \* what was written and has not arrived
    buffer,
    call,      \* sendMessage
    written,   \* history: the events written
    arrived,   \* history: how much of them has arrived
    handled    \* history: the events handled

upstream == <<body, breaks, first>>
handler  == <<at, line, reply, usage, stored, charged>>
client   == <<buffer, call, arrived, handled>>
vars     == <<upstream, handler, client, wire, written>>

\* The numbers of a finite set, the least first: SetToSortSeq(S, <).
Ascending(S) == [k \in 1..Cardinality(S) |->
                    CHOOSE x \in S : Cardinality({y \in S : y <= x}) = k]

Event(name, k) == [event |-> name, data |-> k]
Events == [event : {"delta", "done", "title", "error"}, data : 0..MaxLines]

NL == <<"newline">>
Frame(ev) == << <<"event", 1, ev>>, <<"event", 2, ev>>, NL,
                <<"data", 1, ev>>, <<"data", 2, ev>>, NL, NL >>
FrameSize == 7

Bodies == UNION {[1..n -> Lines] : n \in 0..MaxLines}

TypeOK ==
    /\ body \in Bodies /\ breaks \in BOOLEAN /\ first \in BOOLEAN
    /\ at \in {"stream", "save", "charge", "done", "title", "ended"}
    /\ line \in 0..Len(body)
    /\ reply \in Seq(1..MaxLines) /\ usage \in 0..MaxLines
    /\ stored \subseteq {reply} /\ charged \subseteq {usage}
    /\ written \in Seq(Events) /\ handled \in Seq(Events)
    /\ arrived + Len(wire) <= FrameSize * Len(written)
    /\ Len(buffer) <= arrived
    /\ call \in {"open", "returned", "broken"}

Init ==
    /\ body \in Bodies /\ breaks \in BOOLEAN /\ first \in BOOLEAN
    /\ at = "stream" /\ line = 0
    /\ reply = <<>> /\ usage = 0
    /\ stored = {} /\ charged = {}
    /\ wire = <<>> /\ buffer = <<>>
    /\ call = "open"
    /\ written = <<>> /\ arrived = 0 /\ handled = <<>>

-----------------------------------------------------------------------------
(* The handler.                                                            *)

\* writeSSE; what is written to a connection that is cut is lost.
Write(ev) ==
    /\ written' = Append(written, ev)
    /\ wire' = IF call = "broken" THEN wire ELSE wire \o Frame(ev)
Silent == UNCHANGED <<written, wire>>

Goto(p) == at' = p

HasText(k)  == body[k] \in {"text", "both"}
HasUsage(k) == body[k] \in {"usage", "both"}

\* Slip: the marker of the end is skipped like any other line without a chunk.
SlipEndsAt(k) == FALSE
EndsAt(k) == body[k] = "[DONE]"

\* Slip: counts add up, as if each were a part.
SlipUsageAfter(k) == IF HasUsage(k) THEN usage + k ELSE usage

\* A later count replaces an earlier one.
UsageAfter(k) == IF HasUsage(k) THEN k ELSE usage

ReadLine ==
    LET k == line + 1
    IN  /\ at = "stream" /\ line < Len(body)
        /\ line' = k
        /\ Goto(IF EndsAt(k) THEN "save" ELSE "stream")
        /\ usage' = UsageAfter(k)
        /\ IF HasText(k)
           THEN reply' = Append(reply, k) /\ Write(Event("delta", k))
           ELSE UNCHANGED reply /\ Silent
        /\ UNCHANGED <<upstream, stored, charged, client>>

\* Slip: no return after the event.
SlipStreamFails ==
    /\ at = "stream" /\ line = Len(body) /\ breaks
    /\ Write(Event("error", 0))
    /\ Goto("save")
    /\ UNCHANGED <<upstream, line, reply, usage, stored, charged, client>>

StreamFails ==
    /\ at = "stream" /\ line = Len(body) /\ breaks
    /\ Write(Event("error", 0))
    /\ Goto("ended")
    /\ UNCHANGED <<upstream, line, reply, usage, stored, charged, client>>

\* A body that ends without its marker is as good as one that has it.
StreamEnds ==
    /\ at = "stream" /\ line = Len(body) /\ ~breaks
    /\ Goto("save")
    /\ Silent
    /\ UNCHANGED <<upstream, line, reply, usage, stored, charged, client>>

Save ==
    /\ at = "save"
    /\ \/ stored' = {reply} /\ Goto("charge") /\ Silent
       \/ /\ "database" \in Faults
          /\ Write(Event("error", 0)) /\ Goto("ended") /\ UNCHANGED stored
    /\ UNCHANGED <<upstream, line, reply, usage, charged, client>>

Charge ==
    /\ at = "charge"
    /\ Goto("done")
    /\ \/ charged' = {usage}
       \/ "database" \in Faults /\ UNCHANGED charged
    /\ Silent
    /\ UNCHANGED <<upstream, line, reply, usage, stored, client>>

Done ==
    /\ at = "done"
    /\ Write(Event("done", 0))
    /\ Goto(IF first THEN "title" ELSE "ended")
    /\ UNCHANGED <<upstream, line, reply, usage, stored, charged, client>>

Title ==
    /\ at = "title"
    /\ Write(Event("title", 0))
    /\ Goto("ended")
    /\ UNCHANGED <<upstream, line, reply, usage, stored, charged, client>>

-----------------------------------------------------------------------------
(* The browser.                                                            *)

\* The events whose line of that kind is whole in a frame.
Whole(frame, kind) ==
    {ev \in Events : \E i \in 1..(Len(frame) - 1) :
        frame[i] = <<kind, 1, ev>> /\ frame[i + 1] = <<kind, 2, ev>>}

DataOf(frame) == IF Whole(frame, "data") = {} THEN 0
                 ELSE (CHOOSE ev \in Whole(frame, "data") : TRUE).data

\* A frame without its event's name is none; no frame has half a line.
ParseFrame(frame) == {Event(ev.event, DataOf(frame)) : ev \in Whole(frame, "event")}

\* The loop takes newlines away two at a time: an end is at every second one
\* of those that follow each other.
NewlinesTo(b, i) == i - Max({0} \cup {j \in 1..i : b[j] # NL})
FrameEnds(b) == {i \in 1..Len(b) : NewlinesTo(b, i) > 0 /\ NewlinesTo(b, i) % 2 = 0}

\* Frame k of those that end at the places of ends, and where the next begins.
NextFrom(ends, k) == IF k = 0 THEN 1 ELSE ends[k] + 1
FrameOf(b, ends, k) == SubSeq(b, NextFrom(ends, k - 1), ends[k] - 2)

\* Slip: one frame for each chunk.
SlipParseSSE(b) ==
    LET ends == Ascending(FrameEnds(b))
    IN  IF ends = <<>> THEN [events |-> <<>>, rest |-> b]
        ELSE [events |-> <<CHOOSE ev \in ParseFrame(FrameOf(b, ends, 1)) : TRUE>>,
              rest   |-> SubSeq(b, ends[1] + 1, Len(b))]

\* What the loop gives: the events of the frames that have one, and what
\* follows the last end.
ParseSSE(b) ==
    LET ends  == Ascending(FrameEnds(b))
        named == Ascending({k \in DOMAIN ends : ParseFrame(FrameOf(b, ends, k)) # {}})
    IN  [events |-> [k \in DOMAIN named |->
                        CHOOSE ev \in ParseFrame(FrameOf(b, ends, named[k])) : TRUE],
         rest   |-> SubSeq(b, NextFrom(ends, Len(ends)), Len(b))]

\* The next n pieces arrive as one chunk.
Receive(n) ==
    /\ call = "open" /\ n <= Len(wire)
    /\ wire' = SubSeq(wire, n + 1, Len(wire))
    /\ arrived' = arrived + n
    /\ LET parsed == ParseSSE(buffer \o SubSeq(wire, 1, n))
       IN  handled' = handled \o parsed.events /\ buffer' = parsed.rest
    /\ UNCHANGED <<upstream, handler, call, written>>

Finish ==
    /\ call = "open" /\ at = "ended" /\ wire = <<>>
    /\ call' = "returned"
    /\ UNCHANGED <<upstream, handler, wire, buffer, written, arrived, handled>>

\* The connection breaks, or the user stops the call.
Break ==
    /\ "network" \in Faults
    /\ call = "open"
    /\ call' = "broken" /\ wire' = <<>>
    /\ UNCHANGED <<upstream, handler, buffer, written, arrived, handled>>

-----------------------------------------------------------------------------
MaxWire == FrameSize * (MaxLines + 2)

Next ==
    \/ ReadLine \/ StreamFails \/ StreamEnds
    \/ Save \/ Charge \/ Done \/ Title
    \/ \E n \in 1..MaxWire : Receive(n)
    \/ Finish \/ Break

Spec == Init /\ [][Next]_vars

-----------------------------------------------------------------------------
Named(evs, name) == {i \in DOMAIN evs : evs[i].event = name}
Deltas(evs) == LET ds == Ascending(Named(evs, "delta"))
               IN  [i \in DOMAIN ds |-> evs[ds[i]].data]

\* However the wire cuts the stream, the handlers have seen exactly the events
\* that have arrived whole, each once and in order (api.ts:251-273).
HandledAsWritten == handled = SubSeq(written, 1, arrived \div FrameSize)

\* The lines that count: all before the marker.
Counted == {k \in 1..line : \A j \in 1..k : body[j] # "[DONE]"}

\* What is stored and charged is what the model call said up to its marker,
\* every text once and the last of its counts; and when a client is told that
\* its reply is done, it has been given the text that is stored (openrouter.go:75-104;
\* chat.go:279-307).
StoredAsSaid ==
    /\ stored \subseteq {Ascending({k \in Counted : HasText(k)})}
    /\ charged \subseteq {Max({0} \cup {k \in Counted : HasUsage(k)})}
    /\ Named(handled, "done") # {} => stored = {Deltas(handled)}

\* A call that runs to its end is told how it ended, once and after all of its
\* text: done, with a title or without, or an error (chat.go:284-317).
OneVerdict ==
    call = "returned" =>
        LET n == Len(Deltas(handled))
        IN  [i \in 1..(Len(handled) - n) |-> handled[n + i].event]
                \in {<<"done">>, <<"done", "title">>, <<"error">>}
=============================================================================
