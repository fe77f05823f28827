----------------------------- MODULE Transcript -----------------------------
(***************************************************************************)
(* What the chat API promises of its conversations, with no handler,       *)
(* statement or request in sight.  A conversation is opened once, by one   *)
(* user, and once closed its id never stands for anything again.  While it *)
(* is open its transcript only grows: by questions, and by answers, each   *)
(* to a question that is in the same transcript, that no other answer      *)
(* answers, and that comes before it in the order of the ids.  A closed    *)
(* conversation takes its whole transcript with it, and nothing is ever    *)
(* written to it afterwards.                                               *)
(***************************************************************************)
EXTENDS Integers

CONSTANTS Users, NoUser, ConvIds, Ids

VARIABLES
    owner,   \* [ConvIds -> Users \cup {NoUser}]: who opened it, for ever
    open,    \* the conversations that can be read and written
    log      \* the messages, as rows [id, conv, role, ask]

tvars == <<owner, open, log>>

Question(c, i)  == [id |-> i, conv |-> c, role |-> "user", ask |-> i]
Answer(c, i, q) == [id |-> i, conv |-> c, role |-> "assistant", ask |-> q]

UnusedId(i) == \A m \in log : m.id # i

TInit ==
    /\ owner = [c \in ConvIds |-> NoUser]
    /\ open = {}
    /\ log = {}

Open(c) ==
    /\ owner[c] = NoUser
    /\ \E u \in Users : owner' = [owner EXCEPT ![c] = u]
    /\ open' = open \cup {c}
    /\ UNCHANGED log

Close(c) ==
    /\ c \in open
    /\ open' = open \ {c}
    /\ log' = {m \in log : m.conv # c}
    /\ UNCHANGED owner

Ask(c) ==
    /\ c \in open
    /\ \E i \in Ids : UnusedId(i) /\ log' = log \cup {Question(c, i)}
    /\ UNCHANGED <<owner, open>>

Reply(c) ==
    /\ c \in open
    /\ \E i, q \in Ids :
          /\ UnusedId(i) /\ q < i
          /\ Question(c, q) \in log
          /\ \A m \in log : m.role = "assistant" => m.ask # q
          /\ log' = log \cup {Answer(c, i, q)}
    /\ UNCHANGED <<owner, open>>

TNext == \E c \in ConvIds : Open(c) \/ Close(c) \/ Ask(c) \/ Reply(c)

TSpec == TInit /\ [][TNext]_tvars
=============================================================================
