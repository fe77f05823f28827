------------------------------ MODULE Sidebar ------------------------------
(***************************************************************************)
(* The sidebar of one tab (web/src/lib/conversations-context.tsx with      *)
(* conversation-item.tsx, sidebar.tsx and the Home page): a copy of the    *)
(* server's list of conversations that is loaded once and from then on     *)
(* patched by the answers of creates, renames and deletes and by the title *)
(* events of replies, in whatever order these arrive.  JavaScript runs one *)
(* callback at a time, and a callback is one step.                         *)
(*                                                                         *)
(* The titles that the server has stored for a conversation are a history, *)
(* and a title is known by its place in it; Untitled is stored first.  The *)
(* order of the list is left out: rows[c] are the titles under which c is  *)
(* listed, once as a rule.  What a user types is any of Titles.            *)
(*                                                                         *)
(* An operator named Slip<Name> is <Name> as a plausible mistake would     *)
(* have it; no specification uses it, and some property must notice it.    *)
(***************************************************************************)
EXTENDS Integers, Sequences, FiniteSets

CONSTANTS
    Old,       \* conversations that exist when the list is mounted
    New,       \* those that the Home page creates
    NoConv,    \* no conversation: the Home page
    Titles,    \* what a user may type
    MaxCalls,  \* bound: renames and deletes
    Faults     \* "network": an answer is lost; "server": a call is refused;
               \* "title": storing the automatic title fails, unnoticed

Convs == Old \cup New
Calls == 1..MaxCalls

Untitled   == "untitled"
FirstWords == "first words"   \* firstWords, of the one first message

ASSUME SidebarAssumption ==
    /\ Old \cap New = {} /\ NoConv \notin Convs
    /\ Titles \cap {Untitled, FirstWords} = {}
    /\ MaxCalls \in Nat
    /\ Faults \subseteq {"network", "server", "title"}

VARIABLES
    titles,      \* external: the titles stored, oldest first; none: unborn
    gone,        \* external: the conversations deleted
    rows,        \* conversations
    loading, error,
    load,        \* the call of listConversations
    create,      \* the calls of createConversation
    call,        \* the calls of renameConversation and deleteConversation
    auto,        \* the title events of first messages
    page,        \* the conversation of the route
    sending,     \* the create that disables the composer of Home
    upset,       \* history: where an answer was lost or came too late
    moved        \* history: the pages entered during their delete

server == <<titles, gone>>
screen == <<rows, loading, error>>
vars == <<server, screen, load, create, call, auto, page, sending,
          upset, moved>>

NoCall == [at |-> "unused", kind |-> "rename", conv |-> NoConv,
           title |-> Untitled, number |-> 0, open |-> FALSE]

NoLoad(p) == [at |-> p, rows |-> [c \in Convs |-> 0]]

TypeOK ==
    /\ titles \in [Convs -> Seq(Titles \cup {Untitled, FirstWords})]
    /\ gone \subseteq Convs
    /\ rows \in [Convs -> Seq(Titles \cup {Untitled, FirstWords})]
    /\ loading \in BOOLEAN /\ error \in BOOLEAN /\ ~(loading /\ error)
    /\ load \in [at : {"asked", "read", "ended"}, rows : [Convs -> Nat]]
    /\ create \in [New -> {"unused", "asked", "made", "done", "failed"}]
    /\ call \in [Calls -> [at : {"unused", "asked", "done", "refused", "ended"},
                           kind : {"rename", "delete"}, conv : Convs \cup {NoConv},
                           title : Titles \cup {Untitled}, number : Nat,
                           open : BOOLEAN]]
    /\ auto \in [Convs -> [at : {"none", "asked", "sent", "told"}, number : Nat]]
    /\ page \in Convs \cup {NoConv}
    /\ sending \in New \cup {NoConv} /\ (sending # NoConv => page = NoConv)
    /\ upset \subseteq Convs /\ moved \subseteq Convs

Init ==
    /\ titles \in [Convs -> {<<>>} \cup {<<t>> : t \in Titles \cup {Untitled}}]
    /\ \A c \in Convs : titles[c] = <<>> <=> c \in New
    /\ gone = {}
    /\ rows = [c \in Convs |-> <<>>]
    /\ loading = TRUE /\ error = FALSE
    /\ load = NoLoad("asked")
    /\ create = [c \in New |-> "unused"]
    /\ call = [k \in Calls |-> NoCall]
    /\ auto = [c \in Convs |-> [at |-> "none", number |-> 0]]
    /\ page \in Old \cup {NoConv}
    /\ sending = NoConv
    /\ upset = {} /\ moved = {}

-----------------------------------------------------------------------------
(* The server, and what the tab hears of it.                               *)

Newest(c) == Len(titles[c])
Live(c)   == titles[c] # <<>> /\ c \notin gone

Store(c, t) == titles' = [titles EXCEPT ![c] = Append(@, t)]

\* News of c that the server has sent and the tab has not received, and the
\* titles among them.
Coming(c) == {k \in Calls : call[k].conv = c /\ call[k].at = "done"}
Pending(c) ==
    \/ Coming(c) # {}
    \/ c \in New /\ create[c] = "made"
    \/ auto[c].at = "sent"
Unheard(c) == {call[k].number : k \in Coming(c)}
                \cup (IF auto[c].at = "sent" THEN {auto[c].number} ELSE {})

\* The tab is told the title of that number after it was told a later one.
Late(c, n) == n > 0 /\ \E i \in (n + 1)..Newest(c) : i \notin Unheard(c)
Told(c, n) == upset' = IF Late(c, n) THEN upset \cup {c} ELSE upset

\* Deletes of c that will not leave its page: under way, or over.
Blind(c) == \E k \in Calls :
    /\ call[k].conv = c
    /\ \/ call[k].at \in {"asked", "done"} /\ call[k].kind = "delete" /\ ~call[k].open
       \/ call[k].at = "ended" /\ c \in upset

\* prev.map((c) => (c.id === id ? { ...c, title } : c))
Retitled(c, t) == [rows EXCEPT ![c] = [i \in DOMAIN @ |-> t]]

Goto(c) ==
    /\ page' = c
    /\ sending' = NoConv
    /\ moved' = IF c # NoConv /\ Blind(c) THEN moved \cup {c} ELSE moved

-----------------------------------------------------------------------------
(* The first load.                                                         *)

\* List answers with the conversations there are at this moment.
LoadServed ==
    /\ load.at = "asked"
    /\ load' = [at |-> "read",
                rows |-> [c \in Convs |-> IF Live(c) THEN Newest(c) ELSE 0]]
    /\ UNCHANGED <<server, screen, create, call, auto, page, sending, upset,
                   moved>>

\* Listed twice: read, and then prepended by the create's late answer.  Never
\* listed: not read yet, and its row replaced.  Old title: the event was first.
Misread == {c \in New : create[c] = "made" /\ load.rows[c] > 0}
             \cup {c \in New : create[c] = "done" /\ load.rows[c] = 0}
             \cup {c \in Convs : load.rows[c] > 0 /\ Late(c, load.rows[c])}

\* Slip: the answer is added below the rows that are there.
SlipFilled == [c \in Convs |-> rows[c] \o (IF load.rows[c] = 0 THEN <<>>
                                           ELSE <<titles[c][load.rows[c]]>>)]

Filled == [c \in Convs |-> IF load.rows[c] = 0 THEN <<>>
                           ELSE <<titles[c][load.rows[c]]>>]

LoadArrives ==
    /\ load.at = "read"
    /\ load' = NoLoad("ended")
    /\ rows' = Filled
    /\ loading' = FALSE
    /\ upset' = upset \cup Misread
    /\ UNCHANGED <<server, error, create, call, auto, page, sending, moved>>

\* Slip: setLoading is called where the list is set, not finally.
SlipLoadFailed == error' = TRUE /\ UNCHANGED loading

LoadFailed == error' = TRUE /\ loading' = FALSE

LoadFails ==
    /\ \/ load.at = "asked" /\ "server" \in Faults
       \/ load.at # "ended" /\ "network" \in Faults
    /\ LoadFailed
    /\ load' = NoLoad("ended")
    /\ UNCHANGED <<server, rows, create, call, auto, page, sending, upset,
                   moved>>

-----------------------------------------------------------------------------
(* Creating, from the Home page.                                           *)

\* onSend, sendNew and create, as far as the call.
Create(c) ==
    /\ page = NoConv /\ sending = NoConv
    /\ create[c] = "unused"
    /\ create' = [create EXCEPT ![c] = "asked"]
    /\ sending' = c
    /\ UNCHANGED <<server, screen, load, call, auto, page, upset, moved>>

CreateServed(c) ==
    /\ create[c] = "asked"
    /\ create' = [create EXCEPT ![c] = "made"]
    /\ Store(c, Untitled)
    /\ UNCHANGED <<gone, screen, load, call, auto, page, sending, upset,
                   moved>>

\* The row is prepended, sendNew posts the first message, and Home, which the
\* user may have left, gives way to the new page.
CreateArrives(c) ==
    /\ create[c] = "made"
    /\ create' = [create EXCEPT ![c] = "done"]
    /\ rows' = [rows EXCEPT ![c] = <<Untitled>> \o @]
    /\ auto' = [auto EXCEPT ![c].at = "asked"]
    /\ Goto(c)
    /\ Told(c, 1)
    /\ UNCHANGED <<server, loading, error, load, call>>

\* Slip: the composer is not given back.
SlipFreed(c) == sending

Freed(c) == IF sending = c THEN NoConv ELSE sending

CreateFails(c) ==
    /\ \/ create[c] = "asked" /\ "server" \in Faults
       \/ create[c] \in {"asked", "made"} /\ "network" \in Faults
    /\ create' = [create EXCEPT ![c] = "failed"]
    /\ sending' = Freed(c)
    /\ upset' = IF create[c] = "made" THEN upset \cup {c} ELSE upset
    /\ UNCHANGED <<server, screen, load, call, auto, page, moved>>

-----------------------------------------------------------------------------
(* Titles from first messages.                                             *)

\* The first message of a conversation that has had none.
FirstMessage(c) ==
    /\ page = c /\ c \in Old
    /\ auto[c].at = "none"
    /\ auto' = [auto EXCEPT ![c].at = "asked"]
    /\ UNCHANGED <<server, screen, load, create, call, page, sending, upset,
                   moved>>

\* Send's last statement and its event.  The result of the UPDATE is ignored,
\* whether it failed or found no row.
TitleSent(c) ==
    /\ auto[c].at = "asked"
    /\ \/ /\ Live(c)
          /\ Store(c, FirstWords)
          /\ auto' = [auto EXCEPT ![c] = [at |-> "sent", number |-> Newest(c) + 1]]
          /\ UNCHANGED upset
       \/ /\ ~Live(c) \/ "title" \in Faults
          /\ auto' = [auto EXCEPT ![c] = [at |-> "sent", number |-> 0]]
          /\ upset' = IF Live(c) THEN upset \cup {c} ELSE upset
          /\ UNCHANGED titles
    /\ UNCHANGED <<gone, screen, load, create, call, page, sending, moved>>

\* onTitle and patchConversation.
TitleTold(c) ==
    /\ auto[c].at = "sent"
    /\ auto' = [auto EXCEPT ![c].at = "told"]
    /\ rows' = Retitled(c, FirstWords)
    /\ Told(c, auto[c].number)
    /\ UNCHANGED <<server, loading, error, load, create, call, page, sending,
                   moved>>

TitleLost(c) ==
    /\ auto[c].at = "sent" /\ "network" \in Faults
    /\ auto' = [auto EXCEPT ![c].at = "told"]
    /\ upset' = upset \cup {c}
    /\ UNCHANGED <<server, screen, load, create, call, page, sending, moved>>

-----------------------------------------------------------------------------
(* The rows and their calls.                                               *)

Listed(c) == ~loading /\ ~error /\ rows[c] # <<>>

\* The row's link, or the button for a new conversation.
Open(c) ==
    /\ page # c
    /\ c # NoConv => Listed(c)
    /\ Goto(c)
    /\ UNCHANGED <<server, screen, load, create, call, auto, upset>>

\* Calls are numbered as they are made.
Ask(k, kind, c, t) ==
    /\ call[k].at = "unused" /\ \A i \in 1..(k - 1) : call[i].at # "unused"
    /\ call' = [call EXCEPT ![k] = [at |-> "asked", kind |-> kind, conv |-> c,
                                    title |-> t, number |-> 0, open |-> page = c]]

\* Slip: the row has the title before the server has.
SlipRename(k, c, t) ==
    /\ Listed(c)
    /\ \E i \in DOMAIN rows[c] : t # rows[c][i]
    /\ Ask(k, "rename", c, t)
    /\ rows' = Retitled(c, t)
    /\ UNCHANGED <<server, loading, error, load, create, auto, page, sending,
                   upset, moved>>

\* saveRename; the input stays open until the answer.
Rename(k, c, t) ==
    /\ Listed(c)
    /\ \E i \in DOMAIN rows[c] : t # rows[c][i]
    /\ Ask(k, "rename", c, t)
    /\ UNCHANGED <<server, screen, load, create, auto, page, sending, upset,
                   moved>>

\* confirmDelete; isOpen is the one of the render that was clicked.
Delete(k, c) ==
    /\ Listed(c)
    /\ Ask(k, "delete", c, Untitled)
    /\ UNCHANGED <<server, screen, load, create, auto, page, sending, upset,
                   moved>>

\* Rename and Delete of chat.go: done, or no such row.
CallServed(k) ==
    LET c == call[k].conv
    IN  /\ call[k].at = "asked"
        /\ IF ~Live(c)
           THEN call' = [call EXCEPT ![k].at = "refused"] /\ UNCHANGED server
           ELSE IF call[k].kind = "rename"
           THEN /\ Store(c, call[k].title)
                /\ call' = [call EXCEPT ![k].at = "done", ![k].number = Newest(c) + 1]
                /\ UNCHANGED gone
           ELSE /\ gone' = gone \cup {c}
                /\ call' = [call EXCEPT ![k].at = "done"]
                /\ UNCHANGED titles
        /\ UNCHANGED <<screen, load, create, auto, page, sending, upset,
                       moved>>

\* A call that has ended is forgotten, but for what it deleted.
Ends(k, c) == call' = [call EXCEPT ![k] = [NoCall EXCEPT !.at = "ended", !.conv = c]]

RenameArrives(k) ==
    LET c == call[k].conv
    IN  /\ call[k].at = "done" /\ call[k].kind = "rename"
        /\ Ends(k, NoConv)
        /\ rows' = Retitled(c, call[k].title)
        /\ Told(c, call[k].number)
        /\ UNCHANGED <<server, loading, error, load, create, auto, page,
                       sending, moved>>

\* Slip: the page of the deleted conversation stays.
SlipLeaves(k) == FALSE

Leaves(k) == call[k].open

\* prev.filter((c) => c.id !== id), and router.push('/') if the row was open.
DeleteArrives(k) ==
    LET c == call[k].conv
    IN  /\ call[k].at = "done" /\ call[k].kind = "delete"
        /\ Ends(k, c)
        /\ rows' = [rows EXCEPT ![c] = <<>>]
        /\ IF Leaves(k) /\ page # NoConv
           THEN Goto(NoConv)
           ELSE UNCHANGED <<page, sending, moved>>
        /\ UNCHANGED <<server, loading, error, load, create, auto, upset>>

\* A toast, and the row is as it was: cancelEdit or setConfirming(false).
CallFails(k) ==
    LET c == call[k].conv
    IN  /\ \/ call[k].at = "refused"
           \/ call[k].at = "asked" /\ "server" \in Faults
           \/ call[k].at \in {"asked", "done"} /\ "network" \in Faults
        /\ Ends(k, NoConv)
        /\ upset' = IF call[k].at = "done" THEN upset \cup {c} ELSE upset
        /\ UNCHANGED <<server, screen, load, create, auto, page, sending,
                       moved>>

-----------------------------------------------------------------------------

Answering(k) == CallServed(k) \/ RenameArrives(k) \/ DeleteArrives(k) \/ CallFails(k)
Loading      == LoadServed \/ LoadArrives \/ LoadFails
Creating(c)  == CreateServed(c) \/ CreateArrives(c) \/ CreateFails(c)

Next ==
    \/ Loading
    \/ \E c \in New : Create(c) \/ Creating(c)
    \/ \E c \in Convs : FirstMessage(c) \/ TitleSent(c) \/ TitleTold(c)
                        \/ TitleLost(c)
    \/ \E c \in Convs \cup {NoConv} : Open(c)
    \/ \E k \in Calls : \/ \E c \in Convs : \/ Delete(k, c)
                                           \/ \E t \in Titles : Rename(k, c, t)
                         \/ Answering(k)

Spec == Init /\ [][Next]_vars

\* The browser sends each call, and answers it or reports that it cannot.
FairSpec ==
    /\ Spec
    /\ WF_vars(Loading)
    /\ \A c \in New : WF_vars(Creating(c))

-----------------------------------------------------------------------------
(* Properties.                                                             *)

\* A sidebar that is shown lists every conversation there is, once, under the
\* title the server has for it, and none that is gone, whenever no news of the
\* conversation is under way.  That is so although nothing is fetched again:
\* the title of a reply overwrites the user's, and deletes, renames and creates
\* cross each other and the load.  It is not so for conversations of which an
\* answer was lost, or was overtaken by a later one (conversations-context.tsx:37,
\* :52, :58, :71; chat.go:314).
InStep ==
    ~loading /\ ~error =>
        \A c \in Convs \ upset :
            ~Pending(c) => rows[c] = IF Live(c) THEN <<titles[c][Newest(c)]>>
                                               ELSE <<>>

\* However calls overlap and fail, the sidebar shows no title that the server
\* never stored: the user's are shown only once they are.  The automatic one
\* is the exception; its event comes even if storing it failed (chat.go:313).
TitlesAreStored ==
    \A c \in Convs : \A i \in DOMAIN rows[c] :
        \/ \E j \in DOMAIN titles[c] : titles[c][j] = rows[c][i]
        \/ rows[c][i] = FirstWords /\ auto[c] = [at |-> "told", number |-> 0]

\* A conversation deleted here does not stay on the screen, however its delete
\* crosses others: unless the user went there after the click, since isOpen is
\* as old as the click is (conversation-item.tsx:55).
NotStranded ==
    \A k \in Calls :
        call[k].at = "ended" /\ call[k].conv \in gone \ (upset \cup moved)
            => page # call[k].conv

\* The skeletons give way to a list or an error, and a Home page whose create
\* fails takes text again (conversations-context.tsx:42, page.tsx:22).
NothingHangs ==
    /\ loading ~> ~loading
    /\ \A c \in New : sending = c ~> sending # c
=============================================================================
