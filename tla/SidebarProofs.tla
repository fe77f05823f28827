---------------------------- MODULE SidebarProofs ----------------------------
(* Theorems about Sidebar, for every value of its constants.               *)
EXTENDS Sidebar, TLAPS

Texts == Titles \cup {Untitled, FirstWords}

Named(k) == call[k].at \in {"asked", "done", "refused"}

TypeInv == TypeOK /\ \A k \in Calls : Named(k) => call[k].conv \in Convs

(***************************************************************************)
(* What the server has.  A conversation begins untitled; a title that was  *)
(* sent is stored under its number; nothing is deleted before the list is  *)
(* there.                                                                  *)
(***************************************************************************)
LoadOK ==
    /\ loading <=> load.at # "ended"
    /\ loading => gone = {} /\ \A k \in Calls : call[k].at = "unused"
    /\ load.at = "read" => \A c \in Convs : /\ load.rows[c] <= Newest(c)
                                            /\ c \in Old => load.rows[c] > 0

BornOK(c) ==
    /\ c \in Old => titles[c] # <<>>
    /\ c \in New =>
          /\ create[c] \in {"unused", "asked"} => titles[c] = <<>>
          /\ create[c] \in {"made", "done"} =>
                titles[c] # <<>> /\ titles[c][1] = Untitled
          /\ create[c] = "failed" /\ c \notin upset => titles[c] = <<>>
          /\ create[c] # "done" => auto[c].at = "none"

AnswerOK(k) ==
    call[k].at = "done" =>
        LET c == call[k].conv
        IN  IF call[k].kind = "delete" THEN c \in gone
            ELSE /\ call[k].number \in 1..Newest(c)
                 /\ titles[c][call[k].number] = call[k].title

EventOK(c) ==
    auto[c].at = "sent" =>
        /\ auto[c].number \in 0..Newest(c)
        /\ IF auto[c].number = 0 THEN c \in gone \cup upset
                                 ELSE titles[c][auto[c].number] = FirstWords

ServerInv == /\ LoadOK
             /\ \A c \in Convs : BornOK(c) /\ EventOK(c)
             /\ \A k \in Calls : AnswerOK(k)

(***************************************************************************)
(* The rows.  A conversation is not listed before its create is answered;  *)
(* what is listed of a live one is a title of which every later one is     *)
(* still to come, and a dead one waits for the answer of its delete.       *)
(***************************************************************************)
Unlisted(c) ==
    c \in New /\ create[c] # "done" =>
        /\ rows[c] = <<>> /\ c \notin gone
        /\ \A k \in Calls : call[k].conv # c

Follows(c, n) ==
    /\ rows[c] = <<titles[c][n]>>
    /\ \A i \in (n + 1)..Newest(c) : i \in Unheard(c)

ListOK(c) ==
    ~loading /\ ~error =>
        /\ titles[c] = <<>> => rows[c] = <<>>
        /\ c \in gone /\ rows[c] # <<>> =>
              \E k \in Coming(c) : call[k].kind = "delete"
        /\ Live(c) => \/ c \in New /\ create[c] = "made"
                      \/ \E n \in 1..Newest(c) : Follows(c, n)

RowInv == \A c \in Convs \ upset : Unlisted(c) /\ ListOK(c)

(***************************************************************************)
(* The page.  A delete that was begun elsewhere, or is over, leaves a page *)
(* only to a user who goes there, and nobody can once the row is gone.     *)
(***************************************************************************)
Deleting(k) == call[k].at \in {"asked", "done"} /\ call[k].kind = "delete"

PageOK(k) ==
    LET c == call[k].conv
    IN  c \in Convs \ (upset \cup moved) =>
           /\ Deleting(k) /\ ~call[k].open => page # c
           /\ call[k].at = "ended" => page # c /\ rows[c] = <<>> /\ ~loading

PageInv == \A k \in Calls : PageOK(k)
-----------------------------------------------------------------------------
(* Types.                                                                  *)

CallRecs == [at : {"unused", "asked", "done", "refused", "ended"},
             kind : {"rename", "delete"}, conv : Convs \cup {NoConv},
             title : Titles \cup {Untitled}, number : Nat, open : BOOLEAN]
Events   == [at : {"none", "asked", "sent", "told"}, number : Nat]
Loads    == [at : {"asked", "read", "ended"}, rows : [Convs -> Nat]]

LEMMA Types ==
    ASSUME TypeInv
    PROVE  /\ titles \in [Convs -> Seq(Texts)] /\ rows \in [Convs -> Seq(Texts)]
           /\ gone \subseteq Convs /\ load \in Loads
           /\ create \in [New -> {"unused", "asked", "made", "done", "failed"}]
           /\ call \in [Calls -> CallRecs] /\ auto \in [Convs -> Events]
           /\ \A k \in Calls : Named(k) => call[k].conv \in Convs
BY DEF TypeInv, TypeOK, Texts, CallRecs, Events, Loads

LEMMA TextsAre == Untitled \in Texts /\ FirstWords \in Texts /\ Titles \subseteq Texts
BY DEF Texts

LEMMA OneText == ASSUME NEW t \in Texts PROVE <<t>> \in Seq(Texts)
OBVIOUS

\* A list of titles, and what becomes of it when each is replaced by another.
LEMMA RetitledTyped ==
    ASSUME NEW s \in Seq(Texts), NEW t \in Texts
    PROVE  /\ [i \in DOMAIN s |-> t] \in Seq(Texts)
           /\ Len([i \in DOMAIN s |-> t]) = Len(s)
           /\ DOMAIN [i \in DOMAIN s |-> t] = DOMAIN s
<1> DEFINE r == [i \in 1..Len(s) |-> t]
<1>1. Len(s) \in Nat /\ DOMAIN s = 1..Len(s)
  OBVIOUS
<1>2. r \in Seq(Texts)
  BY <1>1
<1>3. Len(r) = Len(s)
  BY <1>1
<1>4. QED BY <1>1, <1>2, <1>3

LEMMA InitTyped == Init => TypeInv
<1> SUFFICES ASSUME Init PROVE TypeInv
  OBVIOUS
<1> USE DEF Init
<1>1. titles \in [Convs -> Seq(Texts)]
  <2>1. \A t \in Titles \cup {Untitled} : <<t>> \in Seq(Texts)
    BY TextsAre, OneText
  <2>2. ASSUME NEW c \in Convs PROVE titles[c] \in Seq(Texts)
    <3>1. CASE titles[c] = <<>>
      BY <3>1
    <3>2. CASE titles[c] # <<>>
      <4>1. PICK t \in Titles \cup {Untitled} : titles[c] = <<t>>
        BY <3>2
      <4>2. QED BY <2>1, <4>1
    <3>3. QED BY <3>1, <3>2
  <2>3. QED BY <2>2
<1>2. rows \in [Convs -> Seq(Texts)]
  OBVIOUS
<1>3. load \in Loads
  BY DEF Loads, NoLoad
<1>4. call \in [Calls -> CallRecs]
  BY DEF CallRecs, NoCall
<1>5. auto \in [Convs -> Events]
  BY DEF Events
<1>6. \A k \in Calls : ~Named(k)
  BY DEF Named, NoCall
<1>7. page \in Convs \cup {NoConv}
  BY DEF Convs
<1>8. QED BY <1>1, <1>2, <1>3, <1>4, <1>5, <1>6, <1>7
         DEF TypeInv, TypeOK, Texts, Loads, CallRecs, Events

\* What a step makes of the calls.
LEMMA AskMoves ==
    ASSUME TypeInv, NEW k \in Calls, NEW kind \in {"rename", "delete"},
           NEW c \in Convs, NEW t \in Titles \cup {Untitled}, Ask(k, kind, c, t)
    PROVE  /\ call' \in [Calls -> CallRecs]
           /\ call[k].at = "unused"
           /\ call'[k] = [at |-> "asked", kind |-> kind, conv |-> c, title |-> t,
                          number |-> 0, open |-> page = c]
           /\ \A j \in Calls : j # k => call'[j] = call[j]
           /\ \A j \in Calls : Named(j)' => call'[j].conv \in Convs
<1>1. [at |-> "asked", kind |-> kind, conv |-> c, title |-> t, number |-> 0,
       open |-> page = c] \in CallRecs
  BY DEF CallRecs
<1>2. QED BY <1>1, Types DEF Ask, Named

LEMMA EndMoves ==
    ASSUME TypeInv, NEW k \in Calls, NEW c \in Convs \cup {NoConv}, Ends(k, c)
    PROVE  /\ call' \in [Calls -> CallRecs]
           /\ call'[k].at = "ended" /\ call'[k].conv = c
           /\ \A j \in Calls : j # k => call'[j] = call[j]
           /\ \A j \in Calls : Named(j)' => call'[j].conv \in Convs
<1>1. [NoCall EXCEPT !.at = "ended", !.conv = c] \in CallRecs
  BY DEF CallRecs, NoCall
<1>2. call'[k] = [NoCall EXCEPT !.at = "ended", !.conv = c]
  BY Types DEF Ends
<1>3. call'[k].at = "ended" /\ call'[k].conv = c
  BY <1>2 DEF NoCall
<1>4. QED BY <1>1, <1>3, Types DEF Ends, Named

LEMMA ServedMoves ==
    ASSUME TypeInv, NEW k \in Calls, CallServed(k)
    PROVE  /\ call' \in [Calls -> CallRecs]
           /\ call[k].at = "asked" /\ call'[k].at \in {"refused", "done"}
           /\ call'[k].kind = call[k].kind /\ call'[k].conv = call[k].conv
           /\ call'[k].title = call[k].title /\ call'[k].open = call[k].open
           /\ \A j \in Calls : j # k => call'[j] = call[j]
           /\ call[k].conv \in Convs
           /\ \A j \in Calls : Named(j)' => call'[j].conv \in Convs
<1>0. call[k] \in CallRecs /\ call[k].at = "asked" /\ call[k].conv \in Convs
  BY Types DEF CallServed, Named
<1>1. Newest(call[k].conv) \in Nat
  BY <1>0, Types DEF Newest
<1>2. PICK p \in {"refused", "done"}, n \in Nat :
          call' = [call EXCEPT ![k] = [call[k] EXCEPT !.at = p, !.number = n]]
  <2>1. CASE ~Live(call[k].conv)
    <3>1. call' = [call EXCEPT ![k] = [call[k] EXCEPT !.at = "refused",
                                                      !.number = call[k].number]]
      BY <1>0, <2>1, Types DEF CallServed, CallRecs
    <3>2. QED BY <1>0, <3>1 DEF CallRecs
  <2>2. CASE Live(call[k].conv) /\ call[k].kind = "rename"
    <3>1. PICK n \in Nat : n = Newest(call[k].conv) + 1
      BY <1>1
    <3>2. call' = [call EXCEPT ![k] = [call[k] EXCEPT !.at = "done", !.number = n]]
      BY <1>0, <2>2, <3>1, Types DEF CallServed, CallRecs
    <3>3. QED BY <3>1, <3>2
  <2>3. CASE Live(call[k].conv) /\ call[k].kind # "rename"
    <3>1. call' = [call EXCEPT ![k].at = "done"]
      BY <2>3 DEF CallServed
    <3>2. call' = [call EXCEPT ![k] = [call[k] EXCEPT !.at = "done",
                                                      !.number = call[k].number]]
      BY <1>0, <3>1, Types DEF CallRecs
    <3>3. QED BY <1>0, <3>2 DEF CallRecs
  <2>4. QED BY <2>1, <2>2, <2>3
<1>3. [call[k] EXCEPT !.at = p, !.number = n] \in CallRecs
  BY <1>0, <1>2 DEF CallRecs
<1>4. call'[k] = [call[k] EXCEPT !.at = p, !.number = n]
  BY <1>2, Types
<1>5. call' \in [Calls -> CallRecs] /\ \A j \in Calls : j # k => call'[j] = call[j]
  BY <1>2, <1>3, Types
<1>6. call'[k].at = p /\ call'[k].conv = call[k].conv /\ call'[k].kind = call[k].kind
      /\ call'[k].title = call[k].title /\ call'[k].open = call[k].open
  BY <1>0, <1>4 DEF CallRecs
<1>7. \A j \in Calls : Named(j)' => call'[j].conv \in Convs
  BY <1>0, <1>5, <1>6, Types DEF Named
<1>8. QED BY <1>0, <1>2, <1>5, <1>6, <1>7

LEMMA StoreTyped ==
    ASSUME TypeInv, NEW c \in Convs, NEW t \in Texts, Store(c, t)
    PROVE  titles' \in [Convs -> Seq(Texts)]
<1>1. Append(titles[c], t) \in Seq(Texts)
  BY Types
<1>2. QED BY <1>1, Types DEF Store

LEMMA RowTyped ==
    ASSUME TypeInv, NEW c \in Convs, NEW t \in Texts
    PROVE  Retitled(c, t) \in [Convs -> Seq(Texts)]
<1>1. [i \in DOMAIN rows[c] |-> t] \in Seq(Texts)
  BY RetitledTyped, Types
<1>2. QED BY <1>1, Types DEF Retitled

LEMMA GotoTyped ==
    ASSUME TypeInv, NEW c \in Convs \cup {NoConv}, Goto(c)
    PROVE  /\ page' \in Convs \cup {NoConv} /\ sending' \in New \cup {NoConv}
           /\ sending' # NoConv => page' = NoConv
           /\ moved' \subseteq Convs
BY DEF Goto, TypeInv, TypeOK

LEMMA LoadTyped == ASSUME TypeInv, LoadOK, Loading PROVE TypeInv'
<1>1. load' \in Loads
  <2>1. \A p \in {"asked", "read", "ended"} : NoLoad(p) \in Loads
    BY DEF NoLoad, Loads
  <2>2. CASE LoadServed
    <3>1. \A c \in Convs : Newest(c) \in Nat
      BY Types DEF Newest
    <3>2. [c \in Convs |-> IF Live(c) THEN Newest(c) ELSE 0] \in [Convs -> Nat]
      BY <3>1
    <3>3. QED BY <2>2, <3>2 DEF LoadServed, Loads
  <2>3. QED BY <2>1, <2>2 DEF Loading, LoadArrives, LoadFails
<1>2. rows' \in [Convs -> Seq(Texts)]
  <2>1. CASE LoadArrives
    <3>1. ASSUME NEW c \in Convs PROVE Filled[c] \in Seq(Texts)
      <4>1. load.rows[c] \in Nat /\ titles[c] \in Seq(Texts)
        BY Types DEF Loads
      <4>2. CASE load.rows[c] = 0
        BY <4>2 DEF Filled
      <4>3. CASE load.rows[c] # 0
        <5>1. load.rows[c] \in 1..Len(titles[c])
          BY <2>1, <4>1, <4>3 DEF LoadArrives, LoadOK, Newest
        <5>2. titles[c][load.rows[c]] \in Texts
          BY <4>1, <5>1
        <5>3. QED BY <4>3, <5>2, OneText DEF Filled
      <4>4. QED BY <4>2, <4>3
    <3>2. Filled \in [Convs -> Seq(Texts)]
      BY <3>1 DEF Filled
    <3>3. QED BY <2>1, <3>2 DEF LoadArrives
  <2>2. QED BY <2>1, Types DEF Loading, LoadServed, LoadFails, screen
<1>3. loading' \in BOOLEAN /\ error' \in BOOLEAN /\ ~(loading' /\ error')
  <2>1. loading \in BOOLEAN /\ error \in BOOLEAN /\ ~(loading /\ error)
    BY DEF TypeInv, TypeOK
  <2>2. CASE LoadServed
    BY <2>1, <2>2 DEF LoadServed, screen
  <2>3. CASE LoadArrives
    BY <2>1, <2>3 DEF LoadArrives
  <2>4. CASE LoadFails
    BY <2>1, <2>4 DEF LoadFails, LoadFailed
  <2>5. QED BY <2>2, <2>3, <2>4 DEF Loading
<1>4. upset' \subseteq Convs
  BY DEF Loading, LoadServed, LoadArrives, LoadFails, TypeInv, TypeOK, Misread, Convs
<1>5. UNCHANGED <<server, create, call, auto, page, sending, moved>>
  BY DEF Loading, LoadServed, LoadArrives, LoadFails, server
<1>6. QED
  BY <1>1, <1>2, <1>3, <1>4, <1>5
  DEF TypeInv, TypeOK, Loads, Texts, Named, server

LEMMA CreateTyped ==
    ASSUME TypeInv, NEW c \in New, Create(c) \/ Creating(c)
    PROVE  TypeInv'
<1>0. c \in Convs /\ c # NoConv
  BY SidebarAssumption DEF Convs, SidebarAssumption
<1>1. create' \in [New -> {"unused", "asked", "made", "done", "failed"}]
  BY Types DEF Create, Creating, CreateServed, CreateArrives, CreateFails
<1>2. titles' \in [Convs -> Seq(Texts)]
  BY <1>0, StoreTyped, TextsAre, Types
  DEF Create, Creating, CreateServed, CreateArrives, CreateFails, server
<1>3. rows' \in [Convs -> Seq(Texts)]
  <2>1. CASE CreateArrives(c)
    <3>1. <<Untitled>> \o rows[c] \in Seq(Texts)
      BY <1>0, TextsAre, Types
    <3>2. QED BY <2>1, <3>1, Types DEF CreateArrives
  <2>2. QED
    BY <2>1, Types DEF Create, Creating, CreateServed, CreateFails, screen
<1>4. auto' \in [Convs -> Events]
  <2>1. [auto[c] EXCEPT !.at = "asked"] \in Events
    BY <1>0, Types DEF Events
  <2>2. QED
    BY <2>1, Types DEF Create, Creating, CreateServed, CreateArrives, CreateFails
<1>5. /\ page' \in Convs \cup {NoConv} /\ sending' \in New \cup {NoConv}
      /\ sending' # NoConv => page' = NoConv
      /\ moved' \subseteq Convs
  <2>1. CASE CreateArrives(c)
    BY <1>0, <2>1, GotoTyped DEF CreateArrives
  <2>2. QED
    BY <2>1 DEF Create, Creating, CreateServed, CreateFails, Freed, TypeInv, TypeOK
<1>6. upset' \subseteq Convs
  BY <1>0 DEF Create, Creating, CreateServed, CreateArrives, CreateFails, Told, TypeInv,
              TypeOK
<1>7. UNCHANGED <<gone, loading, error, load, call>>
  BY DEF Create, Creating, CreateServed, CreateArrives, CreateFails, server, screen
<1>8. QED
  BY <1>1, <1>2, <1>3, <1>4, <1>5, <1>6, <1>7
  DEF TypeInv, TypeOK, Texts, Events, Named

LEMMA EventTyped ==
    ASSUME TypeInv, NEW c \in Convs,
           FirstMessage(c) \/ TitleSent(c) \/ TitleTold(c) \/ TitleLost(c)
    PROVE  TypeInv'
<1>1. titles' \in [Convs -> Seq(Texts)]
  BY StoreTyped, TextsAre, Types
  DEF FirstMessage, TitleSent, TitleTold, TitleLost, server
<1>2. rows' \in [Convs -> Seq(Texts)]
  BY RowTyped, TextsAre, Types
  DEF FirstMessage, TitleSent, TitleTold, TitleLost, screen
<1>3. auto' \in [Convs -> Events]
  <2>1. Newest(c) + 1 \in Nat
    BY Types DEF Newest
  <2>2. \A p \in {"asked", "told"} : [auto[c] EXCEPT !.at = p] \in Events
    BY Types DEF Events
  <2>3. \A n \in Nat : [at |-> "sent", number |-> n] \in Events
    BY DEF Events
  <2>4. \E e \in Events : auto' = [auto EXCEPT ![c] = e]
    <3>1. CASE TitleSent(c)
      BY <2>1, <2>3, <3>1 DEF TitleSent
    <3>2. CASE ~TitleSent(c)
      <4>1. \E p \in {"asked", "told"} :
                auto' = [auto EXCEPT ![c] = [auto[c] EXCEPT !.at = p]]
        BY <3>2 DEF FirstMessage, TitleTold, TitleLost
      <4>2. QED BY <2>2, <4>1
    <3>3. QED BY <3>1, <3>2
  <2>5. QED BY <2>4, Types
<1>4. upset' \subseteq Convs
  BY DEF FirstMessage, TitleSent, TitleTold, TitleLost, Told, TypeInv, TypeOK
<1>5. UNCHANGED <<gone, loading, error, load, create, call, page, sending, moved>>
  BY DEF FirstMessage, TitleSent, TitleTold, TitleLost, server, screen
<1>6. QED
  BY <1>1, <1>2, <1>3, <1>4, <1>5 DEF TypeInv, TypeOK, Texts, Events, Named

LEMMA CallTyped ==
    ASSUME TypeInv, NEW k \in Calls,
           \/ Answering(k)
           \/ \E c \in Convs : Delete(k, c) \/ \E t \in Titles : Rename(k, c, t)
    PROVE  TypeInv'
<1>0. call[k] \in CallRecs
  BY Types
<1>1. call' \in [Calls -> CallRecs] /\ \A j \in Calls : Named(j)' => call'[j].conv \in Convs
  <2>1. CASE \E c \in Convs : Delete(k, c) \/ \E t \in Titles : Rename(k, c, t)
    <3>1. PICK c \in Convs, kind \in {"rename", "delete"}, t \in Titles \cup {Untitled} :
              Ask(k, kind, c, t)
      BY <2>1 DEF Delete, Rename
    <3>2. QED BY <3>1, AskMoves
  <2>2. CASE CallServed(k)
    BY <2>2, ServedMoves
  <2>3. CASE RenameArrives(k) \/ DeleteArrives(k) \/ CallFails(k)
    <3>1. PICK c \in Convs \cup {NoConv} : Ends(k, c)
      BY <1>0, <2>3 DEF RenameArrives, DeleteArrives, CallFails, CallRecs
    <3>2. QED BY <3>1, EndMoves
  <2>4. QED BY <2>1, <2>2, <2>3 DEF Answering
<1>2. titles' \in [Convs -> Seq(Texts)]
  <2>1. CASE CallServed(k)
    <3>1. call[k].conv \in Convs /\ call[k].title \in Texts
      BY <1>0, <2>1, ServedMoves DEF CallRecs, Texts
    <3>2. UNCHANGED titles \/ Store(call[k].conv, call[k].title)
      BY <2>1 DEF CallServed, server
    <3>3. QED BY <3>1, <3>2, StoreTyped, Types
  <2>2. QED
    BY <2>1, Types DEF Answering, Delete, Rename, RenameArrives, DeleteArrives, CallFails,
                       server
<1>3. rows' \in [Convs -> Seq(Texts)]
  <2>1. CASE RenameArrives(k)
    <3>1. call[k].conv \in Convs /\ call[k].title \in Texts
      BY <1>0, <2>1, Types DEF RenameArrives, Named, CallRecs, Texts
    <3>2. QED BY <2>1, <3>1, RowTyped DEF RenameArrives
  <2>2. CASE DeleteArrives(k)
    <3>1. <<>> \in Seq(Texts) /\ rows' = [rows EXCEPT ![call[k].conv] = <<>>]
      BY <2>2 DEF DeleteArrives
    <3>2. QED BY <3>1, Types
  <2>3. QED
    BY <2>1, <2>2, Types DEF Answering, Delete, Rename, CallServed, CallFails, screen
<1>4. /\ page' \in Convs \cup {NoConv} /\ sending' \in New \cup {NoConv}
      /\ sending' # NoConv => page' = NoConv
      /\ moved' \subseteq Convs
  <2>1. CASE DeleteArrives(k)
    BY <2>1, GotoTyped DEF DeleteArrives, TypeInv, TypeOK
  <2>2. QED
    BY <2>1 DEF Answering, Delete, Rename, CallServed, RenameArrives, CallFails, TypeInv,
                TypeOK
<1>5. gone' \subseteq Convs /\ upset' \subseteq Convs
  <2>1. call[k].at \in {"asked", "done"} => call[k].conv \in Convs
    BY Types DEF Named
  <2>2. QED
    BY <2>1 DEF Answering, Delete, Rename, CallServed, RenameArrives, DeleteArrives,
                CallFails, Told, TypeInv, TypeOK, server
<1>6. UNCHANGED <<loading, error, load, create, auto>>
  BY DEF Answering, Delete, Rename, CallServed, RenameArrives, DeleteArrives, CallFails,
         server, screen
<1>7. QED
  BY <1>1, <1>2, <1>3, <1>4, <1>5, <1>6
  DEF TypeInv, TypeOK, Texts, CallRecs

LEMMA OpenTyped ==
    ASSUME TypeInv, NEW c \in Convs \cup {NoConv}, Open(c)
    PROVE  TypeInv'
<1>1. /\ page' \in Convs \cup {NoConv} /\ sending' \in New \cup {NoConv}
      /\ sending' # NoConv => page' = NoConv
      /\ moved' \subseteq Convs
  BY GotoTyped DEF Open
<1>2. UNCHANGED <<server, screen, load, create, call, auto, upset>>
  BY DEF Open
<1>3. QED
  BY <1>1, <1>2 DEF TypeInv, TypeOK, Named, server, screen

\* What a step is a step of.
LEMMA Steps ==
    ASSUME Next
    PROVE  \/ Loading
           \/ \E c \in New : Create(c) \/ Creating(c)
           \/ \E c \in Convs : FirstMessage(c) \/ TitleSent(c) \/ TitleTold(c)
                               \/ TitleLost(c)
           \/ \E c \in Convs \cup {NoConv} : Open(c)
           \/ \E k \in Calls :
                  \/ Answering(k)
                  \/ \E c \in Convs : Delete(k, c) \/ \E t \in Titles : Rename(k, c, t)
BY DEF Next

LEMMA NextTyped == TypeInv /\ LoadOK /\ [Next]_vars => TypeInv'
<1>1. CASE UNCHANGED vars
  BY <1>1 DEF vars, server, screen, TypeInv, TypeOK, Named
<1>2. QED
  BY <1>1, Steps, LoadTyped, CreateTyped, EventTyped, OpenTyped, CallTyped

-----------------------------------------------------------------------------
(* What the server has.                                                    *)

\* What a step adds to the titles.
LEMMA StoreMoves ==
    ASSUME TypeInv, NEW c \in Convs, NEW t \in Texts, Store(c, t)
    PROVE  /\ Newest(c) \in Nat /\ Newest(c)' = Newest(c) + 1
           /\ titles'[c][Newest(c) + 1] = t
           /\ \A i \in 1..Newest(c) : titles'[c][i] = titles[c][i]
           /\ \A d \in Convs : d # c => titles'[d] = titles[d]
<1>1. titles[c] \in Seq(Texts) /\ titles'[c] = Append(titles[c], t)
  BY Types DEF Store
<1>2. QED BY <1>1, Types DEF Store, Newest

LEMMA WhoStores ==
    ASSUME TypeInv, [Next]_vars
    PROVE  \/ UNCHANGED titles
           \/ \E c \in New : CreateServed(c)
           \/ \E c \in Convs : /\ TitleSent(c) /\ Live(c) /\ Store(c, FirstWords)
                               /\ auto' = [auto EXCEPT ![c] =
                                      [at |-> "sent", number |-> Newest(c) + 1]]
           \/ \E k \in Calls : /\ CallServed(k) /\ Live(call[k].conv)
                               /\ Store(call[k].conv, call[k].title)
<1>1. CASE UNCHANGED vars
  BY <1>1 DEF vars, server
<1>2. ASSUME Loading PROVE UNCHANGED titles
  BY <1>2 DEF Loading, LoadServed, LoadArrives, LoadFails, server
<1>3. ASSUME NEW c \in New, Create(c) \/ Creating(c)
      PROVE  UNCHANGED titles \/ CreateServed(c)
  BY <1>3 DEF Create, Creating, CreateArrives, CreateFails, server
<1>4. ASSUME NEW c \in Convs,
             FirstMessage(c) \/ TitleSent(c) \/ TitleTold(c) \/ TitleLost(c)
      PROVE  \/ UNCHANGED titles
             \/ /\ TitleSent(c) /\ Live(c) /\ Store(c, FirstWords)
                /\ auto' = [auto EXCEPT ![c] =
                               [at |-> "sent", number |-> Newest(c) + 1]]
  BY <1>4 DEF FirstMessage, TitleSent, TitleTold, TitleLost, server
<1>5. ASSUME NEW c \in Convs \cup {NoConv}, Open(c) PROVE UNCHANGED titles
  BY <1>5 DEF Open, server
<1>6. ASSUME NEW k \in Calls, Answering(k)
      PROVE  \/ UNCHANGED titles
             \/ CallServed(k) /\ Live(call[k].conv) /\ Store(call[k].conv, call[k].title)
  BY <1>6 DEF Answering, CallServed, RenameArrives, DeleteArrives, CallFails, server
<1>7. ASSUME NEW k \in Calls, NEW c \in Convs,
             Delete(k, c) \/ \E t \in Titles : Rename(k, c, t)
      PROVE  UNCHANGED titles
  BY <1>7 DEF Delete, Rename, server
<1>8. QED BY <1>1, <1>2, <1>3, <1>4, <1>5, <1>6, <1>7, Steps

\* Titles are added only, and after the first only to what there is.
LEMMA TitlesGrow ==
    ASSUME TypeInv, [Next]_vars, NEW c \in Convs
    PROVE  /\ Newest(c) \in Nat /\ Newest(c)' \in Nat /\ Newest(c) <= Newest(c)'
           /\ \A i \in 1..Newest(c) : titles'[c][i] = titles[c][i]
           /\ \/ titles'[c] = titles[c]
              \/ c \in New /\ CreateServed(c)
              \/ Live(c)
<1>0. Newest(c) \in Nat /\ titles[c] \in Seq(Texts)
  BY Types DEF Newest
<1>1. CASE titles'[c] = titles[c]
  BY <1>0, <1>1 DEF Newest
<1>2. ASSUME NEW d \in Convs, NEW t \in Texts, Store(d, t), d = c
      PROVE  /\ Newest(c)' \in Nat /\ Newest(c) <= Newest(c)'
             /\ \A i \in 1..Newest(c) : titles'[c][i] = titles[c][i]
  <2>1. Store(c, t)
    BY <1>2
  <2>2. QED BY <1>0, <2>1, StoreMoves
<1>3. ASSUME NEW d \in Convs, NEW t \in Texts, Store(d, t), d # c
      PROVE  titles'[c] = titles[c]
  BY <1>3, StoreMoves
<1>4. CASE \E d \in New : CreateServed(d)
  <2>1. PICK d \in New : CreateServed(d)
    BY <1>4
  <2>2. d \in Convs /\ Store(d, Untitled)
    BY <2>1 DEF CreateServed, Convs
  <2>3. QED BY <1>0, <1>1, <1>2, <1>3, <2>1, <2>2, TextsAre
<1>5. CASE \E d \in Convs : TitleSent(d) /\ Live(d) /\ Store(d, FirstWords)
  BY <1>0, <1>1, <1>2, <1>3, <1>5, TextsAre
<1>6. CASE \E k \in Calls : /\ CallServed(k) /\ Live(call[k].conv)
                            /\ Store(call[k].conv, call[k].title)
  <2>1. PICK k \in Calls : /\ CallServed(k) /\ Live(call[k].conv)
                           /\ Store(call[k].conv, call[k].title)
    BY <1>6
  <2>2. call[k].conv \in Convs /\ call[k].title \in Texts
    BY <2>1, ServedMoves, Types DEF CallRecs, Texts
  <2>3. QED BY <1>0, <1>1, <1>2, <1>3, <2>1, <2>2
<1>7. CASE UNCHANGED titles
  BY <1>1, <1>7
<1>8. QED BY <1>4, <1>5, <1>6, <1>7, WhoStores

LEMMA HistoryGrows ==
    ASSUME [Next]_vars PROVE gone \subseteq gone' /\ upset \subseteq upset'
<1>1. CASE UNCHANGED vars
  BY <1>1 DEF vars, server
<1>2. CASE Loading
  BY <1>2 DEF Loading, LoadServed, LoadArrives, LoadFails, server
<1>3. ASSUME NEW c \in New, Create(c) \/ Creating(c)
      PROVE  gone \subseteq gone' /\ upset \subseteq upset'
  BY <1>3 DEF Create, Creating, CreateServed, CreateArrives, CreateFails, Told, server
<1>4. ASSUME NEW c \in Convs,
             FirstMessage(c) \/ TitleSent(c) \/ TitleTold(c) \/ TitleLost(c)
      PROVE  gone \subseteq gone' /\ upset \subseteq upset'
  BY <1>4 DEF FirstMessage, TitleSent, TitleTold, TitleLost, Told, server
<1>5. ASSUME NEW c \in Convs \cup {NoConv}, Open(c)
      PROVE  gone \subseteq gone' /\ upset \subseteq upset'
  BY <1>5 DEF Open, server
<1>6. ASSUME NEW k \in Calls, Answering(k)
      PROVE  gone \subseteq gone' /\ upset \subseteq upset'
  BY <1>6 DEF Answering, CallServed, RenameArrives, DeleteArrives, CallFails, Told, server
<1>7. ASSUME NEW k \in Calls, NEW c \in Convs,
             Delete(k, c) \/ \E t \in Titles : Rename(k, c, t)
      PROVE  gone \subseteq gone' /\ upset \subseteq upset'
  BY <1>7 DEF Delete, Rename, server
<1>8. QED BY <1>1, <1>2, <1>3, <1>4, <1>5, <1>6, <1>7, Steps

\* What the other parts of the state are changed by.
LEMMA WhoLoads ==
    ASSUME [Next]_vars PROVE Loading \/ UNCHANGED <<loading, error, load>>
<1>1. CASE UNCHANGED vars
  BY <1>1 DEF vars, screen
<1>2. ASSUME NEW c \in New, Create(c) \/ Creating(c)
      PROVE  UNCHANGED <<loading, error, load>>
  BY <1>2 DEF Create, Creating, CreateServed, CreateArrives, CreateFails, screen
<1>3. ASSUME NEW c \in Convs,
             FirstMessage(c) \/ TitleSent(c) \/ TitleTold(c) \/ TitleLost(c)
      PROVE  UNCHANGED <<loading, error, load>>
  BY <1>3 DEF FirstMessage, TitleSent, TitleTold, TitleLost, screen
<1>4. ASSUME NEW c \in Convs \cup {NoConv}, Open(c)
      PROVE  UNCHANGED <<loading, error, load>>
  BY <1>4 DEF Open, screen
<1>5. ASSUME NEW k \in Calls, Answering(k)
      PROVE  UNCHANGED <<loading, error, load>>
  BY <1>5 DEF Answering, CallServed, RenameArrives, DeleteArrives, CallFails, screen
<1>6. ASSUME NEW k \in Calls, NEW c \in Convs,
             Delete(k, c) \/ \E t \in Titles : Rename(k, c, t)
      PROVE  UNCHANGED <<loading, error, load>>
  BY <1>6 DEF Delete, Rename, screen
<1>7. QED BY <1>1, <1>2, <1>3, <1>4, <1>5, <1>6, Steps

LEMMA WhoCalls ==
    ASSUME [Next]_vars
    PROVE  \/ UNCHANGED <<call, gone>>
           \/ \E k \in Calls, c \in Convs : Delete(k, c) \/ \E t \in Titles : Rename(k, c, t)
           \/ \E k \in Calls : Answering(k)
<1>1. CASE UNCHANGED vars
  BY <1>1 DEF vars, server
<1>2. CASE Loading
  BY <1>2 DEF Loading, LoadServed, LoadArrives, LoadFails, server
<1>3. ASSUME NEW c \in New, Create(c) \/ Creating(c) PROVE UNCHANGED <<call, gone>>
  BY <1>3 DEF Create, Creating, CreateServed, CreateArrives, CreateFails, server
<1>4. ASSUME NEW c \in Convs,
             FirstMessage(c) \/ TitleSent(c) \/ TitleTold(c) \/ TitleLost(c)
      PROVE  UNCHANGED <<call, gone>>
  BY <1>4 DEF FirstMessage, TitleSent, TitleTold, TitleLost, server
<1>5. ASSUME NEW c \in Convs \cup {NoConv}, Open(c) PROVE UNCHANGED <<call, gone>>
  BY <1>5 DEF Open, server
<1>6. QED BY <1>1, <1>2, <1>3, <1>4, <1>5, Steps

LEMMA WhoCreates ==
    ASSUME [Next]_vars
    PROVE  UNCHANGED create \/ \E c \in New : Create(c) \/ Creating(c)
<1>1. CASE UNCHANGED vars
  BY <1>1 DEF vars
<1>2. CASE Loading
  BY <1>2 DEF Loading, LoadServed, LoadArrives, LoadFails
<1>3. ASSUME NEW c \in Convs,
             FirstMessage(c) \/ TitleSent(c) \/ TitleTold(c) \/ TitleLost(c)
      PROVE  UNCHANGED create
  BY <1>3 DEF FirstMessage, TitleSent, TitleTold, TitleLost
<1>4. ASSUME NEW c \in Convs \cup {NoConv}, Open(c) PROVE UNCHANGED create
  BY <1>4 DEF Open
<1>5. ASSUME NEW k \in Calls, Answering(k) PROVE UNCHANGED create
  BY <1>5 DEF Answering, CallServed, RenameArrives, DeleteArrives, CallFails
<1>6. ASSUME NEW k \in Calls, NEW c \in Convs,
             Delete(k, c) \/ \E t \in Titles : Rename(k, c, t)
      PROVE  UNCHANGED create
  BY <1>6 DEF Delete, Rename
<1>7. QED BY <1>1, <1>2, <1>3, <1>4, <1>5, <1>6, Steps

LEMMA WhoTells ==
    ASSUME [Next]_vars
    PROVE  \/ UNCHANGED auto
           \/ \E c \in New : CreateArrives(c)
           \/ \E c \in Convs : FirstMessage(c) \/ TitleSent(c) \/ TitleTold(c) \/ TitleLost(c)
<1>1. CASE UNCHANGED vars
  BY <1>1 DEF vars
<1>2. CASE Loading
  BY <1>2 DEF Loading, LoadServed, LoadArrives, LoadFails
<1>3. ASSUME NEW c \in New, Create(c) \/ Creating(c)
      PROVE  UNCHANGED auto \/ CreateArrives(c)
  BY <1>3 DEF Create, Creating, CreateServed, CreateFails
<1>4. ASSUME NEW c \in Convs \cup {NoConv}, Open(c) PROVE UNCHANGED auto
  BY <1>4 DEF Open
<1>5. ASSUME NEW k \in Calls, Answering(k) PROVE UNCHANGED auto
  BY <1>5 DEF Answering, CallServed, RenameArrives, DeleteArrives, CallFails
<1>6. ASSUME NEW k \in Calls, NEW c \in Convs,
             Delete(k, c) \/ \E t \in Titles : Rename(k, c, t)
      PROVE  UNCHANGED auto
  BY <1>6 DEF Delete, Rename
<1>7. QED BY <1>1, <1>2, <1>3, <1>4, <1>5, <1>6, Steps

LEMMA LoadStep ==
    ASSUME TypeInv, LoadOK, \A c \in Convs : BornOK(c), [Next]_vars
    PROVE  LoadOK'
<1>1. (loading <=> load.at # "ended")'
  <2>1. \A p : NoLoad(p).at = p
    BY DEF NoLoad
  <2>2. loading <=> load.at # "ended"
    BY DEF LoadOK
  <2>3. CASE UNCHANGED <<loading, error, load>>
    BY <2>2, <2>3
  <2>4. CASE LoadServed
    BY <2>2, <2>4 DEF LoadServed, screen
  <2>5. CASE LoadArrives \/ LoadFails
    <3>1. loading' = FALSE /\ load' = NoLoad("ended")
      BY <2>5 DEF LoadArrives, LoadFails, LoadFailed
    <3>2. QED BY <2>1, <3>1
  <2>6. QED BY <2>3, <2>4, <2>5, WhoLoads DEF Loading
<1>2. loading' => loading
  BY WhoLoads DEF Loading, LoadServed, LoadArrives, LoadFails, LoadFailed, screen
<1>3. ASSUME loading' PROVE gone' = {} /\ \A k \in Calls : call'[k].at = "unused"
  <2>1. loading /\ gone = {} /\ \A k \in Calls : call[k].at = "unused"
    BY <1>2, <1>3 DEF LoadOK
  <2>2. UNCHANGED <<call, gone>>
    <3>1. \A k \in Calls : ~Answering(k)
      BY <2>1 DEF Answering, CallServed, RenameArrives, DeleteArrives, CallFails
    <3>2. \A k \in Calls, c \in Convs :
              ~Delete(k, c) /\ \A t \in Titles : ~Rename(k, c, t)
      BY <2>1 DEF Delete, Rename, Listed
    <3>3. QED BY <3>1, <3>2, WhoCalls
  <2>3. QED BY <2>1, <2>2
<1>4. ASSUME load'.at = "read", NEW c \in Convs
      PROVE  load'.rows[c] <= Newest(c)' /\ (c \in Old => load'.rows[c] > 0)
  <2>1. CASE LoadServed
    <3>1. load'.rows[c] = IF Live(c) THEN Newest(c) ELSE 0
      BY <2>1 DEF LoadServed
    <3>2. titles'[c] = titles[c] /\ Newest(c)' = Newest(c) /\ Newest(c) \in Nat
      BY <2>1, Types DEF LoadServed, server, Newest
    <3>3. c \in Old => Live(c) /\ Newest(c) > 0
      <4>1. gone = {}
        BY <2>1 DEF LoadOK, LoadServed
      <4>2. titles[c] # <<>> => Newest(c) > 0
        BY Types DEF Newest
      <4>3. QED BY <4>1, <4>2 DEF BornOK, Live
    <3>4. QED BY <3>1, <3>2, <3>3
  <2>2. CASE UNCHANGED load
    <3>1. load.rows[c] <= Newest(c) /\ (c \in Old => load.rows[c] > 0)
      BY <1>4, <2>2 DEF LoadOK
    <3>2. load.rows[c] \in Nat
      BY Types DEF Loads
    <3>3. QED BY <2>2, <3>1, <3>2, TitlesGrow
  <2>3. CASE LoadArrives \/ LoadFails
    BY <1>4, <2>3 DEF LoadArrives, LoadFails, NoLoad
  <2>4. QED BY <2>1, <2>2, <2>3, WhoLoads DEF Loading
<1>5. QED BY <1>1, <1>3, <1>4 DEF LoadOK

LEMMA CreateMoves ==
    ASSUME TypeInv, [Next]_vars, NEW c \in New
    PROVE  \/ create'[c] = create[c] /\ ~Creating(c)
           \/ Create(c) /\ create[c] = "unused" /\ create'[c] = "asked"
           \/ CreateServed(c) /\ create[c] = "asked" /\ create'[c] = "made"
           \/ CreateArrives(c) /\ create[c] = "made" /\ create'[c] = "done"
           \/ /\ CreateFails(c) /\ create[c] \in {"asked", "made"}
              /\ create'[c] = "failed"
<1>0. create \in [New -> {"unused", "asked", "made", "done", "failed"}]
  BY Types
<1>1. CASE Create(c) \/ Creating(c)
  BY <1>0, <1>1 DEF Create, Creating, CreateServed, CreateArrives, CreateFails
<1>2. CASE ~(Create(c) \/ Creating(c))
  <2>1. ASSUME NEW d \in New, Create(d) \/ Creating(d) PROVE create'[c] = create[c]
    BY <1>0, <1>2, <2>1 DEF Create, Creating, CreateServed, CreateArrives, CreateFails
  <2>2. QED BY <1>2, <2>1, WhoCreates
<1>3. QED BY <1>1, <1>2

\* What a step makes of the event of c.
LEMMA EventMoves ==
    ASSUME TypeInv, [Next]_vars, NEW c \in Convs
    PROVE  \/ auto'[c] = auto[c]
           \/ c \in New /\ CreateArrives(c) /\ auto'[c].at = "asked"
           \/ FirstMessage(c) /\ c \in Old /\ auto'[c].at = "asked"
           \/ TitleSent(c) /\ auto[c].at = "asked" /\ auto'[c].at = "sent"
           \/ /\ TitleTold(c) \/ TitleLost(c)
              /\ auto[c].at = "sent" /\ auto'[c].at = "told"
              /\ auto'[c].number = auto[c].number
<1>0. auto \in [Convs -> Events]
  BY Types
<1>1. ASSUME NEW d \in Convs, NEW e, auto' = [auto EXCEPT ![d] = e], d # c
      PROVE  auto'[c] = auto[c]
  BY <1>0, <1>1
<1>2. ASSUME NEW d \in New, CreateArrives(d)
      PROVE  auto'[c] = auto[c] \/ (d = c /\ auto'[c].at = "asked")
  <2>1. d \in Convs /\ auto' = [auto EXCEPT ![d] = [auto[d] EXCEPT !.at = "asked"]]
    BY <1>2 DEF CreateArrives, Convs
  <2>2. [auto[d] EXCEPT !.at = "asked"].at = "asked"
    BY <1>0, <2>1 DEF Events
  <2>3. QED BY <1>0, <1>1, <2>1, <2>2
<1>3. ASSUME NEW d \in Convs,
             FirstMessage(d) \/ TitleSent(d) \/ TitleTold(d) \/ TitleLost(d)
      PROVE  \/ auto'[c] = auto[c]
             \/ /\ d = c
                /\ \/ FirstMessage(c) /\ c \in Old /\ auto'[c].at = "asked"
                   \/ TitleSent(c) /\ auto[c].at = "asked" /\ auto'[c].at = "sent"
                   \/ /\ TitleTold(c) \/ TitleLost(c)
                      /\ auto[c].at = "sent" /\ auto'[c].at = "told"
                      /\ auto'[c].number = auto[c].number
  <2>1. \E e : auto' = [auto EXCEPT ![d] = e]
    BY <1>3 DEF FirstMessage, TitleSent, TitleTold, TitleLost
  <2>2. CASE d # c
    BY <1>1, <2>1, <2>2
  <2>3. CASE d = c /\ FirstMessage(c)
    BY <1>0, <2>3 DEF FirstMessage, Events
  <2>4. CASE d = c /\ TitleSent(c)
    BY <1>0, <2>4 DEF TitleSent, Events
  <2>5. CASE d = c /\ (TitleTold(c) \/ TitleLost(c))
    BY <1>0, <2>5 DEF TitleTold, TitleLost, Events
  <2>6. QED BY <1>3, <2>2, <2>3, <2>4, <2>5
<1>4. QED BY <1>2, <1>3, WhoTells

LEMMA BornStep ==
    ASSUME TypeInv, \A d \in Convs : BornOK(d), [Next]_vars, NEW c \in Convs
    PROVE  BornOK(c)'
<1>0. BornOK(c) /\ titles[c] \in Seq(Texts)
  BY Types
<1>1. titles[c] # <<>> => titles'[c] # <<>> /\ titles'[c][1] = titles[c][1]
  <2>1. titles[c] # <<>> => 1 \in 1..Newest(c)
    BY <1>0 DEF Newest
  <2>2. QED BY <2>1, TitlesGrow DEF Newest
<1>2. ASSUME c \in New
      PROVE  /\ create'[c] \in {"unused", "asked"} => titles'[c] = <<>>
             /\ create'[c] \in {"made", "done"} =>
                   titles'[c] # <<>> /\ titles'[c][1] = Untitled
             /\ create'[c] = "failed" /\ c \notin upset' => titles'[c] = <<>>
             /\ create'[c] # "done" => auto'[c].at = "none"
  <2>0. /\ create[c] \in {"unused", "asked"} => titles[c] = <<>>
        /\ create[c] \in {"made", "done"} => titles[c] # <<>> /\ titles[c][1] = Untitled
        /\ create[c] = "failed" /\ c \notin upset => titles[c] = <<>>
        /\ create[c] # "done" => auto[c].at = "none"
    BY <1>0, <1>2 DEF BornOK
  <2>1. titles[c] = <<>> /\ ~CreateServed(c) => titles'[c] = <<>>
    BY TitlesGrow DEF Live
  <2>2. CASE create'[c] = create[c] /\ ~Creating(c)
    <3>1. ~CreateServed(c)
      BY <2>2 DEF Creating
    <3>2. create[c] # "done" => auto'[c].at = "none"
      <4>1. c \notin Old /\ ~CreateArrives(c)
        BY <1>2, <2>2, SidebarAssumption DEF SidebarAssumption, Creating
      <4>2. QED BY <2>0, <4>1, EventMoves
    <3>3. QED BY <1>1, <2>0, <2>1, <2>2, <3>1, <3>2, HistoryGrows
  <2>3. CASE Create(c) /\ create[c] = "unused" /\ create'[c] = "asked"
    BY <2>0, <2>3 DEF Create, server
  <2>4. CASE CreateServed(c) /\ create[c] = "asked" /\ create'[c] = "made"
    <3>1. titles'[c] # <<>> /\ titles'[c][1] = Untitled
      <4>1. titles[c] = <<>> /\ Store(c, Untitled)
        BY <2>0, <2>4 DEF CreateServed
      <4>2. Newest(c) = 0
        BY <4>1 DEF Newest
      <4>3. Newest(c)' = 1 /\ titles'[c][1] = Untitled
        BY <4>1, <4>2, StoreMoves, TextsAre
      <4>4. QED BY <4>3 DEF Newest
    <3>2. UNCHANGED auto
      BY <2>4 DEF CreateServed
    <3>3. QED BY <2>0, <2>4, <3>1, <3>2
  <2>5. CASE CreateArrives(c) /\ create[c] = "made" /\ create'[c] = "done"
    BY <2>0, <2>5 DEF CreateArrives, server
  <2>6. CASE /\ CreateFails(c) /\ create[c] \in {"asked", "made"}
             /\ create'[c] = "failed"
    BY <2>0, <2>6 DEF CreateFails, server
  <2>7. QED BY <1>2, <2>2, <2>3, <2>4, <2>5, <2>6, CreateMoves
<1>3. c \in Old => titles'[c] # <<>>
  BY <1>0, <1>1 DEF BornOK
<1>4. QED BY <1>2, <1>3 DEF BornOK

\* What a step makes of call k.
Asks(k, c) == Delete(k, c) \/ \E t \in Titles : Rename(k, c, t)
Over(k)    == RenameArrives(k) \/ DeleteArrives(k) \/ CallFails(k)

LEMMA AsksMoves ==
    ASSUME TypeInv, NEW k \in Calls, NEW c \in Convs, Asks(k, c)
    PROVE  /\ call[k].at = "unused" /\ call'[k].at = "asked" /\ call'[k].conv = c
           /\ call'[k].open = (page = c) /\ Listed(c)
           /\ \A j \in Calls : j # k => call'[j] = call[j]
<1>1. PICK kind \in {"rename", "delete"}, t \in Titles \cup {Untitled} :
          Ask(k, kind, c, t)
  BY DEF Asks, Delete, Rename
<1>2. Listed(c)
  BY DEF Asks, Delete, Rename
<1>3. /\ call[k].at = "unused"
      /\ call'[k] = [at |-> "asked", kind |-> kind, conv |-> c, title |-> t,
                     number |-> 0, open |-> page = c]
      /\ \A j \in Calls : j # k => call'[j] = call[j]
  BY <1>1, AskMoves
<1>4. call'[k].at = "asked" /\ call'[k].conv = c /\ call'[k].open = (page = c)
  BY <1>3
<1>5. QED BY <1>2, <1>3, <1>4

LEMMA OverMoves ==
    ASSUME TypeInv, NEW k \in Calls, Over(k)
    PROVE  /\ call[k].at \in {"asked", "done", "refused"} /\ call'[k].at = "ended"
           /\ call'[k].conv = IF DeleteArrives(k) THEN call[k].conv ELSE NoConv
           /\ call[k].conv \in Convs
           /\ \A j \in Calls : j # k => call'[j] = call[j]
<1>1. call[k].at \in {"asked", "done", "refused"} /\ call[k].conv \in Convs
  BY Types DEF Over, RenameArrives, DeleteArrives, CallFails, Named
<1>2. CASE DeleteArrives(k)
  <2>1. Ends(k, call[k].conv)
    BY <1>2 DEF DeleteArrives
  <2>2. QED BY <1>1, <1>2, <2>1, EndMoves
<1>3. CASE ~DeleteArrives(k)
  <2>1. Ends(k, NoConv)
    BY <1>3 DEF Over, RenameArrives, CallFails
  <2>2. QED BY <1>1, <1>3, <2>1, EndMoves
<1>4. QED BY <1>2, <1>3

LEMMA CallMoves ==
    ASSUME TypeInv, [Next]_vars, NEW k \in Calls
    PROVE  \/ call'[k] = call[k]
           \/ \E c \in Convs : Asks(k, c)
           \/ CallServed(k)
           \/ Over(k)
<1>1. ASSUME NEW j \in Calls, Answering(j)
      PROVE  call'[k] = call[k] \/ CallServed(k) \/ Over(k)
  <2>1. CallServed(j) \/ Over(j)
    BY <1>1 DEF Answering, Over
  <2>2. QED BY <2>1, ServedMoves, OverMoves
<1>2. ASSUME NEW j \in Calls, NEW c \in Convs, Asks(j, c)
      PROVE  call'[k] = call[k] \/ Asks(k, c)
  BY <1>2, AsksMoves
<1>3. \/ UNCHANGED call
      \/ \E j \in Calls, c \in Convs : Asks(j, c)
      \/ \E j \in Calls : Answering(j)
  BY WhoCalls DEF Asks
<1>4. QED BY <1>1, <1>2, <1>3

LEMMA EventStep ==
    ASSUME TypeInv, NEW c \in Convs, BornOK(c), EventOK(c), [Next]_vars
    PROVE  EventOK(c)'
<1> SUFFICES ASSUME auto'[c].at = "sent"
             PROVE  /\ auto'[c].number \in 0..Newest(c)'
                    /\ IF auto'[c].number = 0 THEN c \in gone' \cup upset'
                                              ELSE titles'[c][auto'[c].number] = FirstWords
  BY DEF EventOK
<1>0. Newest(c) \in Nat /\ Newest(c)' \in Nat /\ Newest(c) <= Newest(c)'
  BY TitlesGrow
<1>1. CASE auto'[c] = auto[c]
  <2>1. /\ auto[c].number \in 0..Newest(c)
        /\ IF auto[c].number = 0 THEN c \in gone \cup upset
                                 ELSE titles[c][auto[c].number] = FirstWords
    BY <1>1 DEF EventOK
  <2>2. auto'[c].number \in 0..Newest(c)'
    BY <1>0, <1>1, <2>1
  <2>3. CASE auto[c].number = 0
    BY <1>1, <2>1, <2>2, <2>3, HistoryGrows
  <2>4. CASE auto[c].number # 0
    <3>1. auto[c].number \in 1..Newest(c)
      BY <1>0, <2>1, <2>4
    <3>2. titles'[c][auto[c].number] = titles[c][auto[c].number]
      BY <3>1, TitlesGrow
    <3>3. QED BY <1>1, <2>1, <2>2, <2>4, <3>2
  <2>5. QED BY <2>3, <2>4
<1>2. CASE TitleSent(c) /\ auto[c].at = "asked"
  <2>1. CASE /\ Live(c) /\ Store(c, FirstWords)
             /\ auto' = [auto EXCEPT ![c] =
                            [at |-> "sent", number |-> Newest(c) + 1]]
    <3>1. auto'[c].number = Newest(c) + 1
      BY <2>1, Types
    <3>2. Newest(c)' = Newest(c) + 1 /\ titles'[c][Newest(c) + 1] = FirstWords
      BY <2>1, StoreMoves, TextsAre
    <3>3. QED BY <1>0, <3>1, <3>2
  <2>2. CASE /\ auto' = [auto EXCEPT ![c] = [at |-> "sent", number |-> 0]]
             /\ upset' = IF Live(c) THEN upset \cup {c} ELSE upset
    <3>1. auto'[c].number = 0
      BY <2>2, Types
    <3>2. titles[c] # <<>>
      BY <1>2 DEF BornOK, Convs
    <3>3. c \in gone' \cup upset'
      BY <2>2, <3>2, HistoryGrows DEF Live
    <3>4. QED BY <1>0, <3>1, <3>3
  <2>3. QED BY <1>2, <2>1, <2>2 DEF TitleSent
<1>3. QED BY <1>1, <1>2, EventMoves

LEMMA AnswerStep ==
    ASSUME TypeInv, NEW k \in Calls, AnswerOK(k), [Next]_vars
    PROVE  AnswerOK(k)'
<1> SUFFICES ASSUME call'[k].at = "done"
             PROVE  IF call'[k].kind = "delete" THEN call'[k].conv \in gone'
                    ELSE /\ call'[k].number \in 1..Len(titles'[call'[k].conv])
                         /\ titles'[call'[k].conv][call'[k].number] = call'[k].title
  BY DEF AnswerOK, Newest
<1>1. CASE call'[k] = call[k]
  <2>1. PICK c \in Convs : c = call[k].conv
    BY <1>1, Types DEF Named
  <2>2. IF call[k].kind = "delete" THEN c \in gone
        ELSE call[k].number \in 1..Newest(c) /\ titles[c][call[k].number] = call[k].title
    BY <1>1, <2>1 DEF AnswerOK
  <2>3. CASE call[k].kind = "delete"
    BY <1>1, <2>1, <2>2, <2>3, HistoryGrows
  <2>4. CASE call[k].kind # "delete"
    <3>1. Newest(c) \in Nat /\ Newest(c)' \in Nat /\ Newest(c) <= Newest(c)'
          /\ \A i \in 1..Newest(c) : titles'[c][i] = titles[c][i]
      BY TitlesGrow
    <3>2. call[k].number \in 1..Newest(c)' /\ titles'[c][call[k].number] = call[k].title
      BY <2>2, <2>4, <3>1
    <3>3. QED BY <1>1, <2>1, <2>4, <3>2 DEF Newest
  <2>5. QED BY <2>3, <2>4
<1>2. CASE CallServed(k)
  <2>1. PICK c \in Convs : c = call[k].conv
    BY <1>2, ServedMoves
  <2>2. call'[k].conv = c /\ call'[k].kind = call[k].kind /\ call'[k].title = call[k].title
    BY <1>2, <2>1, ServedMoves
  <2>3. Live(c)
    <3>1. ~Live(c) => call' = [call EXCEPT ![k].at = "refused"]
      BY <1>2, <2>1 DEF CallServed
    <3>2. ~Live(c) => call'[k].at = "refused"
      BY <3>1, Types DEF CallRecs
    <3>3. QED BY <3>2
  <2>4. CASE call[k].kind = "rename"
    <3>1. Store(c, call[k].title) /\ call[k].title \in Texts
      BY <1>2, <2>1, <2>3, <2>4, Types DEF CallServed, CallRecs, Texts
    <3>2. call' = [call EXCEPT ![k].at = "done", ![k].number = Newest(c) + 1]
      BY <1>2, <2>1, <2>3, <2>4 DEF CallServed
    <3>3. call'[k].number = Newest(c) + 1
      BY <3>2, Types DEF CallRecs
    <3>4. /\ Newest(c) \in Nat /\ Newest(c)' = Newest(c) + 1
          /\ titles'[c][Newest(c) + 1] = call[k].title
      BY <3>1, StoreMoves
    <3>5. call'[k].number \in 1..Newest(c)' /\ titles'[c][call'[k].number] = call'[k].title
      BY <2>2, <3>3, <3>4
    <3>6. QED BY <2>2, <2>4, <3>5 DEF Newest
  <2>5. CASE call[k].kind # "rename"
    <3>1. c \in gone'
      BY <1>2, <2>1, <2>3, <2>5 DEF CallServed
    <3>2. call[k].kind = "delete"
      BY <2>5, Types DEF CallRecs
    <3>3. QED BY <2>2, <3>1, <3>2
  <2>6. QED BY <2>4, <2>5
<1>3. ASSUME NEW c \in Convs, Asks(k, c) PROVE FALSE
  BY <1>3, AsksMoves
<1>4. ~Over(k)
  BY OverMoves
<1>5. QED BY <1>1, <1>2, <1>3, <1>4, CallMoves

LEMMA InitServer == Init => ServerInv
<1> SUFFICES ASSUME Init PROVE ServerInv
  OBVIOUS
<1> USE DEF Init
<1>1. LoadOK
  BY DEF LoadOK, NoLoad, NoCall
<1>2. ASSUME NEW c \in Convs PROVE BornOK(c) /\ EventOK(c)
  BY SidebarAssumption DEF BornOK, EventOK, SidebarAssumption
<1>3. ASSUME NEW k \in Calls PROVE AnswerOK(k)
  BY DEF AnswerOK, NoCall
<1>4. QED BY <1>1, <1>2, <1>3 DEF ServerInv

LEMMA ServerStep == TypeInv /\ ServerInv /\ [Next]_vars => ServerInv'
BY LoadStep, BornStep, EventStep, AnswerStep DEF ServerInv

-----------------------------------------------------------------------------
(* The titles of the rows.                                                 *)

LEMMA WhoLists ==
    ASSUME [Next]_vars
    PROVE  \/ UNCHANGED rows
           \/ LoadArrives
           \/ \E c \in New : CreateArrives(c)
           \/ \E c \in Convs : TitleTold(c)
           \/ \E k \in Calls : RenameArrives(k) \/ DeleteArrives(k)
<1>1. CASE UNCHANGED vars
  BY <1>1 DEF vars, screen
<1>2. CASE Loading
  BY <1>2 DEF Loading, LoadServed, LoadFails, screen
<1>3. ASSUME NEW c \in New, Create(c) \/ Creating(c)
      PROVE  UNCHANGED rows \/ CreateArrives(c)
  BY <1>3 DEF Create, Creating, CreateServed, CreateFails, screen
<1>4. ASSUME NEW c \in Convs,
             FirstMessage(c) \/ TitleSent(c) \/ TitleTold(c) \/ TitleLost(c)
      PROVE  UNCHANGED rows \/ TitleTold(c)
  BY <1>4 DEF FirstMessage, TitleSent, TitleLost, screen
<1>5. ASSUME NEW c \in Convs \cup {NoConv}, Open(c) PROVE UNCHANGED rows
  BY <1>5 DEF Open, screen
<1>6. ASSUME NEW k \in Calls, Answering(k)
      PROVE  UNCHANGED rows \/ RenameArrives(k) \/ DeleteArrives(k)
  BY <1>6 DEF Answering, CallServed, CallFails, screen
<1>7. ASSUME NEW k \in Calls, NEW c \in Convs, Asks(k, c) PROVE UNCHANGED rows
  BY <1>7 DEF Asks, Delete, Rename, screen
<1>8. QED BY <1>1, <1>2, <1>3, <1>4, <1>5, <1>6, <1>7, Steps DEF Asks

\* What a step makes of the row of c.
LEMMA RowMoves ==
    ASSUME TypeInv, [Next]_vars, NEW c \in Convs
    PROVE  \/ rows'[c] = rows[c]
           \/ LoadArrives /\ rows'[c] = Filled[c]
           \/ c \in New /\ CreateArrives(c) /\ rows'[c] = <<Untitled>> \o rows[c]
           \/ TitleTold(c) /\ rows'[c] = [i \in DOMAIN rows[c] |-> FirstWords]
           \/ \E k \in Calls : /\ RenameArrives(k) /\ call[k].conv = c
                               /\ rows'[c] = [i \in DOMAIN rows[c] |-> call[k].title]
           \/ \E k \in Calls : /\ DeleteArrives(k) /\ call[k].conv = c
                               /\ rows'[c] = <<>>
<1>0. rows \in [Convs -> Seq(Texts)]
  BY Types
<1>1. ASSUME NEW d \in New, CreateArrives(d)
      PROVE  \/ rows'[c] = rows[c]
             \/ d = c /\ rows'[c] = <<Untitled>> \o rows[c]
  BY <1>0, <1>1 DEF CreateArrives, Convs
<1>2. ASSUME NEW d \in Convs, TitleTold(d)
      PROVE  \/ rows'[c] = rows[c]
             \/ d = c /\ rows'[c] = [i \in DOMAIN rows[c] |-> FirstWords]
  BY <1>0, <1>2 DEF TitleTold, Retitled
<1>3. ASSUME NEW k \in Calls, RenameArrives(k)
      PROVE  \/ rows'[c] = rows[c]
             \/ /\ call[k].conv = c
                /\ rows'[c] = [i \in DOMAIN rows[c] |-> call[k].title]
  <2>1. rows' = Retitled(call[k].conv, call[k].title)
    BY <1>3 DEF RenameArrives
  <2>2. QED BY <1>0, <2>1 DEF Retitled
<1>4. ASSUME NEW k \in Calls, DeleteArrives(k)
      PROVE  rows'[c] = rows[c] \/ (call[k].conv = c /\ rows'[c] = <<>>)
  <2>1. rows' = [rows EXCEPT ![call[k].conv] = <<>>]
    BY <1>4 DEF DeleteArrives
  <2>2. QED BY <1>0, <2>1
<1>5. LoadArrives => rows'[c] = Filled[c]
  BY DEF LoadArrives
<1>6. QED BY <1>1, <1>2, <1>3, <1>4, <1>5, WhoLists

Stored(c, t) == \E j \in DOMAIN titles[c] : titles[c][j] = t

LEMMA StoredStays ==
    ASSUME TypeInv, TypeInv', [Next]_vars, NEW c \in Convs, NEW t, Stored(c, t)
    PROVE  Stored(c, t)'
<1>1. PICK j \in DOMAIN titles[c] : titles[c][j] = t
  BY DEF Stored
<1>2. titles[c] \in Seq(Texts) /\ titles'[c] \in Seq(Texts)
  BY Types DEF TypeInv, TypeOK, Texts
<1>3. j \in 1..Newest(c)
  BY <1>1, <1>2 DEF Newest
<1>4. titles'[c][j] = t /\ j \in 1..Newest(c)'
  BY <1>1, <1>3, TitlesGrow
<1>5. j \in DOMAIN titles'[c]
  BY <1>2, <1>4 DEF Newest
<1>6. QED BY <1>4, <1>5 DEF Stored

\* The number of a title that is stored.
LEMMA StoredUnder ==
    ASSUME TypeInv, NEW c \in Convs, NEW n \in 1..Newest(c)
    PROVE  Stored(c, titles[c][n])
<1>1. n \in DOMAIN titles[c]
  BY Types DEF Newest
<1>2. QED BY <1>1 DEF Stored

\* A title may be shown if it is stored, or its event told of none.
NoTitle(c)  == auto[c] = [at |-> "told", number |-> 0]
Fair(c, t)  == Stored(c, t) \/ (t = FirstWords /\ NoTitle(c))
TitleOK(c)  == \A i \in DOMAIN rows[c] : Fair(c, rows[c][i])
TitleInv    == \A c \in Convs : TitleOK(c)

LEMMA TitleOnceFair ==
    ASSUME TypeInv, TypeInv', ServerInv, [Next]_vars, NEW c \in Convs, NEW t, Fair(c, t)
    PROVE  Fair(c, t)'
<1>1. CASE Stored(c, t)
  BY <1>1, StoredStays DEF Fair
<1>2. CASE t = FirstWords /\ NoTitle(c)
  <2>1. auto[c].at = "told"
    BY <1>2 DEF NoTitle
  <2>2. ~CreateArrives(c) \/ c \notin New
    BY <2>1, Types DEF ServerInv, BornOK, CreateArrives
  <2>3. auto'[c] = auto[c]
    BY <2>1, <2>2, EventMoves DEF FirstMessage
  <2>4. QED BY <1>2, <2>3 DEF Fair, NoTitle
<1>3. QED BY <1>1, <1>2 DEF Fair

LEMMA TitleStep ==
    ASSUME TypeInv, TypeInv', ServerInv, [Next]_vars, NEW c \in Convs, TitleOK(c)
    PROVE  TitleOK(c)'
<1>0. /\ rows[c] \in Seq(Texts) /\ titles[c] \in Seq(Texts)
      /\ load.rows[c] \in Nat /\ auto[c] \in Events
  BY Types DEF Loads
<1>1. ASSUME NEW t, Stored(c, t) PROVE Fair(c, t)'
  BY <1>1, StoredStays DEF Fair
<1>2. CASE rows'[c] = rows[c]
  <2>1. ASSUME NEW i \in DOMAIN rows'[c] PROVE Fair(c, rows[c][i])
    BY <1>2, <2>1 DEF TitleOK
  <2>2. ASSUME NEW i \in DOMAIN rows'[c], NEW t, t = rows[c][i] PROVE Fair(c, t)'
    BY <2>1, <2>2, TitleOnceFair
  <2>3. QED BY <1>2, <2>2 DEF TitleOK
<1>3. ASSUME NEW t, Fair(c, t)', \A i \in DOMAIN rows'[c] : rows'[c][i] = t
      PROVE  TitleOK(c)'
  BY <1>3 DEF TitleOK
<1>4. CASE LoadArrives /\ rows'[c] = Filled[c]
  <2>1. CASE load.rows[c] = 0
    BY <1>4, <2>1 DEF Filled, TitleOK
  <2>2. CASE load.rows[c] # 0
    <3>1. load.rows[c] \in 1..Newest(c)
      BY <1>0, <1>4, <2>2 DEF ServerInv, LoadOK, LoadArrives, Newest
    <3>2. PICK t : t = titles[c][load.rows[c]]
      OBVIOUS
    <3>3. rows'[c] = <<t>>
      BY <1>4, <2>2, <3>2 DEF Filled
    <3>4. Fair(c, t)'
      BY <1>1, <3>1, <3>2, StoredUnder
    <3>5. QED BY <1>3, <3>3, <3>4
  <2>3. QED BY <2>1, <2>2
<1>5. CASE c \in New /\ CreateArrives(c) /\ rows'[c] = <<Untitled>> \o rows[c]
  <2>1. Stored(c, Untitled)
    <3>1. titles[c] # <<>> /\ titles[c][1] = Untitled
      BY <1>5 DEF ServerInv, BornOK, CreateArrives
    <3>2. 1 \in 1..Newest(c)
      BY <1>0, <3>1 DEF Newest
    <3>3. QED BY <3>1, <3>2, StoredUnder
  <2>2. ASSUME NEW i \in DOMAIN rows'[c]
        PROVE  rows'[c][i] = Untitled \/ \E j \in DOMAIN rows[c] : rows'[c][i] = rows[c][j]
    <3>1. i \in 1..(Len(rows[c]) + 1) /\ Len(rows[c]) \in Nat
      BY <1>0, <1>5
    <3>2. CASE i = 1
      BY <1>0, <1>5, <3>2, TextsAre
    <3>3. CASE i # 1
      <4>1. i - 1 \in DOMAIN rows[c] /\ rows'[c][i] = rows[c][i - 1]
        BY <1>0, <1>5, <3>1, <3>3, TextsAre
      <4>2. QED BY <4>1
    <3>4. QED BY <3>2, <3>3
  <2>3. ASSUME NEW i \in DOMAIN rows'[c], NEW t, t = rows'[c][i] PROVE Fair(c, t)'
    <3>1. CASE t = Untitled
      BY <1>1, <2>1, <3>1
    <3>2. CASE \E j \in DOMAIN rows[c] : t = rows[c][j]
      BY <3>2, TitleOnceFair DEF TitleOK
    <3>3. QED BY <2>2, <2>3, <3>1, <3>2
  <2>4. QED BY <2>3 DEF TitleOK
<1>6. CASE TitleTold(c) /\ rows'[c] = [i \in DOMAIN rows[c] |-> FirstWords]
  <2>1. auto[c].at = "sent" /\ auto'[c] = [auto[c] EXCEPT !.at = "told"]
    BY <1>6, Types DEF TitleTold
  <2>2. auto[c].number \in 0..Newest(c) /\ Newest(c) \in Nat
    BY <1>0, <2>1 DEF ServerInv, EventOK, Newest
  <2>3. CASE auto[c].number = 0
    <3>1. auto'[c] = [at |-> "told", number |-> 0]
      BY <1>0, <2>1, <2>3 DEF Events
    <3>2. Fair(c, FirstWords)'
      BY <3>1 DEF Fair, NoTitle
    <3>3. QED BY <1>3, <1>6, <3>2
  <2>4. CASE auto[c].number # 0
    <3>1. auto[c].number \in 1..Newest(c) /\ titles[c][auto[c].number] = FirstWords
      BY <2>1, <2>2, <2>4 DEF ServerInv, EventOK
    <3>2. Fair(c, FirstWords)'
      BY <1>1, <3>1, StoredUnder
    <3>3. QED BY <1>3, <1>6, <3>2
  <2>5. QED BY <2>3, <2>4
<1>7. ASSUME NEW k \in Calls, RenameArrives(k), call[k].conv = c,
             rows'[c] = [i \in DOMAIN rows[c] |-> call[k].title]
      PROVE  TitleOK(c)'
  <2>1. PICK t : t = call[k].title
    OBVIOUS
  <2>2. call[k].number \in 1..Newest(c) /\ titles[c][call[k].number] = t
    BY <1>7, <2>1 DEF ServerInv, AnswerOK, RenameArrives
  <2>3. Fair(c, t)'
    BY <1>1, <2>2, StoredUnder
  <2>4. QED BY <1>3, <1>7, <2>1, <2>3
<1>8. CASE rows'[c] = <<>>
  BY <1>8 DEF TitleOK
<1>9. QED BY <1>2, <1>4, <1>5, <1>6, <1>7, <1>8, RowMoves

LEMMA InitTitles == Init => TitleInv
BY DEF Init, TitleInv, TitleOK

LEMMA TitlesFollow == TitleInv => TitlesAreStored
BY DEF TitleInv, TitleOK, Fair, Stored, NoTitle, TitlesAreStored

-----------------------------------------------------------------------------
(* The rows.                                                               *)

Heard(c, i) == \/ TitleTold(c) /\ auto[c].number = i
               \/ \E k \in Calls : /\ RenameArrives(k)
                                   /\ call[k].conv = c /\ call[k].number = i

LEMMA UnheardStays ==
    ASSUME TypeInv, ServerInv, [Next]_vars, NEW c \in Convs, c \notin upset', c \notin gone,
           NEW i, i \in Unheard(c), ~Heard(c, i)
    PROVE  i \in Unheard(c)'
<1>1. ASSUME NEW k \in Coming(c), call[k].number = i PROVE i \in Unheard(c)'
  <2>1. k \in Calls /\ call[k].conv = c /\ call[k].at = "done"
    BY <1>1 DEF Coming
  <2>2. ~RenameArrives(k)
    BY <1>1, <2>1 DEF Heard
  <2>3. ~DeleteArrives(k)
    BY <2>1 DEF ServerInv, AnswerOK, DeleteArrives
  <2>4. ~CallFails(k)
    BY <2>1 DEF CallFails
  <2>5. call'[k] = call[k]
    <3>1. \A d \in Convs : ~Asks(k, d)
      BY <2>1, AsksMoves
    <3>2. ~CallServed(k)
      BY <2>1, ServedMoves
    <3>3. QED BY <2>1, <2>2, <2>3, <2>4, <3>1, <3>2, CallMoves DEF Over
  <2>6. QED BY <1>1, <2>1, <2>5 DEF Unheard, Coming
<1>2. ASSUME auto[c].at = "sent", auto[c].number = i PROVE i \in Unheard(c)'
  <2>1. ~TitleTold(c)
    BY <1>2 DEF Heard
  <2>2. c \notin New \/ ~CreateArrives(c)
    BY <1>2 DEF ServerInv, BornOK, CreateArrives
  <2>3. auto'[c] = auto[c]
    BY <1>2, <2>1, <2>2, EventMoves DEF FirstMessage, TitleLost
  <2>4. QED BY <1>2, <2>3 DEF Unheard
<1>3. QED BY <1>1, <1>2 DEF Unheard

\* A title that is stored is on its way.
LEMMA NewUnheard ==
    ASSUME TypeInv, ServerInv, [Next]_vars, NEW c \in Convs, Live(c), titles'[c] # titles[c]
    PROVE  Newest(c)' = Newest(c) + 1 /\ Newest(c) + 1 \in Unheard(c)'
<1>1. ASSUME NEW d \in Convs, NEW t \in Texts, Store(d, t) PROVE d = c
  BY <1>1, StoreMoves
<1>2. ASSUME NEW d \in New, CreateServed(d) PROVE FALSE
  <2>1. d \in Convs /\ Store(d, Untitled)
    BY <1>2 DEF CreateServed, Convs
  <2>2. create[c] = "asked" /\ c \in New
    BY <1>1, <1>2, <2>1, TextsAre DEF CreateServed
  <2>3. QED BY <2>2 DEF ServerInv, BornOK, Live
<1>3. ASSUME NEW d \in Convs, TitleSent(d), Live(d), Store(d, FirstWords),
             auto' = [auto EXCEPT ![d] = [at |-> "sent", number |-> Newest(d) + 1]]
      PROVE  Newest(c)' = Newest(c) + 1 /\ Newest(c) + 1 \in Unheard(c)'
  <2>1. d = c
    BY <1>1, <1>3, TextsAre
  <2>2. auto'[c] = [at |-> "sent", number |-> Newest(c) + 1]
    BY <1>3, <2>1, Types
  <2>3. Newest(c)' = Newest(c) + 1
    BY <1>3, <2>1, StoreMoves, TextsAre
  <2>4. auto'[c].at = "sent" /\ auto'[c].number = Newest(c) + 1
    BY <2>2
  <2>5. QED BY <2>3, <2>4 DEF Unheard
<1>4. ASSUME NEW k \in Calls, CallServed(k), Live(call[k].conv),
             Store(call[k].conv, call[k].title)
      PROVE  Newest(c)' = Newest(c) + 1 /\ Newest(c) + 1 \in Unheard(c)'
  <2>1. call[k] \in CallRecs /\ call[k].conv \in Convs /\ call[k].title \in Texts
    BY <1>4, ServedMoves, Types DEF CallRecs, Texts
  <2>2. call[k].conv = c
    BY <1>1, <1>4, <2>1
  <2>3. call[k].kind = "rename"
    BY <1>4, <2>2 DEF CallServed
  <2>4. call' = [call EXCEPT ![k].at = "done", ![k].number = Newest(c) + 1]
    BY <1>4, <2>2, <2>3 DEF CallServed
  <2>5. call'[k].at = "done" /\ call'[k].number = Newest(c) + 1 /\ call'[k].conv = c
    BY <2>1, <2>2, <2>4, Types DEF CallRecs
  <2>6. Newest(c)' = Newest(c) + 1
    BY <1>4, <2>1, <2>2, StoreMoves
  <2>7. QED BY <2>5, <2>6 DEF Unheard, Coming
<1>5. QED BY <1>2, <1>3, <1>4, WhoStores

LEMMA OneAtATime ==
    ASSUME TypeInv, NEW c \in Convs, NEW k \in Calls, RenameArrives(k)
    PROVE  ~TitleTold(c) /\ \A j \in Calls : RenameArrives(j) => j = k
<1>1. ASSUME TitleTold(c) PROVE FALSE
  <2>1. auto'[c] = [auto[c] EXCEPT !.at = "told"] /\ auto[c].at = "sent"
    BY <1>1, Types DEF TitleTold
  <2>2. auto'[c].at = "told"
    BY <2>1, Types DEF Events
  <2>3. QED BY <2>1, <2>2 DEF RenameArrives
<1>2. ASSUME NEW j \in Calls, RenameArrives(j), j # k PROVE FALSE
  <2>1. Over(j) /\ Over(k)
    BY <1>2 DEF Over
  <2>2. call[j].at = "done" /\ call'[j].at = "ended" /\ call'[j] = call[j]
    BY <1>2, <2>1, OverMoves DEF RenameArrives
  <2>3. QED BY <2>2
<1>3. QED BY <1>1, <1>2

LEMMA InTime ==
    ASSUME NEW c \in Convs, NEW n, n > 0, Told(c, n), c \notin upset'
    PROVE  \A i \in (n + 1)..Newest(c) : i \in Unheard(c)
BY DEF Told, Late

LEMMA OneRow == ASSUME NEW s, NEW t PROVE [i \in DOMAIN <<s>> |-> t] = <<t>>
OBVIOUS

LEMMA NoRow == ASSUME NEW s, NEW t, s = <<>> PROVE [i \in DOMAIN s |-> t] = <<>>
OBVIOUS

\* The row has a title of which the later ones are to come.
LEMMA FollowsStep ==
    ASSUME TypeInv, ServerInv, [Next]_vars, NEW c \in Convs, c \notin upset',
           c \notin upset, Live(c), c \notin gone', ~LoadArrives,
           ~(c \in New /\ CreateArrives(c)), NEW n \in 1..Newest(c), Follows(c, n)
    PROVE  \E m \in 1..Newest(c)' : Follows(c, m)'
<1>0. /\ Newest(c) \in Nat /\ Newest(c)' \in Nat /\ Newest(c) <= Newest(c)'
      /\ \A i \in 1..Newest(c) : titles'[c][i] = titles[c][i]
      /\ c \notin gone
  BY TitlesGrow DEF Live
<1>1. rows[c] = <<titles[c][n]>> /\ \A i \in (n + 1)..Newest(c) : i \in Unheard(c)
  BY DEF Follows
<1>2. CASE TitleTold(c)
  <2>1. PICK m \in 1..Newest(c) : m = auto[c].number /\ titles[c][m] = FirstWords
    <3>1. /\ auto[c].number \in 0..Newest(c)
          /\ IF auto[c].number = 0 THEN c \in gone \cup upset
                                   ELSE titles[c][auto[c].number] = FirstWords
      BY <1>2 DEF ServerInv, EventOK, TitleTold
    <3>2. auto[c].number # 0
      BY <1>0, <3>1
    <3>3. QED BY <1>0, <3>1, <3>2
  <2>2. Told(c, m) /\ UNCHANGED <<titles, call>> /\ rows' = Retitled(c, FirstWords)
    BY <1>2, <2>1 DEF TitleTold, server
  <2>3. rows'[c] = <<FirstWords>>
    BY <1>1, <2>2, OneRow, Types DEF Retitled
  <2>4. ASSUME NEW i \in (m + 1)..Newest(c)' PROVE i \in Unheard(c)'
    <3>1. i \in (m + 1)..Newest(c) /\ i # m
      BY <1>0, <2>2 DEF Newest
    <3>2. i \in Unheard(c)
      BY <2>1, <2>2, <3>1, InTime
    <3>3. ~Heard(c, i)
      BY <1>2, <2>1, <3>1, OneAtATime DEF Heard
    <3>4. QED BY <1>0, <3>2, <3>3, UnheardStays
  <2>5. Follows(c, m)'
    BY <1>0, <2>1, <2>3, <2>4 DEF Follows
  <2>6. QED BY <1>0, <2>5
<1>3. ASSUME NEW k \in Calls, RenameArrives(k), call[k].conv = c
      PROVE  \E m \in 1..Newest(c)' : Follows(c, m)'
  <2>1. PICK m \in 1..Newest(c) : m = call[k].number /\ titles[c][m] = call[k].title
    BY <1>3 DEF ServerInv, AnswerOK, RenameArrives
  <2>2. Told(c, m) /\ UNCHANGED titles /\ rows' = Retitled(c, call[k].title)
    BY <1>3, <2>1 DEF RenameArrives, server
  <2>3. rows'[c] = <<call[k].title>>
    BY <1>1, <2>2, OneRow, Types DEF Retitled
  <2>4. ASSUME NEW i \in (m + 1)..Newest(c)' PROVE i \in Unheard(c)'
    <3>1. i \in (m + 1)..Newest(c) /\ i # m
      BY <1>0, <2>2 DEF Newest
    <3>2. i \in Unheard(c)
      BY <2>1, <2>2, <3>1, InTime
    <3>3. ~Heard(c, i)
      BY <1>3, <2>1, <3>1, OneAtATime DEF Heard
    <3>4. QED BY <1>0, <3>2, <3>3, UnheardStays
  <2>5. Follows(c, m)'
    BY <1>0, <2>1, <2>2, <2>3, <2>4 DEF Follows
  <2>6. QED BY <1>0, <2>5
<1>4. CASE /\ ~TitleTold(c)
           /\ \A k \in Calls : ~(RenameArrives(k) /\ call[k].conv = c)
  <2>1. \A i : ~Heard(c, i)
    BY <1>4 DEF Heard
  <2>2. rows'[c] = rows[c]
    <3>1. \A k \in Calls : ~(DeleteArrives(k) /\ call[k].conv = c)
      BY <1>0 DEF ServerInv, AnswerOK, DeleteArrives
    <3>2. QED BY <1>4, <3>1, RowMoves
  <2>3. ASSUME NEW i \in (n + 1)..Newest(c)' PROVE i \in Unheard(c)'
    <3>1. CASE i <= Newest(c)
      BY <1>0, <1>1, <2>1, <3>1, UnheardStays
    <3>2. CASE i > Newest(c)
      <4>1. titles'[c] # titles[c]
        BY <1>0, <3>2 DEF Newest
      <4>2. Newest(c)' = Newest(c) + 1 /\ Newest(c) + 1 \in Unheard(c)'
        BY <4>1, NewUnheard
      <4>3. i = Newest(c) + 1
        BY <1>0, <3>2, <4>2
      <4>4. QED BY <4>2, <4>3
    <3>3. QED BY <1>0, <3>1, <3>2
  <2>4. titles'[c][n] = titles[c][n]
    BY <1>0
  <2>5. Follows(c, n)'
    BY <1>1, <2>2, <2>3, <2>4 DEF Follows
  <2>6. QED BY <1>0, <2>5
<1>5. QED BY <1>2, <1>3, <1>4

LEMMA UnlistedStep ==
    ASSUME TypeInv, TypeInv', ServerInv, [Next]_vars, NEW c \in Convs, c \notin upset',
           c \notin upset, Unlisted(c)
    PROVE  Unlisted(c)'
<1> SUFFICES ASSUME c \in New, create'[c] # "done"
             PROVE  /\ rows'[c] = <<>> /\ c \notin gone'
                    /\ \A k \in Calls : call'[k].conv # c
  BY DEF Unlisted
<1>1. create[c] # "done" /\ ~CreateArrives(c)
  <2>1. CreateArrives(c) => create'[c] = "done"
    BY Types DEF CreateArrives
  <2>2. QED BY <2>1, CreateMoves
<1>2. rows[c] = <<>> /\ c \notin gone /\ \A k \in Calls : call[k].conv # c
  BY <1>1 DEF Unlisted
<1>3. rows'[c] = <<>>
  <2>1. LoadArrives => Filled[c] = <<>>
    <3>1. SUFFICES ASSUME LoadArrives PROVE load.rows[c] = 0
      BY DEF Filled
    <3>2. CASE create[c] = "made"
      <4>1. ~(load.rows[c] > 0)
        BY <3>1, <3>2 DEF LoadArrives, Misread
      <4>2. QED BY <4>1, Types DEF Loads
    <3>3. CASE create[c] # "made"
      <4>1. titles[c] = <<>>
        BY <1>1, <3>3, Types DEF ServerInv, BornOK
      <4>2. Newest(c) = 0 /\ load.rows[c] <= Newest(c) /\ load.rows[c] \in Nat
        BY <3>1, <4>1, Types DEF Newest, Loads, ServerInv, LoadOK, LoadArrives
      <4>3. QED BY <4>2
    <3>4. QED BY <3>2, <3>3
  <2>2. ~TitleTold(c)
    BY <1>1 DEF ServerInv, BornOK, TitleTold
  <2>3. QED BY <1>1, <1>2, <2>1, <2>2, RowMoves
<1>4. c \notin gone'
  <2>1. ASSUME NEW k \in Calls, Answering(k) PROVE c \notin gone'
    BY <1>2, <2>1 DEF Answering, CallServed, RenameArrives, DeleteArrives, CallFails, server
  <2>2. ASSUME NEW k \in Calls, NEW d \in Convs, Asks(k, d) PROVE c \notin gone'
    BY <1>2, <2>2 DEF Asks, Delete, Rename, server
  <2>3. QED BY <1>2, <2>1, <2>2, WhoCalls DEF Asks
<1>5. ASSUME NEW k \in Calls PROVE call'[k].conv # c
  <2>1. CASE call'[k] = call[k]
    BY <1>2, <2>1
  <2>2. ASSUME NEW d \in Convs, Asks(k, d) PROVE call'[k].conv # c
    <3>1. call'[k].conv = d /\ Listed(d)
      BY <2>2, AsksMoves
    <3>2. QED BY <1>2, <3>1 DEF Listed
  <2>3. CASE CallServed(k)
    BY <1>2, <2>3, ServedMoves
  <2>4. CASE Over(k)
    <3>1. c # NoConv
      BY SidebarAssumption DEF SidebarAssumption
    <3>2. call'[k].conv = NoConv \/ call'[k].conv = call[k].conv
      BY <2>4, OverMoves
    <3>3. QED BY <1>2, <3>1, <3>2
  <2>5. QED BY <2>1, <2>2, <2>3, <2>4, CallMoves
<1>6. QED BY <1>3, <1>4, <1>5

\* What a load puts there.
LEMMA ListArrives ==
    ASSUME TypeInv, ServerInv, LoadArrives, NEW c \in Convs, c \notin upset',
           Live(c), ~(c \in New /\ create[c] = "made")
    PROVE  \E n \in 1..Newest(c)' : Follows(c, n)'
<1>0. /\ UNCHANGED <<titles, call, auto, create>> /\ rows'[c] = Filled[c]
      /\ load.rows[c] \in Nat /\ Newest(c) \in Nat
  BY Types DEF LoadArrives, server, Loads, Newest
<1>1. load.rows[c] # 0
  <2>1. SUFFICES ASSUME load.rows[c] = 0 PROVE FALSE
    OBVIOUS
  <2>2. c \in New
    BY <2>1 DEF ServerInv, LoadOK, LoadArrives, Convs
  <2>3. create[c] # "done"
    BY <2>1, <2>2 DEF LoadArrives, Misread
  <2>4. c \notin upset
    BY DEF LoadArrives
  <2>5. titles[c] = <<>>
    BY <2>2, <2>3, <2>4, Types DEF ServerInv, BornOK
  <2>6. QED BY <2>5 DEF Live
<1>2. PICK n \in 1..Newest(c) : n = load.rows[c]
  BY <1>0, <1>1 DEF ServerInv, LoadOK, LoadArrives
<1>3. rows'[c] = <<titles[c][n]>>
  BY <1>0, <1>1, <1>2 DEF Filled
<1>4. ~Late(c, n)
  BY <1>0, <1>1, <1>2 DEF LoadArrives, Misread
<1>5. \A i \in (n + 1)..Newest(c) : i \in Unheard(c)
  BY <1>4 DEF Late
<1>6. Unheard(c)' = Unheard(c)
  BY <1>0 DEF Unheard, Coming
<1>7. Follows(c, n)' /\ Newest(c)' = Newest(c)
  BY <1>0, <1>3, <1>5, <1>6 DEF Follows, Newest
<1>8. QED BY <1>7

\* What a create's answer puts there.
LEMMA NewRow ==
    ASSUME TypeInv, ServerInv, NEW c \in New, CreateArrives(c), c \notin upset', Unlisted(c)
    PROVE  \E n \in 1..Newest(c)' : Follows(c, n)'
<1>0. /\ c \in Convs /\ create[c] = "made" /\ UNCHANGED <<titles, call>> /\ Told(c, 1)
      /\ rows'[c] = <<Untitled>> \o rows[c] /\ Newest(c) \in Nat
  BY Types DEF CreateArrives, server, Newest, Convs
<1>1. titles[c] # <<>> /\ titles[c][1] = Untitled /\ auto[c].at = "none"
  BY <1>0 DEF ServerInv, BornOK
<1>2. rows'[c] = <<titles[c][1]>>
  <2>1. rows[c] = <<>>
    BY <1>0 DEF Unlisted
  <2>2. <<Untitled>> \o <<>> = <<Untitled>>
    OBVIOUS
  <2>3. QED BY <1>0, <1>1, <2>1, <2>2
<1>3. \A i \in (1 + 1)..Newest(c) : i \in Unheard(c)
  BY <1>0, InTime
<1>4. Unheard(c) \subseteq Unheard(c)'
  BY <1>0, <1>1 DEF Unheard, Coming
<1>5. Newest(c)' = Newest(c) /\ titles'[c] = titles[c]
  BY <1>0 DEF Newest
<1>6. \A i \in (1 + 1)..Newest(c)' : i \in Unheard(c)'
  BY <1>3, <1>4, <1>5
<1>7. Follows(c, 1)'
  BY <1>2, <1>5, <1>6 DEF Follows
<1>8. 1 \in 1..Newest(c)
  BY <1>0, <1>1, Types DEF Newest
<1>9. QED BY <1>5, <1>7, <1>8

LEMMA ListStep ==
    ASSUME TypeInv, TypeInv', ServerInv, ServerInv', [Next]_vars, NEW c \in Convs,
           c \notin upset', c \notin upset, Unlisted(c), Unlisted(c)', ListOK(c)
    PROVE  ListOK(c)'
<1> SUFFICES ASSUME ~loading', ~error'
             PROVE  /\ titles'[c] = <<>> => rows'[c] = <<>>
                    /\ c \in gone' /\ rows'[c] # <<>> =>
                          \E k \in Coming(c)' : call'[k].kind = "delete"
                    /\ Live(c)' => \/ c \in New /\ create'[c] = "made"
                                   \/ \E n \in 1..Newest(c)' : Follows(c, n)'
  BY DEF ListOK
<1>1. CASE LoadArrives
  <2>1. loading /\ gone = {} /\ UNCHANGED <<titles, gone, create>>
    BY <1>1 DEF LoadArrives, ServerInv, LoadOK, server
  <2>2. titles'[c] = <<>> => rows'[c] = <<>>
    BY DEF ServerInv, BornOK, Unlisted, Convs
  <2>3. Live(c)' => Live(c)
    BY <2>1 DEF Live
  <2>4. QED BY <1>1, <2>1, <2>2, <2>3, ListArrives
<1>2. CASE ~LoadArrives
  <2>1. ~loading /\ ~error /\ UNCHANGED <<loading, error, load>>
    <3>1. ~LoadFails
      BY DEF LoadFails, LoadFailed
    <3>2. ~LoadServed
      BY DEF LoadServed, ServerInv, LoadOK, screen
    <3>3. QED BY <1>2, <3>1, <3>2, WhoLoads DEF Loading
  <2>2. /\ titles[c] = <<>> => rows[c] = <<>>
        /\ c \in gone /\ rows[c] # <<>> => \E k \in Coming(c) : call[k].kind = "delete"
        /\ Live(c) => \/ c \in New /\ create[c] = "made"
                      \/ \E n \in 1..Newest(c) : Follows(c, n)
    BY <2>1 DEF ListOK
  <2>3. titles'[c] = <<>> => rows'[c] = <<>>
    BY DEF ServerInv, BornOK, Unlisted, Convs
  <2>4. ASSUME c \in gone', rows'[c] # <<>>
        PROVE  \E k \in Coming(c)' : call'[k].kind = "delete"
    <3>1. CASE c \in gone
      <4>1. ~(c \in New /\ CreateArrives(c))
        BY <3>1 DEF Unlisted, CreateArrives
      <4>2. rows[c] # <<>>
        <5>1. SUFFICES ASSUME rows[c] = <<>> PROVE rows'[c] = <<>>
          BY <2>4
        <5>2. \A t : [i \in DOMAIN rows[c] |-> t] = <<>>
          BY <5>1, NoRow
        <5>3. QED BY <1>2, <4>1, <5>1, <5>2, RowMoves
      <4>3. PICK k \in Coming(c) : call[k].kind = "delete"
        BY <2>2, <3>1, <4>2
      <4>4. k \in Calls /\ call[k].conv = c /\ call[k].at = "done"
        BY <4>3 DEF Coming
      <4>5. call'[k] = call[k]
        <5>1. ~CallFails(k)
          BY <4>4 DEF CallFails
        <5>2. ~RenameArrives(k)
          BY <4>3 DEF RenameArrives
        <5>3. ~DeleteArrives(k)
          <6>1. SUFFICES ASSUME DeleteArrives(k) PROVE rows'[c] = <<>>
            BY <2>4
          <6>2. rows' = [rows EXCEPT ![c] = <<>>]
            BY <4>4, <6>1 DEF DeleteArrives
          <6>3. QED BY <6>2, Types
        <5>4. \A d \in Convs : ~Asks(k, d)
          BY <4>4, AsksMoves
        <5>5. ~CallServed(k)
          BY <4>4, ServedMoves
        <5>6. QED BY <4>4, <5>1, <5>2, <5>3, <5>4, <5>5, CallMoves DEF Over
      <4>6. k \in Coming(c)' /\ call'[k].kind = "delete"
        BY <4>3, <4>4, <4>5 DEF Coming
      <4>7. QED BY <4>6
    <3>2. CASE c \notin gone
      <4>1. PICK k \in Calls : Answering(k)
        BY <2>4, <3>2, WhoCalls DEF Delete, Rename, server
      <4>2. CallServed(k)
        BY <2>4, <3>2, <4>1 DEF Answering, RenameArrives, DeleteArrives, CallFails, server
      <4>3. c = call[k].conv /\ call' = [call EXCEPT ![k].at = "done"]
        BY <2>4, <3>2, <4>2 DEF CallServed, server
      <4>4. call[k].kind # "rename"
        BY <2>4, <3>2, <4>2 DEF CallServed, server
      <4>5. call'[k].at = "done" /\ call'[k].conv = c /\ call'[k].kind = "delete"
        BY <4>3, <4>4, Types DEF CallRecs
      <4>6. k \in Coming(c)'
        BY <4>5 DEF Coming
      <4>7. QED BY <4>5, <4>6
    <3>3. QED BY <3>1, <3>2
  <2>5. ASSUME Live(c)', ~(c \in New /\ create'[c] = "made")
        PROVE  \E n \in 1..Newest(c)' : Follows(c, n)'
    <3>1. c \notin gone' /\ c \notin gone
      BY <2>5, HistoryGrows DEF Live
    <3>2. Live(c)
      <4>1. titles'[c] # <<>>
        BY <2>5 DEF Live
      <4>2. ~(c \in New /\ CreateServed(c))
        BY <2>5, Types DEF CreateServed
      <4>3. QED BY <3>1, <4>1, <4>2, TitlesGrow DEF Live
    <3>3. CASE c \in New /\ create[c] = "made"
      <4>1. CreateArrives(c)
        <5>1. ~CreateFails(c)
          BY <3>3 DEF CreateFails
        <5>2. QED BY <2>5, <3>3, <5>1, CreateMoves
      <4>2. QED BY <3>3, <4>1, NewRow
    <3>4. CASE ~(c \in New /\ create[c] = "made")
      <4>1. PICK n \in 1..Newest(c) : Follows(c, n)
        BY <2>2, <3>2, <3>4
      <4>2. ~(c \in New /\ CreateArrives(c))
        BY <3>4 DEF CreateArrives
      <4>3. QED BY <1>2, <3>1, <3>2, <4>1, <4>2, FollowsStep
    <3>5. QED BY <3>3, <3>4
  <2>6. QED BY <2>3, <2>4, <2>5
<1>3. QED BY <1>1, <1>2

LEMMA InitRows == Init => RowInv
<1> SUFFICES ASSUME Init, NEW c \in Convs PROVE Unlisted(c) /\ ListOK(c)
  BY DEF RowInv
<1> USE DEF Init
<1>1. Unlisted(c)
  BY SidebarAssumption DEF Unlisted, NoCall, SidebarAssumption
<1>2. QED BY <1>1 DEF ListOK

LEMMA RowStep == TypeInv /\ TypeInv' /\ ServerInv /\ ServerInv' /\ RowInv /\ [Next]_vars
                 => RowInv'
BY UnlistedStep, ListStep, HistoryGrows DEF RowInv

\* With no news under way, the title of the row is the newest.
LEMMA RowsFollow == TypeInv /\ ServerInv /\ RowInv => InStep
<1> SUFFICES ASSUME TypeInv, ServerInv, RowInv, ~loading, ~error,
                    NEW c \in Convs \ upset, ~Pending(c)
             PROVE  rows[c] = IF Live(c) THEN <<titles[c][Newest(c)]>> ELSE <<>>
  BY DEF InStep
<1>1. ListOK(c) /\ Coming(c) = {} /\ Unheard(c) = {} /\ ~(c \in New /\ create[c] = "made")
  BY DEF RowInv, Pending, Unheard
<1>2. CASE Live(c)
  <2>1. PICK n \in 1..Newest(c) : Follows(c, n)
    BY <1>1, <1>2 DEF ListOK
  <2>2. ~\E i \in (n + 1)..Newest(c) : TRUE
    BY <1>1, <2>1 DEF Follows
  <2>3. n = Newest(c)
    BY <2>2, Types DEF Newest
  <2>4. QED BY <1>2, <2>1, <2>3 DEF Follows
<1>3. CASE ~Live(c)
  BY <1>1, <1>3 DEF ListOK, Live
<1>4. QED BY <1>2, <1>3

-----------------------------------------------------------------------------
(* The page.                                                               *)

\* What a step makes of the page.
LEMMA PageMoves ==
    ASSUME [Next]_vars
    PROVE  /\ moved \subseteq moved'
           /\ \/ page' = page
              \/ page' = NoConv
              \/ \E c \in Convs : /\ page' = c /\ Goto(c)
                                  /\ Open(c) \/ (c \in New /\ CreateArrives(c))
<1>1. CASE UNCHANGED vars
  BY <1>1 DEF vars
<1>2. CASE Loading
  BY <1>2 DEF Loading, LoadServed, LoadArrives, LoadFails
<1>3. ASSUME NEW c \in New, Create(c) \/ Creating(c)
      PROVE  \/ UNCHANGED <<page, moved>>
             \/ c \in Convs /\ page' = c /\ Goto(c) /\ CreateArrives(c)
  BY <1>3 DEF Create, Creating, CreateServed, CreateArrives, CreateFails, Goto, Convs
<1>4. ASSUME NEW c \in Convs,
             FirstMessage(c) \/ TitleSent(c) \/ TitleTold(c) \/ TitleLost(c)
      PROVE  UNCHANGED <<page, moved>>
  BY <1>4 DEF FirstMessage, TitleSent, TitleTold, TitleLost
<1>5. ASSUME NEW c \in Convs \cup {NoConv}, Open(c) PROVE Goto(c) /\ page' = c
  BY <1>5 DEF Open, Goto
<1>6. ASSUME NEW k \in Calls, Answering(k)
      PROVE  \/ UNCHANGED <<page, moved>>
             \/ page' = NoConv /\ Goto(NoConv)
  BY <1>6 DEF Answering, CallServed, RenameArrives, DeleteArrives, CallFails, Goto
<1>7. ASSUME NEW k \in Calls, NEW c \in Convs, Asks(k, c) PROVE UNCHANGED <<page, moved>>
  BY <1>7 DEF Asks, Delete, Rename
<1>8. \A c : Goto(c) => moved \subseteq moved'
  BY DEF Goto
<1>9. QED BY <1>1, <1>2, <1>3, <1>4, <1>5, <1>6, <1>7, <1>8, Steps DEF Asks

LEMMA PageStep ==
    ASSUME TypeInv, ServerInv, RowInv, [Next]_vars, NEW k \in Calls, PageOK(k)
    PROVE  PageOK(k)'
<1> SUFFICES ASSUME NEW c \in Convs, c = call'[k].conv, c \notin upset', c \notin moved'
             PROVE  /\ Deleting(k)' /\ ~call'[k].open => page' # c
                    /\ call'[k].at = "ended" => page' # c /\ rows'[c] = <<>> /\ ~loading'
  BY DEF PageOK
<1>0. c \notin upset /\ c \notin moved /\ Unlisted(c) /\ c # NoConv
  BY HistoryGrows, PageMoves, SidebarAssumption DEF RowInv, SidebarAssumption
<1>1. ASSUME call[k].conv = c
      PROVE  /\ Deleting(k) /\ ~call[k].open => page # c
             /\ call[k].at = "ended" => page # c /\ rows[c] = <<>> /\ ~loading
  BY <1>0, <1>1 DEF PageOK
<1>2. loading' => loading
  BY WhoLoads DEF Loading, LoadServed, LoadArrives, LoadFails, LoadFailed, screen
<1>3. CASE call'[k] = call[k]
  <2>1. call[k].conv = c
    BY <1>3
  <2>2. ASSUME Deleting(k), ~call[k].open PROVE page' # c
    <3>1. Blind(c)
      BY <2>1, <2>2 DEF Blind, Deleting
    <3>2. ~Goto(c)
      BY <1>0, <3>1 DEF Goto
    <3>3. QED BY <1>0, <1>1, <2>1, <2>2, <3>2, PageMoves
  <2>3. ASSUME call[k].at = "ended" PROVE page' # c /\ rows'[c] = <<>> /\ ~loading'
    <3>1. page # c /\ rows[c] = <<>> /\ ~loading
      BY <1>1, <2>1, <2>3
    <3>2. ~(c \in New /\ CreateArrives(c))
      BY <1>0, <2>1 DEF Unlisted, CreateArrives
    <3>3. ~Open(c)
      BY <1>0, <3>1 DEF Open, Listed
    <3>4. page' # c
      BY <1>0, <3>1, <3>2, <3>3, PageMoves
    <3>5. ~LoadArrives
      BY <3>1 DEF LoadArrives, ServerInv, LoadOK
    <3>6. \A t : [i \in DOMAIN rows[c] |-> t] = <<>>
      BY <3>1, NoRow
    <3>7. rows'[c] = <<>>
      BY <3>1, <3>2, <3>5, <3>6, RowMoves
    <3>8. QED BY <1>2, <3>1, <3>4, <3>7
  <2>4. QED BY <1>3, <2>2, <2>3 DEF Deleting
<1>4. ASSUME NEW d \in Convs, Asks(k, d)
      PROVE  /\ Deleting(k)' /\ ~call'[k].open => page' # c
             /\ call'[k].at # "ended"
  <2>1. call'[k].at = "asked" /\ d = c /\ call'[k].open = (page = c)
    BY <1>4, AsksMoves
  <2>2. page' = page
    BY <1>4 DEF Asks, Delete, Rename
  <2>3. QED BY <2>1, <2>2
<1>5. CASE CallServed(k)
  <2>1. /\ call[k].at = "asked" /\ call'[k].at \in {"refused", "done"}
        /\ call'[k].kind = call[k].kind /\ call[k].conv = c
        /\ call'[k].open = call[k].open
    BY <1>5, ServedMoves
  <2>2. page' = page
    BY <1>5 DEF CallServed
  <2>3. Deleting(k)' => Deleting(k)
    BY <2>1 DEF Deleting
  <2>4. QED BY <1>1, <2>1, <2>2, <2>3
<1>6. CASE Over(k)
  <2>1. /\ call'[k].at = "ended" /\ call[k].conv \in Convs
        /\ call'[k].conv = IF DeleteArrives(k) THEN call[k].conv ELSE NoConv
    BY <1>6, OverMoves
  <2>2. DeleteArrives(k) /\ call[k].conv = c
    BY <1>0, <2>1
  <2>3. rows'[c] = <<>> /\ ~loading
    <3>1. rows' = [rows EXCEPT ![c] = <<>>]
      BY <2>2 DEF DeleteArrives
    <3>2. QED BY <2>2, <3>1, Types DEF ServerInv, LoadOK, DeleteArrives
  <2>4. page' # c
    <3>1. Deleting(k)
      BY <2>2 DEF Deleting, DeleteArrives
    <3>2. CASE Leaves(k) /\ page # NoConv
      BY <1>0, <2>2, <3>2 DEF DeleteArrives, Goto
    <3>3. CASE ~(Leaves(k) /\ page # NoConv)
      <4>1. page' = page
        BY <2>2, <3>3 DEF DeleteArrives
      <4>2. QED BY <1>0, <1>1, <2>2, <3>1, <3>3, <4>1 DEF Leaves
    <3>4. QED BY <3>2, <3>3
  <2>5. ~Deleting(k)'
    BY <2>1 DEF Deleting
  <2>6. QED BY <1>2, <2>3, <2>4, <2>5
<1>7. QED BY <1>3, <1>4, <1>5, <1>6, CallMoves

LEMMA InitPage == Init => PageInv
BY SidebarAssumption DEF Init, PageInv, PageOK, NoCall, SidebarAssumption

LEMMA PageFollows == TypeInv /\ PageInv => NotStranded
BY Types DEF PageInv, PageOK, NotStranded

-----------------------------------------------------------------------------
(* The theorems.                                                           *)

IInv == TypeInv /\ ServerInv /\ TitleInv /\ RowInv /\ PageInv

LEMMA Invariance == Spec => []IInv
<1>1. Init => IInv
  BY InitTyped, InitServer, InitTitles, InitRows, InitPage DEF IInv
<1>2. IInv /\ [Next]_vars => IInv'
  <2> SUFFICES ASSUME IInv, [Next]_vars PROVE IInv'
    OBVIOUS
  <2> USE DEF IInv
  <2>1. TypeInv'
    BY NextTyped DEF ServerInv
  <2>2. ServerInv'
    BY ServerStep
  <2>3. TitleInv'
    BY <2>1, TitleStep DEF TitleInv
  <2>4. RowInv'
    BY <2>1, <2>2, RowStep
  <2>5. PageInv'
    BY PageStep DEF PageInv
  <2>6. QED BY <2>1, <2>2, <2>3, <2>4, <2>5
<1>3. QED BY <1>1, <1>2, PTL DEF Spec

\* Every variable stays of its type: a title that is shown is one of those that
\* there are, and the list and the error are not shown at once.
THEOREM TypeCorrect == Spec => []TypeOK
BY Invariance, PTL DEF IInv, TypeInv

\* However its calls, its load and the events of replies cross, the sidebar has
\* the server's list, in its latest titles, as soon as no news of it is under way
\* (conversations-context.tsx:37, :52, :58, :71).
THEOREM ListIsTheServers == Spec => []InStep
<1>1. IInv => InStep
  BY RowsFollow DEF IInv
<1>2. QED BY <1>1, Invariance, PTL

\* No title is shown that the server does not have, but for the automatic one
\* (conversations-context.tsx:58; chat.go:313).
THEOREM NoTitleBeforeTheServer == Spec => []TitlesAreStored
<1>1. IInv => TitlesAreStored
  BY TitlesFollow DEF IInv
<1>2. QED BY <1>1, Invariance, PTL

\* The page of a conversation deleted here is left (conversation-item.tsx:55).
THEOREM DeletedPageIsLeft == Spec => []NotStranded
<1>1. IInv => NotStranded
  BY PageFollows DEF IInv
<1>2. QED BY <1>1, Invariance, PTL
=============================================================================
