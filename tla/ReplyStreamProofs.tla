-------------------------- MODULE ReplyStreamProofs --------------------------
(* Theorems about ReplyStream, for every value of its constants.           *)
EXTENDS ReplyStream, FiniteSetTheorems, SequenceTheorems, TLAPS

-----------------------------------------------------------------------------
(* The numbers of a set, in order.                                         *)

Increasing(s) == \A i, j \in DOMAIN s : i < j => s[i] < s[j]

LEMMA FirstOnes ==
    ASSUME NEW n \in Nat, NEW s \in [1..n -> Int], Increasing(s), NEW k \in 0..n
    PROVE  Cardinality({s[i] : i \in 1..k}) = k
<1> DEFINE T == {s[i] : i \in 1..k}
           f == [i \in 1..k |-> s[i]]
<1>1. \A i, j \in 1..k : i # j => f[i] # f[j]
  <2> SUFFICES ASSUME NEW i \in 1..k, NEW j \in 1..k, i # j PROVE s[i] # s[j]
    OBVIOUS
  <2>1. i < j \/ j < i
    OBVIOUS
  <2>2. s[i] \in Int /\ s[j] \in Int /\ (s[i] < s[j] \/ s[j] < s[i])
    BY <2>1 DEF Increasing
  <2>3. QED BY <2>2
<1>2. f \in Bijection(1..k, T)
  BY <1>1 DEF Bijection, Injection, Surjection, IsInjective
<1>3. ExistsBijection(1..k, T)
  BY <1>2 DEF ExistsBijection
<1>4. IsFiniteSet(1..k) /\ Cardinality(1..k) = k
  BY FS_Interval
<1>5. QED BY <1>3, <1>4, FS_Bijection

LEMMA Ascends ==
    ASSUME NEW n \in Nat, NEW s \in [1..n -> Int], Increasing(s),
           NEW S, S = {s[i] : i \in 1..n}
    PROVE  Ascending(S) = s
<1>1. Cardinality(S) = n
  BY FirstOnes
<1>2. ASSUME NEW k \in 1..n PROVE Cardinality({y \in S : y <= s[k]}) = k
  <2>1. {y \in S : y <= s[k]} = {s[i] : i \in 1..k}
    <3>1. \A i, j \in 1..n : s[i] \in Int /\ (i < j => s[i] < s[j])
      BY DEF Increasing
    <3>2. ASSUME NEW i \in 1..n
          PROVE  s[i] <= s[k] <=> i <= k
      <4>1. i < k \/ i = k \/ k < i
        OBVIOUS
      <4>2. QED BY <3>1, <4>1
    <3>3. ASSUME NEW y \in S, y <= s[k]
          PROVE  y \in {s[i] : i \in 1..k}
      <4>1. PICK i \in 1..n : y = s[i]
        OBVIOUS
      <4>2. i \in 1..k
        BY <3>2, <3>3, <4>1
      <4>3. QED BY <4>1, <4>2
    <3>4. ASSUME NEW i \in 1..k
          PROVE  s[i] \in S /\ s[i] <= s[k]
      BY <3>2
    <3>5. QED BY <3>3, <3>4
  <2>2. Cardinality({s[i] : i \in 1..k}) = k
    BY FirstOnes
  <2>3. QED BY <2>1, <2>2
<1>3. ASSUME NEW k \in 1..n
      PROVE  (CHOOSE x \in S : Cardinality({y \in S : y <= x}) = k) = s[k]
  <2>1. s[k] \in S /\ Cardinality({y \in S : y <= s[k]}) = k
    BY <1>2
  <2>2. ASSUME NEW x \in S, Cardinality({y \in S : y <= x}) = k PROVE x = s[k]
    <3>1. PICK j \in 1..n : x = s[j]
      OBVIOUS
    <3>2. QED BY <1>2, <2>2, <3>1
  <2>3. QED BY <2>1, <2>2
<1>4. QED BY <1>1, <1>3 DEF Ascending

\* The first n numbers.
LEMMA AscendingTo ==
    ASSUME NEW n \in Nat PROVE Ascending(1..n) = [i \in 1..n |-> i]
<1> DEFINE s == [i \in 1..n |-> i]
<1>1. s \in [1..n -> Int] /\ Increasing(s) /\ 1..n = {s[i] : i \in 1..n}
  BY DEF Increasing
<1>2. QED BY <1>1, Ascends

LEMMA MaxOf ==
    ASSUME NEW S \in SUBSET Int, NEW m \in S, \A x \in S : x <= m
    PROVE  Max(S) = m
<1>1. ASSUME NEW x \in S, \A y \in S : x >= y
      PROVE  x = m
  BY <1>1
<1>2. \A y \in S : m >= y
  OBVIOUS
<1>3. QED BY <1>1, <1>2 DEF Max

-----------------------------------------------------------------------------
(* The wire: piece p of a stream of events.                                *)

Piece(ws, p) == Frame(ws[(p - 1) \div 7 + 1])[((p - 1) % 7) + 1]

Pieces == {Frame(ev)[t] : ev \in Events, t \in 1..7}

\* The q events after the first n.
After(ws, n, q) == [k \in 1..q |-> ws[n + k]]

\* What the pieces of b are, when those before it were n frames.
Carries(b, ws, n) ==
    /\ 7 * n + Len(b) <= 7 * Len(ws)
    /\ \A i \in 1..Len(b) : b[i] = Piece(ws, 7 * n + i)

LEMMA PieceOfFrame ==
    ASSUME NEW ws, NEW n \in Nat, NEW t \in 1..7
    PROVE  Piece(ws, 7 * n + t) = Frame(ws[n + 1])[t]
<1>1. (7 * n + t - 1) \div 7 = n /\ (7 * n + t - 1) % 7 = t - 1
  OBVIOUS
<1>2. QED BY <1>1 DEF Piece

LEMMA FrameOfEvent ==
    ASSUME NEW ev
    PROVE  /\ DOMAIN Frame(ev) = 1..7 /\ Len(Frame(ev)) = 7
           /\ Frame(ev)[1] = <<"event", 1, ev>> /\ Frame(ev)[2] = <<"event", 2, ev>>
           /\ Frame(ev)[4] = <<"data", 1, ev>> /\ Frame(ev)[5] = <<"data", 2, ev>>
           /\ \A t \in 1..7 : Frame(ev)[t] = NL <=> t \in {3, 6, 7}
<1>1. /\ Frame(ev)[1] = <<"event", 1, ev>> /\ Frame(ev)[2] = <<"event", 2, ev>>
      /\ Frame(ev)[3] = NL
      /\ Frame(ev)[4] = <<"data", 1, ev>> /\ Frame(ev)[5] = <<"data", 2, ev>>
      /\ Frame(ev)[6] = NL /\ Frame(ev)[7] = NL
  BY DEF Frame
<1>2. DOMAIN Frame(ev) = 1..7 /\ Len(Frame(ev)) = 7
  BY DEF Frame
<1>3. NL # <<"event", 1, ev>> /\ NL # <<"event", 2, ev>>
  BY DEF NL
<1>4. NL # <<"data", 1, ev>> /\ NL # <<"data", 2, ev>>
  BY DEF NL
<1>5. \A t \in 1..7 : t \in {1, 2, 3, 4, 5, 6, 7}
  OBVIOUS
<1>6. QED BY <1>1, <1>2, <1>3, <1>4, <1>5

\* The two lines of a frame give its event back.
LEMMA FrameParsed ==
    ASSUME NEW ev \in Events, NEW f, Len(f) = 5,
           \A i \in 1..5 : f[i] = Frame(ev)[i]
    PROVE  ParseFrame(f) = {ev}
<1>1. /\ f[1] = <<"event", 1, ev>> /\ f[2] = <<"event", 2, ev>> /\ f[3] = NL
      /\ f[4] = <<"data", 1, ev>> /\ f[5] = <<"data", 2, ev>>
  <2>1. /\ f[1] = Frame(ev)[1] /\ f[2] = Frame(ev)[2] /\ f[3] = Frame(ev)[3]
        /\ f[4] = Frame(ev)[4] /\ f[5] = Frame(ev)[5]
    OBVIOUS
  <2>2. Frame(ev)[3] = NL
    BY DEF Frame
  <2>3. QED BY <2>1, <2>2, FrameOfEvent
<1>2. Whole(f, "event") = {ev}
  <2>1. ev \in Whole(f, "event")
    BY <1>1 DEF Whole
  <2>2. ASSUME NEW e \in Whole(f, "event")
        PROVE  e = ev
    <3>1. PICK i \in {1, 2, 3, 4} : f[i] = <<"event", 1, e>>
      BY DEF Whole
    <3>2. i = 1
      BY <1>1, <3>1 DEF NL
    <3>3. QED BY <1>1, <3>1, <3>2
  <2>3. QED BY <2>1, <2>2
<1>3. Whole(f, "data") = {ev}
  <2>1. ev \in Whole(f, "data")
    BY <1>1 DEF Whole
  <2>2. ASSUME NEW e \in Whole(f, "data")
        PROVE  e = ev
    <3>1. PICK i \in {1, 2, 3, 4} : f[i] = <<"data", 1, e>>
      BY DEF Whole
    <3>2. i = 4
      BY <1>1, <3>1 DEF NL
    <3>3. QED BY <1>1, <3>1, <3>2
  <2>3. QED BY <2>1, <2>2
<1>4. DataOf(f) = ev.data
  BY <1>3 DEF DataOf
<1>5. Event(ev.event, ev.data) = ev
  BY DEF Event, Events
<1>6. QED BY <1>2, <1>4, <1>5 DEF ParseFrame

\* Where newlines are on the wire, and so where parseSSE finds the ends.
LEMMA EndsOfFrames ==
    ASSUME NEW b, NEW ws, NEW n \in Nat, NEW q \in Nat,
           Len(b) \in (7 * q)..(7 * q + 6), Carries(b, ws, n)
    PROVE  FrameEnds(b) = {7 * k : k \in 1..q}
<1> DEFINE Texts(i) == {0} \cup {j \in 1..i : b[j] # NL}
<1>1. ASSUME NEW i \in 1..Len(b), NEW j \in Nat, NEW t \in 1..7, i = 7 * j + t
      PROVE  b[i] = NL <=> t \in {3, 6, 7}
  <2>1. b[i] = Piece(ws, 7 * (n + j) + t)
    BY <1>1 DEF Carries
  <2>2. PICK m \in Nat : m = n + j
    OBVIOUS
  <2>3. b[i] = Frame(ws[m + 1])[t]
    BY <2>1, <2>2, PieceOfFrame
  <2>4. QED BY <2>3, FrameOfEvent
<1>2. ASSUME NEW i \in 1..Len(b), NEW j \in Nat, NEW t \in 1..7, i = 7 * j + t
      PROVE  i \in FrameEnds(b) <=> t = 7
  <2>1. Texts(i) \in SUBSET Int
    OBVIOUS
  <2>2. CASE t \notin {3, 6, 7}
    <3>1. i \in Texts(i) /\ \A x \in Texts(i) : x <= i
      BY <1>1, <1>2, <2>2
    <3>2. Max(Texts(i)) = i
      BY <2>1, <3>1, MaxOf
    <3>3. QED BY <2>2, <3>2 DEF FrameEnds, NewlinesTo
  <2>3. CASE t \in {3, 6}
    <3>1. b[i] = NL /\ b[i - 1] # NL
      <4>1. b[i] = NL
        BY <1>1, <1>2, <2>3
      <4>2. i - 1 \in 1..Len(b) /\ t - 1 \in 1..7 /\ i - 1 = 7 * j + (t - 1)
        BY <1>2, <2>3
      <4>3. b[i - 1] = NL <=> t - 1 \in {3, 6, 7}
        BY <4>2, <1>1
      <4>4. QED BY <2>3, <4>1, <4>3
    <3>2. i - 1 \in Texts(i) /\ \A x \in Texts(i) : x <= i - 1
      BY <1>2, <2>3, <3>1
    <3>3. Max(Texts(i)) = i - 1
      BY <2>1, <3>2, MaxOf
    <3>4. NewlinesTo(b, i) = 1
      BY <3>3 DEF NewlinesTo
    <3>5. QED BY <2>3, <3>4 DEF FrameEnds
  <2>4. CASE t = 7
    <3>1. b[i] = NL /\ b[i - 1] = NL /\ b[i - 2] # NL
      <4>1. b[i] = NL
        BY <1>1, <1>2, <2>4
      <4>2. i - 1 \in 1..Len(b) /\ 6 \in 1..7 /\ i - 1 = 7 * j + 6
        BY <1>2, <2>4
      <4>3. i - 2 \in 1..Len(b) /\ 5 \in 1..7 /\ i - 2 = 7 * j + 5
        BY <1>2, <2>4
      <4>4. b[i - 1] = NL
        BY <4>2, <1>1
      <4>5. b[i - 2] # NL
        BY <4>3, <1>1
      <4>6. QED BY <4>1, <4>4, <4>5
    <3>2. i - 2 \in Texts(i) /\ \A x \in Texts(i) : x <= i - 2
      BY <1>2, <2>4, <3>1
    <3>3. Max(Texts(i)) = i - 2
      BY <2>1, <3>2, MaxOf
    <3>4. NewlinesTo(b, i) = 2
      BY <3>3 DEF NewlinesTo
    <3>5. QED BY <2>4, <3>4 DEF FrameEnds
  <2>5. QED BY <2>2, <2>3, <2>4
<1>3. ASSUME NEW i \in FrameEnds(b)
      PROVE  i \in {7 * k : k \in 1..q}
  <2>1. i \in 1..Len(b)
    BY DEF FrameEnds
  <2>2. PICK j \in Nat, t \in 1..7 : i = 7 * j + t
    <3>1. (i - 1) \div 7 \in Nat /\ ((i - 1) % 7) + 1 \in 1..7
          /\ i = 7 * ((i - 1) \div 7) + (((i - 1) % 7) + 1)
      BY <2>1
    <3>2. QED BY <3>1
  <2>3. t = 7
    BY <1>2, <2>1, <2>2
  <2>4. j + 1 \in 1..q /\ i = 7 * (j + 1)
    BY <2>1, <2>2, <2>3
  <2>5. QED BY <2>4
<1>4. ASSUME NEW k \in 1..q
      PROVE  7 * k \in FrameEnds(b)
  <2>1. 7 * k \in 1..Len(b) /\ k - 1 \in Nat /\ 7 \in 1..7 /\ 7 * k = 7 * (k - 1) + 7
    OBVIOUS
  <2>2. QED BY <1>2, <2>1
<1>5. QED BY <1>3, <1>4

LEMMA Part ==
    ASSUME NEW P, NEW s \in Seq(P), NEW i \in 1..(Len(s) + 1), NEW j \in 0..Len(s), i <= j + 1
    PROVE  /\ SubSeq(s, i, j) \in Seq(P) /\ Len(SubSeq(s, i, j)) = j - i + 1
           /\ \A k \in 1..(j - i + 1) : SubSeq(s, i, j)[k] = s[i + k - 1]
BY SubSeqProperties

LEMMA Joined ==
    ASSUME NEW P, NEW s \in Seq(P), NEW t \in Seq(P)
    PROVE  /\ s \o t \in Seq(P) /\ Len(s \o t) = Len(s) + Len(t)
           /\ \A i \in 1..Len(s) : (s \o t)[i] = s[i]
           /\ \A i \in 1..Len(t) : (s \o t)[Len(s) + i] = t[i]
BY ConcatProperties

\* What parseSSE finds in q whole frames and the pieces of one that is not,
\* wherever in the stream they stand: the events of the q, in order, and those
\* pieces (api.ts:199).
THEOREM Parsed ==
    ASSUME NEW ws \in Seq(Events), NEW n \in Nat, NEW q \in Nat,
           NEW b \in Seq(Pieces), Len(b) \in (7 * q)..(7 * q + 6), Carries(b, ws, n)
    PROVE  /\ ParseSSE(b).events = After(ws, n, q)
           /\ ParseSSE(b).rest = SubSeq(b, 7 * q + 1, Len(b))
<1> DEFINE ends == [k \in 1..q |-> 7 * k]
           Kept == {k \in DOMAIN ends : ParseFrame(FrameOf(b, ends, k)) # {}}
<1>1. Ascending(FrameEnds(b)) = ends
  <2>1. ends \in [1..q -> Int] /\ Increasing(ends)
    BY DEF Increasing
  <2>2. FrameEnds(b) = {7 * k : k \in 1..q}
    BY EndsOfFrames
  <2>3. FrameEnds(b) = {ends[i] : i \in 1..q}
    BY <2>2
  <2>4. QED BY <2>1, <2>3, Ascends
<1>2. ASSUME NEW k \in 1..q
      PROVE  ParseFrame(FrameOf(b, ends, k)) = {ws[n + k]}
  <2>1. ws[n + k] \in Events
    BY DEF Carries
  <2>2. NextFrom(ends, k - 1) = 7 * (k - 1) + 1
    BY DEF NextFrom
  <2>3. FrameOf(b, ends, k) = SubSeq(b, 7 * (k - 1) + 1, 7 * k - 2)
    BY <2>2 DEF FrameOf
  <2>4. /\ Len(FrameOf(b, ends, k)) = 5
        /\ \A i \in 1..5 : FrameOf(b, ends, k)[i] = b[7 * (k - 1) + i]
    <3>1. PICK x \in 1..(Len(b) + 1), y \in 0..Len(b) : x = 7 * (k - 1) + 1 /\ y = 7 * k - 2
      OBVIOUS
    <3>2. /\ Len(SubSeq(b, x, y)) = y - x + 1
          /\ \A i \in 1..(y - x + 1) : SubSeq(b, x, y)[i] = b[x + i - 1]
      BY <3>1, Part
    <3>3. FrameOf(b, ends, k) = SubSeq(b, x, y)
      BY <2>3, <3>1
    <3> HIDE DEF ends
    <3>4. y - x + 1 = 5 /\ \A i \in 1..5 : x + i - 1 = 7 * (k - 1) + i
      BY <3>1
    <3>5. QED BY <3>2, <3>3, <3>4
  <2>5. ASSUME NEW i \in 1..5
        PROVE  FrameOf(b, ends, k)[i] = Frame(ws[n + k])[i]
    <3>1. FrameOf(b, ends, k)[i] = b[7 * (k - 1) + i]
      BY <2>4
    <3>2. PICK m \in Nat : m = n + k - 1
      OBVIOUS
    <3>3. b[7 * (k - 1) + i] = Piece(ws, 7 * m + i)
      BY <3>2 DEF Carries
    <3>4. Piece(ws, 7 * m + i) = Frame(ws[m + 1])[i]
      <4>1. i \in 1..7
        OBVIOUS
      <4>2. QED BY <4>1, PieceOfFrame
    <3>5. QED BY <3>1, <3>2, <3>3, <3>4
  <2>6. QED BY <2>1, <2>4, <2>5, FrameParsed
<1>3. Ascending(Kept) = [k \in 1..q |-> k]
  <2>1. Kept = 1..q
    BY <1>2
  <2>2. QED BY <2>1, AscendingTo
<1>4. [k \in 1..q |-> CHOOSE ev \in ParseFrame(FrameOf(b, ends, k)) : TRUE]
        = [k \in 1..q |-> ws[n + k]]
  <2>1. ASSUME NEW k \in 1..q
        PROVE  (CHOOSE ev \in ParseFrame(FrameOf(b, ends, k)) : TRUE) = ws[n + k]
    <3>1. ParseFrame(FrameOf(b, ends, k)) = {ws[n + k]}
      BY <1>2
    <3>2. QED BY <3>1
  <2>2. QED BY <2>1
<1>5. NextFrom(ends, Len(ends)) = 7 * q + 1
  BY DEF NextFrom
<1> DEFINE Names(e) == Ascending({k \in DOMAIN e : ParseFrame(FrameOf(b, e, k)) # {}})
           Out(e) == [events |-> [k \in DOMAIN Names(e) |->
                          CHOOSE ev \in ParseFrame(FrameOf(b, e, Names(e)[k])) : TRUE],
                      rest   |-> SubSeq(b, NextFrom(e, Len(e)), Len(b))]
<1> HIDE DEF ends
<1>6. Names(ends) = [k \in 1..q |-> k]
  BY <1>3
<1>7. ParseSSE(b) = Out(ends)
  <2>1. ParseSSE(b) = Out(Ascending(FrameEnds(b)))
    BY DEF ParseSSE
  <2> HIDE DEF Out
  <2>2. QED BY <1>1, <2>1
<1> HIDE DEF Names
<1>8. Out(ends).events = [k \in 1..q |->
                            CHOOSE ev \in ParseFrame(FrameOf(b, ends, k)) : TRUE]
  BY <1>6
<1>9. Out(ends).rest = SubSeq(b, NextFrom(ends, Len(ends)), Len(b))
  OBVIOUS
<1> HIDE DEF Out
<1>10. QED BY <1>4, <1>5, <1>7, <1>8, <1>9 DEF After

-----------------------------------------------------------------------------
(* The inductive invariant.                                                *)

\* The wire goes on where the buffer, a part of one frame, leaves off.
WireInv ==
    /\ written \in Seq(Events) /\ arrived \in Nat
    /\ wire \in Seq(Pieces) /\ buffer \in Seq(Pieces)
    /\ arrived + Len(wire) <= 7 * Len(written)
    /\ call # "broken" => arrived + Len(wire) = 7 * Len(written)
    /\ Len(buffer) = arrived % 7
    /\ Carries(buffer, written, arrived \div 7)
    /\ \A i \in 1..Len(wire) : wire[i] = Piece(written, arrived + i)
    /\ handled = SubSeq(written, 1, arrived \div 7)

LEMMA OldPieces ==
    ASSUME NEW ws \in Seq(Events), NEW ev \in Events, NEW p \in 1..(7 * Len(ws))
    PROVE  Piece(Append(ws, ev), p) = Piece(ws, p)
<1>1. (p - 1) \div 7 + 1 \in 1..Len(ws)
  OBVIOUS
<1>2. PICK k \in 1..Len(ws) : k = (p - 1) \div 7 + 1
  BY <1>1
<1>3. Append(ws, ev)[k] = ws[k]
  OBVIOUS
<1>4. QED BY <1>2, <1>3 DEF Piece

LEMMA NewPieces ==
    ASSUME NEW ws \in Seq(Events), NEW ev \in Events, NEW t \in 1..7
    PROVE  Piece(Append(ws, ev), 7 * Len(ws) + t) = Frame(ev)[t]
<1>1. Append(ws, ev)[Len(ws) + 1] = ev
  OBVIOUS
<1>2. PICK n \in Nat : n = Len(ws)
  OBVIOUS
<1>3. Piece(Append(ws, ev), 7 * n + t) = Frame(Append(ws, ev)[n + 1])[t]
  BY PieceOfFrame
<1>4. QED BY <1>1, <1>2, <1>3

LEMMA FrameTyped ==
    ASSUME NEW ev \in Events
    PROVE  Frame(ev) \in Seq(Pieces)
<1>1. Frame(ev) = [t \in 1..7 |-> Frame(ev)[t]]
  BY DEF Frame
<1>2. \A t \in 1..7 : Frame(ev)[t] \in Pieces
  BY DEF Pieces
<1>3. QED BY <1>1, <1>2

LEMMA WireTyped ==
    WireInv => handled \in Seq(Events) /\ arrived \div 7 \in 0..Len(written)
<1> SUFFICES ASSUME WireInv
             PROVE  handled \in Seq(Events) /\ arrived \div 7 \in 0..Len(written)
  OBVIOUS
<1>1. PICK h \in 0..Len(written) : h = arrived \div 7
  BY DEF WireInv
<1>2. SubSeq(written, 1, h) \in Seq(Events)
  BY Part DEF WireInv
<1>3. QED BY <1>1, <1>2 DEF WireInv

\* writeSSE adds a frame to what is on the wire, and changes nothing behind it.
LEMMA WriteWired ==
    ASSUME WireInv, NEW ev \in Events, Write(ev),
           UNCHANGED <<buffer, call, arrived, handled>>
    PROVE  WireInv'
<1>1. /\ written' = Append(written, ev) /\ written' \in Seq(Events)
      /\ Len(written') = Len(written) + 1
  BY DEF Write, WireInv
<1>2. \A p \in 1..(7 * Len(written)) : Piece(written', p) = Piece(written, p)
  BY <1>1, OldPieces DEF WireInv
<1>3. Carries(buffer, written', arrived \div 7)
  <2>1. \A i \in 1..Len(buffer) : 7 * (arrived \div 7) + i \in 1..(7 * Len(written))
    BY DEF Carries, WireInv
  <2>2. 7 * (arrived \div 7) + Len(buffer) <= 7 * Len(written')
    BY <1>1 DEF Carries, WireInv
  <2>3. QED BY <1>2, <2>1, <2>2 DEF Carries, WireInv
<1>4. handled = SubSeq(written', 1, arrived \div 7)
  <2>1. PICK h \in 0..Len(written) : h = arrived \div 7
    BY WireTyped
  <2>2. SubSeq(written', 1, h) = SubSeq(written, 1, h)
    BY <1>1 DEF WireInv
  <2>3. QED BY <2>1, <2>2 DEF WireInv
<1>5. \A i \in 1..Len(wire) : wire[i] = Piece(written', arrived + i)
  <2>1. \A i \in 1..Len(wire) : arrived + i \in 1..(7 * Len(written))
    BY DEF WireInv
  <2>2. QED BY <1>2, <2>1 DEF WireInv
<1>6. CASE call = "broken"
  BY <1>1, <1>3, <1>4, <1>5, <1>6 DEF Write, WireInv
<1>7. CASE call # "broken"
  <2>1. /\ wire' = wire \o Frame(ev) /\ arrived + Len(wire) = 7 * Len(written)
        /\ arrived' = arrived
    BY <1>7 DEF Write, WireInv
  <2>2. PICK l \in Nat, n \in Nat : l = Len(wire) /\ n = Len(written)
    BY DEF WireInv
  <2>3. /\ wire' \in Seq(Pieces) /\ Len(wire') = l + 7
        /\ \A i \in 1..l : wire'[i] = wire[i]
        /\ \A t \in 1..7 : wire'[l + t] = Frame(ev)[t]
    <3>1. wire \in Seq(Pieces) /\ Frame(ev) \in Seq(Pieces) /\ Len(Frame(ev)) = 7
      BY FrameTyped, FrameOfEvent DEF WireInv
    <3>2. PICK f \in Seq(Pieces) : f = Frame(ev)
      BY <3>1
    <3>3. /\ wire \o f \in Seq(Pieces) /\ Len(wire \o f) = Len(wire) + Len(f)
          /\ \A i \in 1..Len(wire) : (wire \o f)[i] = wire[i]
          /\ \A t \in 1..Len(f) : (wire \o f)[Len(wire) + t] = f[t]
      BY <3>1, Joined
    <3>4. QED BY <2>1, <2>2, <3>1, <3>2, <3>3
  <2>4. arrived \in Nat /\ arrived + l = 7 * n
    BY <2>1, <2>2 DEF WireInv
  <2>5. ASSUME NEW i \in 1..(l + 7)
        PROVE  wire'[i] = Piece(written', arrived + i)
    <3>1. CASE i \in 1..l
      BY <1>5, <2>2, <2>3, <3>1
    <3>2. CASE i \notin 1..l
      <4>1. PICK t \in 1..7 : i = l + t
        <5>1. i - l \in 1..7
          BY <3>2
        <5>2. QED BY <5>1
      <4>2. Piece(written', 7 * n + t) = Frame(ev)[t]
        BY <1>1, <2>2, NewPieces DEF WireInv
      <4>3. arrived + i = 7 * n + t
        BY <2>4, <4>1
      <4>4. QED BY <2>3, <4>1, <4>2, <4>3
    <3>3. QED BY <3>1, <3>2
  <2>6. arrived' + Len(wire') = 7 * Len(written')
    <3>1. Len(written') = n + 1
      BY <1>1, <2>2
    <3>2. Len(wire') = l + 7
      BY <2>3
    <3>3. arrived' = arrived
      BY <2>1
    <3>4. arrived + (l + 7) = 7 * (n + 1)
      BY <2>4
    <3>5. QED BY <3>1, <3>2, <3>3, <3>4
  <2>7. \A i \in 1..Len(wire') : wire'[i] = Piece(written', arrived' + i)
    BY <2>1, <2>3, <2>5
  <2>8. QED
    <3>1. arrived' + Len(wire') <= 7 * Len(written')
      BY <1>1, <2>3, <2>4, <2>6
    <3>2. /\ buffer' = buffer /\ arrived' = arrived /\ handled' = handled
          /\ Len(buffer) = arrived % 7 /\ buffer \in Seq(Pieces) /\ arrived \in Nat
      BY DEF WireInv
    <3>3. /\ 7 * (arrived' \div 7) + Len(buffer') <= 7 * Len(written')
          /\ \A i \in 1..Len(buffer') : buffer'[i] = Piece(written', 7 * (arrived' \div 7) + i)
      BY <1>3, <3>2 DEF Carries
    <3>4. QED BY <1>1, <1>4, <2>3, <2>6, <2>7, <3>1, <3>2, <3>3 DEF WireInv, Carries
<1>8. QED BY <1>6, <1>7

LEMMA SilentWired ==
    ASSUME WireInv, Silent, UNCHANGED <<buffer, call, arrived, handled>>
    PROVE  WireInv'
BY DEF Silent, WireInv, Carries

\* A chunk of any size: the whole frames in the buffer are handled, and what is
\* left is the beginning of the next.
LEMMA ReceiveWired ==
    ASSUME WireInv, NEW n \in 1..MaxWire, Receive(n)
    PROVE  WireInv'
<1> DEFINE chunk == SubSeq(wire, 1, n)
           b == buffer \o chunk
<1>1. PICK a \in Nat, l \in Nat, w \in Nat :
          a = arrived /\ l = Len(wire) /\ w = Len(written)
  <2>1. arrived \in Nat /\ Len(wire) \in Nat /\ Len(written) \in Nat
    BY LenProperties DEF WireInv
  <2>2. QED BY <2>1
<1>2. PICK h \in Nat, s \in 0..6 : h = a \div 7 /\ s = a % 7 /\ a = 7 * h + s
  OBVIOUS
<1>3. n \in 1..l /\ n \in Nat /\ a + l <= 7 * w
  BY <1>1 DEF Receive, WireInv, MaxWire, FrameSize
<1>4. PICK q \in Nat, r \in 0..6 : s + n = 7 * q + r
  <2>1. (s + n) \div 7 \in Nat /\ (s + n) % 7 \in 0..6
        /\ s + n = 7 * ((s + n) \div 7) + ((s + n) % 7)
    BY <1>3
  <2>2. QED BY <2>1
<1>5. /\ chunk \in Seq(Pieces) /\ Len(chunk) = n
      /\ \A i \in 1..n : chunk[i] = Piece(written, a + i)
  <2>1. /\ chunk \in Seq(Pieces) /\ Len(chunk) = n
        /\ \A i \in 1..n : chunk[i] = wire[i]
    <3>1. 1 \in 1..(Len(wire) + 1) /\ n \in 0..Len(wire) /\ 1 <= n + 1 /\ n - 1 + 1 = n
      BY <1>1, <1>3
    <3>2. /\ chunk \in Seq(Pieces) /\ Len(chunk) = n - 1 + 1
          /\ \A i \in 1..(n - 1 + 1) : chunk[i] = wire[1 + i - 1]
      BY <3>1, Part DEF WireInv
    <3>3. \A i \in 1..n : 1 + i - 1 = i
      OBVIOUS
    <3>4. QED BY <3>1, <3>2, <3>3
  <2>2. \A i \in 1..n : wire[i] = Piece(written, a + i)
    BY <1>1, <1>3 DEF WireInv
  <2>3. QED BY <2>1, <2>2
<1>6. /\ b \in Seq(Pieces) /\ Len(b) = 7 * q + r
      /\ \A i \in 1..s : b[i] = buffer[i]
      /\ \A i \in 1..n : b[s + i] = chunk[i]
  <2>1. PICK c \in Seq(Pieces) : c = chunk
    BY <1>5
  <2>2. buffer \in Seq(Pieces) /\ Len(buffer) = s
    BY <1>1, <1>2 DEF WireInv
  <2>3. /\ buffer \o c \in Seq(Pieces) /\ Len(buffer \o c) = Len(buffer) + Len(c)
        /\ \A i \in 1..Len(buffer) : (buffer \o c)[i] = buffer[i]
        /\ \A i \in 1..Len(c) : (buffer \o c)[Len(buffer) + i] = c[i]
    BY <2>2, Joined
  <2>4. QED BY <1>4, <1>5, <2>1, <2>2, <2>3
<1>7. Carries(b, written, h)
  <2>1. 7 * h + Len(b) <= 7 * w
    BY <1>2, <1>3, <1>4, <1>6
  <2>2. ASSUME NEW i \in 1..Len(b)
        PROVE  b[i] = Piece(written, 7 * h + i)
    <3>1. CASE i \in 1..s
      <4>1. buffer[i] = Piece(written, 7 * h + i)
        BY <1>1, <1>2, <3>1 DEF WireInv, Carries
      <4>2. QED BY <1>6, <3>1, <4>1
    <3>2. CASE i \notin 1..s
      <4>1. PICK j \in 1..n : i = s + j
        <5>1. i - s \in 1..n
          BY <1>4, <1>6, <3>2
        <5>2. QED BY <5>1
      <4>2. a + j = 7 * h + i
        BY <1>2, <4>1
      <4>3. QED BY <1>5, <1>6, <4>1, <4>2
    <3>3. QED BY <3>1, <3>2
  <2>3. QED BY <1>1, <2>1, <2>2 DEF Carries
<1> HIDE DEF b, chunk
<1>8. /\ ParseSSE(b).events = [k \in 1..q |-> written[h + k]]
      /\ ParseSSE(b).rest = SubSeq(b, 7 * q + 1, Len(b))
  <2>1. written \in Seq(Events)
    BY DEF WireInv
  <2>2. PICK c \in Seq(Pieces) : c = b
    BY <1>6
  <2>3. Len(c) \in (7 * q)..(7 * q + 6) /\ Carries(c, written, h)
    BY <1>6, <1>7, <2>2
  <2>4. /\ ParseSSE(c).events = After(written, h, q)
        /\ ParseSSE(c).rest = SubSeq(c, 7 * q + 1, Len(c))
    BY <2>1, <2>3, Parsed
  <2>5. QED BY <2>2, <2>4 DEF After
<1>9. /\ wire' = SubSeq(wire, n + 1, l) /\ arrived' = a + n
      /\ handled' = handled \o ParseSSE(b).events /\ buffer' = ParseSSE(b).rest
      /\ written' = written /\ call' = call
  BY <1>1 DEF Receive, b, chunk
<1>10. /\ (a + n) \div 7 = h + q /\ (a + n) % 7 = r /\ a + n = 7 * (h + q) + r
       /\ a + n <= 7 * w
  <2>1. a + n = 7 * (h + q) + r /\ h + q \in Nat /\ a + n <= 7 * w
    BY <1>2, <1>3, <1>4
  <2>2. QED BY <2>1
<1>11. /\ buffer' \in Seq(Pieces) /\ Len(buffer') = r
       /\ \A i \in 1..r : buffer'[i] = Piece(written, 7 * (h + q) + i)
  <2>1. 7 * q + 1 \in 1..(Len(b) + 1) /\ Len(b) \in 0..Len(b) /\ 7 * q + 1 <= Len(b) + 1
    BY <1>6
  <2>2. PICK x \in 1..(Len(b) + 1), y \in 0..Len(b) : x = 7 * q + 1 /\ y = Len(b)
    BY <2>1
  <2>3. /\ SubSeq(b, x, y) \in Seq(Pieces) /\ Len(SubSeq(b, x, y)) = y - x + 1
        /\ \A k \in 1..(y - x + 1) : SubSeq(b, x, y)[k] = b[x + k - 1]
    BY <1>6, <2>1, <2>2, Part
  <2>4. y - x + 1 = r /\ \A i \in 1..r : x + i - 1 = 7 * q + i /\ 7 * q + i \in 1..Len(b)
    BY <1>6, <2>2
  <2>5. ASSUME NEW i \in 1..r
        PROVE  b[7 * q + i] = Piece(written, 7 * (h + q) + i)
    <3>1. b[7 * q + i] = Piece(written, 7 * h + (7 * q + i))
      BY <1>7, <2>4 DEF Carries
    <3>2. 7 * h + (7 * q + i) = 7 * (h + q) + i
      OBVIOUS
    <3>3. QED BY <3>1, <3>2
  <2>6. buffer' = SubSeq(b, x, y)
    BY <1>8, <1>9, <2>2
  <2>7. QED BY <2>3, <2>4, <2>5, <2>6
<1>12. /\ wire' \in Seq(Pieces) /\ Len(wire') = l - n
       /\ \A i \in 1..(l - n) : wire'[i] = Piece(written, (a + n) + i)
  <2>1. PICK x \in 1..(l + 1), y \in 0..l : x = n + 1 /\ y = l
    BY <1>3
  <2>2. /\ SubSeq(wire, x, y) \in Seq(Pieces) /\ Len(SubSeq(wire, x, y)) = y - x + 1
        /\ \A k \in 1..(y - x + 1) : SubSeq(wire, x, y)[k] = wire[x + k - 1]
    BY <1>1, <1>3, <2>1, Part DEF WireInv
  <2>3. y - x + 1 = l - n /\ \A i \in 1..(l - n) : x + i - 1 = n + i /\ n + i \in 1..l
    BY <1>3, <2>1
  <2>4. ASSUME NEW i \in 1..(l - n)
        PROVE  wire[n + i] = Piece(written, (a + n) + i)
    <3>1. wire[n + i] = Piece(written, a + (n + i))
      BY <1>1, <2>3 DEF WireInv
    <3>2. a + (n + i) = (a + n) + i
      OBVIOUS
    <3>3. QED BY <3>1, <3>2
  <2>5. wire' = SubSeq(wire, x, y)
    BY <1>9, <2>1
  <2>6. QED BY <2>2, <2>3, <2>4, <2>5
<1>13. handled' = SubSeq(written, 1, h + q)
  <2>1. h + q \in 0..Len(written) /\ h \in 0..Len(written) /\ h + q \in Nat
    BY <1>1, <1>2, <1>3, <1>10
  <2>2. handled = SubSeq(written, 1, h)
    BY <1>1, <1>2 DEF WireInv
  <2>3. SubSeq(written, 1, h + q) = SubSeq(written, 1, h) \o [k \in 1..q |-> written[h + k]]
    BY <2>1 DEF WireInv
  <2>4. QED BY <1>8, <1>9, <2>2, <2>3
<1>14. (call' # "broken") => (a + n) + (l - n) = 7 * w
  <2>1. call # "broken" => a + l = 7 * w
    BY <1>1 DEF WireInv
  <2>2. a + l = (a + n) + (l - n)
    BY <1>3
  <2>3. QED BY <1>9, <2>1, <2>2
<1>15. QED
  <2>1. Carries(buffer', written, h + q)
    BY <1>1, <1>10, <1>11 DEF Carries
  <2>2. (a + n) + (l - n) <= 7 * w /\ a + n \in Nat
    BY <1>3
  <2>3. /\ written' = written /\ Len(written') = w /\ written \in Seq(Events)
        /\ arrived' = a + n /\ arrived' \div 7 = h + q /\ arrived' % 7 = r
    BY <1>1, <1>9, <1>10 DEF WireInv
  <2>4. QED
    BY <1>11, <1>12, <1>13, <1>14, <2>1, <2>2, <2>3 DEF WireInv, Carries

LEMMA FinishWired ==
    ASSUME WireInv, Finish \/ Break \/ UNCHANGED vars
    PROVE  WireInv'
<1>1. CASE Finish
  BY <1>1 DEF Finish, WireInv, Carries
<1>2. CASE Break
  BY <1>2 DEF Break, WireInv, Carries
<1>3. CASE UNCHANGED vars
  BY <1>3 DEF vars, client, WireInv, Carries
<1>4. QED BY <1>1, <1>2, <1>3

-----------------------------------------------------------------------------
(* The handler.                                                            *)

\* What Send keeps of the lines read so far, the texts in order and the last
\* count; a marker is the last line read; and what is stored and charged by then.
SaidInv ==
    /\ \A k \in 1..line : EndsAt(k) => k = line /\ at # "stream"
    /\ Increasing(reply)
    /\ {reply[i] : i \in 1..Len(reply)} = {k \in 1..line : HasText(k)}
    /\ usage \in {0} \cup {k \in 1..line : HasUsage(k)}
    /\ \A k \in 1..line : HasUsage(k) => k <= usage
    /\ at \in {"stream", "save"} => stored = {}
    /\ at \in {"stream", "save", "charge"} => charged = {}
    /\ at \in {"charge", "done", "title"} => stored = {reply}

\* What Send has written: the texts of its reply, then how it ended.
WrittenInv ==
    LET n == Len(reply)
    IN  /\ n <= Len(written)
        /\ \A i \in 1..n : written[i] = Event("delta", reply[i])
        /\ at \in {"stream", "save", "charge", "done"} => Len(written) = n
        /\ at = "title" => Len(written) = n + 1 /\ written[n + 1] = Event("done", 0)
        /\ at = "ended" =>
               \/ Len(written) = n + 1 /\ written[n + 1] = Event("error", 0)
               \/ /\ Len(written) = n + 1 /\ written[n + 1] = Event("done", 0)
                  /\ stored = {reply}
               \/ /\ Len(written) = n + 2 /\ written[n + 1] = Event("done", 0)
                  /\ written[n + 2] = Event("title", 0) /\ stored = {reply}
        /\ call = "returned" => at = "ended" /\ arrived = 7 * Len(written)

IInv == TypeOK /\ WireInv /\ SaidInv /\ WrittenInv

LEMMA EventFields ==
    ASSUME NEW p, NEW k
    PROVE  Event(p, k).event = p /\ Event(p, k).data = k
BY DEF Event

LEMMA BodyTyped ==
    body \in Bodies => /\ Len(body) \in 0..MaxLines
                       /\ \A k \in 1..Len(body) : body[k] \in Lines
<1> SUFFICES ASSUME body \in Bodies
             PROVE  /\ Len(body) \in 0..MaxLines
                    /\ \A k \in 1..Len(body) : body[k] \in Lines
  OBVIOUS
<1>1. PICK n \in 0..MaxLines : body \in [1..n -> Lines]
  BY DEF Bodies
<1>2. Len(body) = n
  BY <1>1
<1>3. QED BY <1>1, <1>2

LEMMA InitHolds == Init => IInv
<1> SUFFICES ASSUME Init PROVE IInv
  OBVIOUS
<1>1. Len(body) \in Nat
  BY BodyTyped, StreamAssumption DEF Init, StreamAssumption
<1>2. TypeOK
  BY <1>1, StreamAssumption DEF Init, TypeOK, StreamAssumption, FrameSize
<1>3. WireInv
  <2>1. 0 \div 7 = 0 /\ 0 % 7 = 0
    OBVIOUS
  <2>2. SubSeq(written, 1, 0) = <<>>
    BY SubSeqEmpty
  <2>3. QED BY <2>1, <2>2 DEF Init, WireInv, Carries
<1>4. SaidInv
  <2>1. 1..line = {} /\ reply = <<>>
    BY DEF Init
  <2>2. {reply[i] : i \in 1..Len(reply)} = {} /\ {k \in 1..line : HasText(k)} = {}
    BY <2>1
  <2>3. QED BY <2>1, <2>2 DEF Init, SaidInv, Increasing
<1>5. WrittenInv
  BY DEF Init, WrittenInv
<1>6. QED BY <1>2, <1>3, <1>4, <1>5 DEF IInv

\* What ReadLine leaves of the invariants when the line has no text, and when it has.
LEMMA ReadLineSaid ==
    ASSUME IInv, ReadLine
    PROVE  SaidInv'
<1> DEFINE k == line + 1
<1>1. /\ at = "stream" /\ line \in Nat /\ k \in 1..Len(body) /\ line' = k
      /\ body' = body /\ usage' = UsageAfter(k) /\ usage \in Nat
      /\ stored' = {} /\ charged' = {}
      /\ at' = IF EndsAt(k) THEN "save" ELSE "stream"
      /\ 1..k = (1..line) \cup {k} /\ k \notin 1..line /\ k \in Nat
  <2>1. Len(body) \in Nat
    BY BodyTyped DEF IInv, TypeOK
  <2>2. QED BY <2>1 DEF ReadLine, upstream, Goto, IInv, TypeOK, SaidInv
<1>2. /\ \A j : HasText(j)' = HasText(j)
      /\ \A j : HasUsage(j)' = HasUsage(j)
      /\ \A j : EndsAt(j)' = EndsAt(j)
  BY <1>1 DEF HasText, HasUsage, EndsAt
<1>3. \A j \in 1..line : ~EndsAt(j)
  BY <1>1 DEF IInv, SaidInv
<1>4. (\A j \in 1..line : EndsAt(j) => j = line /\ at # "stream")'
  BY <1>1, <1>2, <1>3
<1>5. /\ (usage \in {0} \cup {j \in 1..line : HasUsage(j)})'
      /\ (\A j \in 1..line : HasUsage(j) => j <= usage)'
  <2>1. /\ usage \in {0} \cup {j \in 1..line : HasUsage(j)}
        /\ \A j \in 1..line : HasUsage(j) => j <= usage
    BY DEF IInv, SaidInv
  <2> HIDE DEF k
  <2>2. CASE HasUsage(k)
    <3>1. usage' = k
      BY <1>1, <2>2 DEF UsageAfter
    <3>2. \A j \in 1..line : j <= k
      BY <1>1 DEF k
    <3>3. QED BY <1>1, <1>2, <2>2, <3>1, <3>2
  <2>3. CASE ~HasUsage(k)
    <3>1. usage' = usage
      BY <1>1, <2>3 DEF UsageAfter
    <3>2. QED BY <1>1, <1>2, <2>1, <2>3, <3>1
  <2>4. QED BY <2>2, <2>3
<1>6. Increasing(reply)' /\ ({reply[i] : i \in 1..Len(reply)} = {j \in 1..line : HasText(j)})'
  <2>1. /\ reply \in Seq(1..MaxLines) /\ Increasing(reply)
        /\ {reply[i] : i \in 1..Len(reply)} = {j \in 1..line : HasText(j)}
    BY DEF IInv, SaidInv, TypeOK
  <2>2. {j \in 1..line : HasText(j)}'
          = {j \in 1..line : HasText(j)} \cup {j \in {k} : HasText(j)}
    BY <1>1, <1>2
  <2>3. CASE HasText(k)
    <3>1. PICK n \in Nat : n = Len(reply)
      BY <2>1
    <3>2. /\ reply' = Append(reply, k) /\ Len(reply') = n + 1 /\ DOMAIN reply' = 1..(n + 1)
          /\ reply'[n + 1] = k /\ \A i \in 1..n : reply'[i] = reply[i]
      BY <2>1, <2>3, <3>1 DEF ReadLine
    <3>3. \A i \in 1..n : reply[i] \in 1..line
      BY <2>1, <3>1
    <3>4. ASSUME NEW i \in 1..(n + 1), NEW j \in 1..(n + 1), i < j
          PROVE  reply'[i] < reply'[j]
      <4>1. CASE j = n + 1
        BY <1>1, <3>2, <3>3, <3>4, <4>1
      <4>2. CASE j \in 1..n
        BY <2>1, <3>1, <3>2, <3>4, <4>2 DEF Increasing
      <4>3. QED BY <4>1, <4>2
    <3>5. {reply'[i] : i \in 1..(n + 1)} = {reply[i] : i \in 1..n} \cup {k}
      <4>1. 1..(n + 1) = (1..n) \cup {n + 1}
        OBVIOUS
      <4>2. QED BY <3>2, <4>1
    <3>6. {j \in {k} : HasText(j)} = {k}
      BY <2>3
    <3>7. QED BY <2>1, <2>2, <3>1, <3>2, <3>4, <3>5, <3>6 DEF Increasing
  <2>4. CASE ~HasText(k)
    <3>1. reply' = reply
      BY <2>4 DEF ReadLine
    <3>2. {j \in {k} : HasText(j)} = {}
      BY <2>4
    <3>3. QED BY <2>1, <2>2, <3>1, <3>2 DEF Increasing
  <2>5. QED BY <2>3, <2>4
<1>7. QED BY <1>1, <1>4, <1>5, <1>6 DEF SaidInv

\* The part of TypeOK that follows from WireInv.
WireTypes ==
    /\ written \in Seq(Events) /\ handled \in Seq(Events)
    /\ arrived + Len(wire) <= FrameSize * Len(written)
    /\ Len(buffer) <= arrived

LEMMA WiredTyped == WireInv => WireTypes
<1> SUFFICES ASSUME WireInv PROVE WireTypes
  OBVIOUS
<1>1. arrived \in Nat /\ Len(buffer) = arrived % 7
  BY DEF WireInv
<1>2. arrived % 7 <= arrived
  BY <1>1
<1>3. QED BY <1>1, <1>2, WireTyped DEF WireTypes, WireInv, FrameSize

LEMMA ReadLineKeeps ==
    ASSUME IInv, ReadLine
    PROVE  IInv'
<1> DEFINE k == line + 1
<1>1. /\ at = "stream" /\ k \in 1..Len(body) /\ k \in 1..MaxLines /\ line' = k
      /\ body' = body /\ breaks' = breaks /\ first' = first
      /\ stored' = stored /\ charged' = charged /\ stored = {} /\ charged = {}
      /\ at' \in {"save", "stream"} /\ UNCHANGED <<buffer, call, arrived, handled>>
  <2>1. Len(body) \in 0..MaxLines
    BY BodyTyped DEF IInv, TypeOK
  <2>2. QED
    BY <2>1, StreamAssumption DEF ReadLine, upstream, client, Goto, IInv, TypeOK, SaidInv,
                                  StreamAssumption
<1>2. \/ /\ HasText(k) /\ reply' = Append(reply, k) /\ Write(Event("delta", k))
      \/ reply' = reply /\ Silent
  BY DEF ReadLine
<1>3. Event("delta", k) \in Events
  BY <1>1, StreamAssumption DEF Event, Events, StreamAssumption
<1>4. WireInv'
  BY <1>1, <1>2, <1>3, WriteWired, SilentWired DEF IInv
<1>5. TypeOK'
  <2>1. reply' \in Seq(1..MaxLines) /\ usage' \in 0..MaxLines
    <3>1. usage' = UsageAfter(k)
      BY DEF ReadLine
    <3>2. usage' \in 0..MaxLines
      BY <1>1, <3>1, StreamAssumption DEF UsageAfter, IInv, TypeOK, StreamAssumption
    <3>3. reply' \in Seq(1..MaxLines)
      <4>1. reply \in Seq(1..MaxLines) /\ k \in 1..MaxLines
        BY <1>1 DEF IInv, TypeOK
      <4>2. reply' = Append(reply, k) \/ reply' = reply
        BY <1>2
      <4>3. Append(reply, k) \in Seq(1..MaxLines)
        BY <4>1, AppendProperties
      <4>4. QED BY <4>1, <4>2, <4>3
    <3>4. QED BY <3>2, <3>3
  <2>2. WireTypes'
    BY <1>4, WiredTyped, PTL
  <2>3. line' \in 0..Len(body')
    BY <1>1 DEF IInv, TypeOK
  <2>4. QED BY <1>1, <2>1, <2>2, <2>3 DEF IInv, TypeOK, WireTypes
<1>6. WrittenInv'
  <2>1. /\ reply \in Seq(1..MaxLines) /\ written \in Seq(Events) /\ Len(written) = Len(reply)
        /\ \A i \in 1..Len(reply) : written[i] = Event("delta", reply[i])
        /\ call # "returned"
    BY <1>1 DEF IInv, TypeOK, WireInv, WrittenInv
  <2>2. PICK n \in Nat : n = Len(reply)
    BY <2>1
  <2>3. CASE reply' = Append(reply, k) /\ Write(Event("delta", k))
    <3>1. /\ Len(reply') = n + 1 /\ reply'[n + 1] = k
          /\ \A i \in 1..n : reply'[i] = reply[i]
      BY <2>1, <2>2, <2>3
    <3>2. /\ Len(written') = n + 1 /\ written'[n + 1] = Event("delta", k)
          /\ \A i \in 1..n : written'[i] = written[i]
      BY <2>1, <2>2, <2>3 DEF Write
    <3>3. \A i \in 1..(n + 1) : written'[i] = Event("delta", reply'[i])
      <4>1. \A i \in 1..(n + 1) : i \in 1..n \/ i = n + 1
        OBVIOUS
      <4>2. QED BY <2>1, <2>2, <3>1, <3>2, <4>1
    <3>4. QED BY <1>1, <2>1, <3>1, <3>2, <3>3 DEF WrittenInv
  <2>4. CASE reply' = reply /\ Silent
    BY <1>1, <2>1, <2>4 DEF WrittenInv, Silent
  <2>5. QED BY <1>2, <2>3, <2>4
<1>7. QED BY <1>4, <1>5, <1>6, ReadLineSaid DEF IInv

\* An event that says how the reply ended comes after its texts.
LEMMA Written ==
    ASSUME IInv, NEW p \in {"error", "done", "title"}, Write(Event(p, 0)), reply' = reply,
           UNCHANGED <<buffer, call, arrived, handled>>
    PROVE  /\ WireInv'
           /\ written' \in Seq(Events) /\ Len(written') = Len(written) + 1
           /\ \A i \in 1..Len(reply) : written'[i] = Event("delta", reply'[i])
           /\ \A i \in 1..Len(written) : written'[i] = written[i]
           /\ written'[Len(written) + 1] = Event(p, 0)
<1>1. Event(p, 0) \in Events
  BY StreamAssumption DEF Event, Events, StreamAssumption
<1>2. WireInv'
  BY <1>1, WriteWired DEF IInv
<1>3. written' = Append(written, Event(p, 0)) /\ written \in Seq(Events)
  BY DEF Write, IInv, WireInv
<1>4. /\ reply \in Seq(1..MaxLines) /\ Len(reply) <= Len(written)
      /\ \A i \in 1..Len(reply) : written[i] = Event("delta", reply[i])
  BY DEF IInv, WrittenInv, TypeOK
<1>5. QED BY <1>1, <1>2, <1>3, <1>4

\* The steps of Send after the stream.
LEMMA SendKeeps ==
    ASSUME IInv, StreamFails \/ StreamEnds \/ Save \/ Charge \/ Done \/ Title
    PROVE  IInv'
<1>1. /\ UNCHANGED <<body, breaks, first, line, reply, usage>>
      /\ UNCHANGED <<buffer, call, arrived, handled>> /\ at # "ended"
  <2>1. CASE StreamFails
    BY <2>1 DEF StreamFails, upstream, client
  <2>2. CASE StreamEnds
    BY <2>2 DEF StreamEnds, upstream, client
  <2>3. CASE Save
    BY <2>3 DEF Save, upstream, client
  <2>4. CASE Charge
    BY <2>4 DEF Charge, upstream, client
  <2>5. CASE Done
    BY <2>5 DEF Done, upstream, client
  <2>6. CASE Title
    BY <2>6 DEF Title, upstream, client
  <2>7. QED BY <2>1, <2>2, <2>3, <2>4, <2>5, <2>6
<1>2. \/ /\ at \in {"stream", "save"} /\ at' = "ended" /\ Write(Event("error", 0))
         /\ stored' = stored /\ charged' = charged
      \/ /\ at = "stream" /\ at' = "save" /\ Silent
         /\ stored' = stored /\ charged' = charged
      \/ /\ at = "save" /\ at' = "charge" /\ Silent
         /\ stored' = {reply} /\ charged' = charged
      \/ /\ at = "charge" /\ at' = "done" /\ Silent
         /\ stored' = stored /\ charged' \in {charged, {usage}}
      \/ /\ at = "done" /\ at' \in {"title", "ended"} /\ Write(Event("done", 0))
         /\ stored' = stored /\ charged' = charged
      \/ /\ at = "title" /\ at' = "ended" /\ Write(Event("title", 0))
         /\ stored' = stored /\ charged' = charged
  <2>1. CASE StreamFails
    BY <2>1 DEF StreamFails, Goto
  <2>2. CASE StreamEnds
    BY <2>2 DEF StreamEnds, Goto
  <2>3. CASE Save
    BY <2>3 DEF Save, Goto
  <2>4. CASE Charge
    BY <2>4 DEF Charge, Goto
  <2>5. CASE Done
    BY <2>5 DEF Done, Goto
  <2>6. CASE Title
    BY <2>6 DEF Title, Goto
  <2>7. QED BY <2>1, <2>2, <2>3, <2>4, <2>5, <2>6
<1>3. WireInv'
  BY <1>1, <1>2, Written, SilentWired DEF IInv
<1>4. /\ at' \in {"save", "charge", "done", "title", "ended"}
      /\ stored' \subseteq {reply} /\ charged' \subseteq {usage}
  BY <1>2 DEF IInv, TypeOK
<1>5. TypeOK'
  <2>1. WireTypes'
    BY <1>3, WiredTyped, PTL
  <2>2. QED BY <1>1, <1>4, <2>1 DEF IInv, TypeOK, WireTypes
<1>6. SaidInv'
  <2>1. \A j : HasText(j)' = HasText(j) /\ HasUsage(j)' = HasUsage(j) /\ EndsAt(j)' = EndsAt(j)
    BY <1>1 DEF HasText, HasUsage, EndsAt
  <2>2. /\ (\A j \in 1..line : EndsAt(j) => j = line /\ at # "stream")'
        /\ (at \in {"stream", "save"} => stored = {})'
        /\ (at \in {"stream", "save", "charge"} => charged = {})'
        /\ (at \in {"charge", "done", "title"} => stored = {reply})'
    BY <1>1, <1>2, <1>4, <2>1 DEF IInv, SaidInv
  <2>3. /\ Increasing(reply)'
        /\ ({reply[i] : i \in 1..Len(reply)} = {j \in 1..line : HasText(j)})'
    BY <1>1, <2>1 DEF IInv, SaidInv, Increasing
  <2>4. /\ (usage \in {0} \cup {j \in 1..line : HasUsage(j)})'
        /\ (\A j \in 1..line : HasUsage(j) => j <= usage)'
    BY <1>1, <2>1 DEF IInv, SaidInv
  <2>5. QED BY <2>2, <2>3, <2>4 DEF SaidInv
<1>7. WrittenInv'
  <2>1. /\ reply \in Seq(1..MaxLines) /\ written \in Seq(Events) /\ call # "returned"
        /\ \A i \in 1..Len(reply) : written[i] = Event("delta", reply[i])
        /\ Len(reply) <= Len(written)
    BY <1>1 DEF IInv, TypeOK, WireInv, WrittenInv
  <2>2. PICK n \in Nat : n = Len(reply)
    BY <2>1
  <2>3. CASE Silent
    <3>1. at' \in {"save", "charge", "done"} /\ at \in {"stream", "save", "charge"}
      BY <1>2, <2>3 DEF IInv, WireInv, Silent, Write
    <3>2. QED BY <1>1, <2>1, <2>3, <3>1 DEF IInv, WrittenInv, Silent
  <2>4. CASE at \in {"stream", "save"} /\ at' = "ended" /\ Write(Event("error", 0))
    BY <1>1, <2>1, <2>4, Written DEF IInv, WrittenInv
  <2>5. CASE /\ at = "done" /\ at' \in {"title", "ended"} /\ Write(Event("done", 0))
             /\ stored' = stored
    BY <1>1, <2>1, <2>5, Written DEF IInv, WrittenInv, SaidInv
  <2>6. CASE at = "title" /\ at' = "ended" /\ Write(Event("title", 0)) /\ stored' = stored
    BY <1>1, <2>1, <2>6, Written DEF IInv, WrittenInv, SaidInv
  <2>7. QED BY <1>2, <2>3, <2>4, <2>5, <2>6
<1>8. QED BY <1>3, <1>5, <1>6, <1>7 DEF IInv

\* The steps of the browser and of the network change nothing of the handler's.
LEMMA ClientKeeps ==
    ASSUME IInv,
           \/ \E n \in 1..MaxWire : Receive(n)
           \/ Finish \/ Break \/ UNCHANGED vars
    PROVE  IInv'
<1>1. /\ UNCHANGED <<body, breaks, first, at, line, reply, usage, stored, charged, written>>
      /\ \/ call = "open" /\ call' \in {"open", "broken"}
         \/ call = "open" /\ call' = "returned" /\ at = "ended" /\ wire = <<>> /\ arrived' = arrived
         \/ call' = call /\ arrived' = arrived
  <2>1. CASE \E n \in 1..MaxWire : Receive(n)
    BY <2>1 DEF Receive, upstream, handler
  <2>2. CASE Finish
    BY <2>2 DEF Finish, upstream, handler
  <2>3. CASE Break
    BY <2>3 DEF Break, upstream, handler
  <2>4. CASE UNCHANGED vars
    BY <2>4 DEF vars, upstream, handler, client
  <2>5. QED BY <2>1, <2>2, <2>3, <2>4
<1>2. WireInv'
  BY ReceiveWired, FinishWired DEF IInv
<1>3. TypeOK'
  <2>1. WireTypes'
    BY <1>2, WiredTyped, PTL
  <2>2. call' \in {"open", "returned", "broken"}
    BY <1>1 DEF IInv, TypeOK
  <2>3. QED BY <1>1, <2>1, <2>2 DEF IInv, TypeOK, WireTypes
<1>4. SaidInv'
  <2>1. \A j : HasText(j)' = HasText(j) /\ HasUsage(j)' = HasUsage(j) /\ EndsAt(j)' = EndsAt(j)
    BY <1>1 DEF HasText, HasUsage, EndsAt
  <2>2. QED BY <1>1, <2>1 DEF IInv, SaidInv, Increasing
<1>5. WrittenInv'
  <2>1. ASSUME call' = "returned"
        PROVE  at = "ended" /\ arrived' = 7 * Len(written)
    <3>1. CASE call = "open" /\ at = "ended" /\ wire = <<>> /\ arrived' = arrived
      BY <3>1 DEF IInv, WireInv
    <3>2. CASE call' = call /\ arrived' = arrived
      BY <2>1, <3>2 DEF IInv, WrittenInv
    <3>3. QED BY <1>1, <2>1, <3>1, <3>2
  <2>2. QED BY <1>1, <2>1 DEF IInv, WrittenInv
<1>6. QED BY <1>2, <1>3, <1>4, <1>5 DEF IInv

LEMMA Invariance == Spec => []IInv
<1>1. ASSUME IInv, [Next]_vars
      PROVE  IInv'
  <2>1. CASE ReadLine
    BY <1>1, <2>1, ReadLineKeeps
  <2>2. CASE StreamFails \/ StreamEnds \/ Save \/ Charge \/ Done \/ Title
    BY <1>1, <2>2, SendKeeps
  <2>3. CASE (\E n \in 1..MaxWire : Receive(n)) \/ Finish \/ Break \/ UNCHANGED vars
    BY <1>1, <2>3, ClientKeeps
  <2>4. QED BY <1>1, <2>1, <2>2, <2>3 DEF Next
<1>2. QED BY <1>1, InitHolds, PTL DEF Spec

-----------------------------------------------------------------------------
(* The theorems.                                                           *)

\* Every variable of the handler, the wire and the browser has its type, and no
\* more has arrived than was written.
THEOREM TypeCorrect == Spec => []TypeOK
<1>1. IInv => TypeOK
  BY DEF IInv
<1>2. QED BY <1>1, Invariance, PTL

\* For bodies of any length, and however the wire cuts the frames: parseSSE's
\* handlers see the events that have arrived whole, each once and in order
\* (api.ts:251-273).
THEOREM NothingLostOrTwice == Spec => []HandledAsWritten
<1>1. IInv => HandledAsWritten
  BY DEF IInv, WireInv, HandledAsWritten, FrameSize
<1>2. QED BY <1>1, Invariance, PTL

\* What counts are the lines before the marker.
LEMMA CountedLines ==
    IInv => /\ {k \in Counted : HasText(k)} = {k \in 1..line : HasText(k)}
            /\ {k \in Counted : HasUsage(k)} = {k \in 1..line : HasUsage(k)}
<1> SUFFICES ASSUME IInv
             PROVE  /\ {k \in Counted : HasText(k)} = {k \in 1..line : HasText(k)}
                    /\ {k \in Counted : HasUsage(k)} = {k \in 1..line : HasUsage(k)}
  OBVIOUS
<1>1. line \in Nat
  BY BodyTyped DEF IInv, TypeOK
<1>2. ASSUME NEW k \in 1..line, body[k] # "[DONE]"
      PROVE  k \in Counted
  <2>1. \A j \in 1..k : j \in 1..line /\ (j = line => j = k)
    BY <1>1
  <2>2. QED BY <1>2, <2>1 DEF Counted, IInv, SaidInv, EndsAt
<1>3. Counted \subseteq 1..line
  BY DEF Counted
<1>4. QED BY <1>2, <1>3 DEF HasText, HasUsage

\* The texts among the events, once the end has been told.
LEMMA DeltasGiven ==
    ASSUME IInv, NEW h \in (Len(reply) + 1)..Len(written), handled = SubSeq(written, 1, h)
    PROVE  Deltas(handled) = reply
<1>1. /\ reply \in Seq(1..MaxLines) /\ written \in Seq(Events)
      /\ \A i \in 1..Len(reply) : written[i] = Event("delta", reply[i])
      /\ \A i \in (Len(reply) + 1)..Len(written) : written[i].event # "delta"
  <2>1. /\ reply \in Seq(1..MaxLines) /\ written \in Seq(Events)
        /\ \A i \in 1..Len(reply) : written[i] = Event("delta", reply[i])
    BY DEF IInv, TypeOK, WrittenInv
  <2>2. ASSUME NEW i \in (Len(reply) + 1)..Len(written)
        PROVE  written[i].event # "delta"
    <3>1. \/ i = Len(reply) + 1 /\ written[i] \in {Event("done", 0), Event("error", 0)}
          \/ i = Len(reply) + 2 /\ written[i] = Event("title", 0)
      BY <2>1 DEF IInv, TypeOK, WrittenInv
    <3>2. QED BY <3>1 DEF Event
  <2>3. QED BY <2>1, <2>2
<1>2. PICK n \in Nat : n = Len(reply) /\ h \in Nat /\ n < h /\ h <= Len(written)
  BY <1>1
<1>3. DOMAIN handled = 1..h /\ \A i \in 1..h : handled[i] = written[i]
  BY <1>1, <1>2
<1>4. Named(handled, "delta") = 1..n
  <2>1. \A i \in 1..n : i \in 1..h /\ handled[i].event = "delta"
    BY <1>1, <1>2, <1>3, EventFields
  <2>2. \A i \in 1..h : i \notin 1..n => handled[i].event # "delta"
    BY <1>1, <1>2, <1>3
  <2>3. QED BY <1>3, <2>1, <2>2 DEF Named
<1>5. Ascending(1..n) = [i \in 1..n |-> i]
  BY AscendingTo
<1>6. Deltas(handled) = [i \in 1..n |-> handled[i].data]
  BY <1>4, <1>5 DEF Deltas
<1>7. \A i \in 1..n : handled[i].data = reply[i]
  BY <1>1, <1>2, <1>3, EventFields
<1>8. QED BY <1>1, <1>2, <1>6, <1>7

\* Once the end has been told, what has arrived goes beyond the texts.
LEMMA EndTold ==
    ASSUME IInv, NEW i \in DOMAIN handled, handled[i].event # "delta"
    PROVE  \E h \in (Len(reply) + 1)..Len(written) : handled = SubSeq(written, 1, h) /\ i <= h
<1>1. PICK h \in 0..Len(written) : handled = SubSeq(written, 1, h)
  BY WireTyped DEF IInv, WireInv
<1>2. i \in 1..h /\ handled[i] = written[i]
  BY <1>1 DEF IInv, TypeOK
<1>3. \A j \in 1..Len(reply) : written[j].event = "delta"
  BY EventFields DEF IInv, WrittenInv
<1>4. Len(reply) \in Nat /\ Len(written) \in Nat
  BY DEF IInv, TypeOK
<1>5. i > Len(reply)
  BY <1>2, <1>3, <1>4
<1>6. QED BY <1>1, <1>2, <1>4, <1>5

\* For bodies of any length: what is stored and charged is what the model call
\* said up to its marker, and a client that is told its reply is done has been
\* given the text that is stored (openrouter.go:75-104; chat.go:279-307).
THEOREM StoredIsSaid == Spec => []StoredAsSaid
<1>1. ASSUME IInv PROVE StoredAsSaid
  <2>1. reply = Ascending({k \in Counted : HasText(k)})
    <3>1. PICK n \in Nat : n = Len(reply) /\ reply \in [1..n -> Int]
      <4>1. reply \in Seq(1..MaxLines)
        BY <1>1 DEF IInv, TypeOK
      <4>2. Len(reply) \in Nat /\ reply \in [1..Len(reply) -> 1..MaxLines]
        BY <4>1, LenProperties
      <4>3. reply \in [1..Len(reply) -> Int]
        BY <4>2
      <4>4. QED BY <4>2, <4>3
    <3>2. Increasing(reply) /\ {k \in 1..line : HasText(k)} = {reply[i] : i \in 1..n}
      BY <1>1, <3>1 DEF IInv, SaidInv
    <3>3. Ascending({k \in 1..line : HasText(k)}) = reply
      BY <3>1, <3>2, Ascends
    <3>4. QED BY <1>1, <3>3, CountedLines
  <2>2. usage = Max({0} \cup {k \in Counted : HasUsage(k)})
    <3>1. line \in Nat /\ usage \in Nat
      BY <1>1, BodyTyped, StreamAssumption DEF IInv, TypeOK, StreamAssumption
    <3>2. PICK S : S = {0} \cup {k \in 1..line : HasUsage(k)}
      OBVIOUS
    <3>3. S \in SUBSET Int /\ usage \in S /\ \A x \in S : x <= usage
      BY <1>1, <3>1, <3>2 DEF IInv, SaidInv
    <3>4. Max(S) = usage
      BY <3>3, MaxOf
    <3>5. QED BY <1>1, <3>2, <3>4, CountedLines
  <2>3. ASSUME Named(handled, "done") # {}
        PROVE  stored = {Deltas(handled)}
    <3>1. PICK i \in DOMAIN handled : handled[i].event = "done"
      BY <2>3 DEF Named
    <3>2. PICK h \in (Len(reply) + 1)..Len(written) : handled = SubSeq(written, 1, h) /\ i <= h
      BY <1>1, <3>1, EndTold
    <3>3. Deltas(handled) = reply
      BY <1>1, <3>2, DeltasGiven
    <3>4. stored = {reply}
      <4>1. i \in 1..Len(written) /\ written[i].event = "done"
        BY <1>1, <3>1, <3>2 DEF IInv, TypeOK
      <4>2. \A j \in 1..Len(written) : written[j].event = "done" => stored = {reply}
        <5>1. ASSUME NEW j \in 1..Len(written), written[j].event = "done", stored # {reply}
              PROVE  FALSE
          <6>1. j \in 1..Len(reply) \/ j > Len(reply)
            BY <1>1 DEF IInv, TypeOK
          <6>2. j \notin 1..Len(reply)
            BY <1>1, <5>1, EventFields DEF IInv, WrittenInv
          <6>3. Len(written) = Len(reply) + 1 /\ written[Len(reply) + 1] = Event("error", 0)
            BY <1>1, <5>1, <6>1, <6>2 DEF IInv, TypeOK, SaidInv, WrittenInv
          <6>4. j = Len(reply) + 1
            BY <1>1, <6>1, <6>2, <6>3 DEF IInv, TypeOK
          <6>5. QED BY <5>1, <6>3, <6>4 DEF Event
        <5>2. QED BY <5>1
      <4>3. QED BY <4>1, <4>2
    <3>5. QED BY <3>3, <3>4
  <2>4. QED BY <1>1, <2>1, <2>2, <2>3 DEF StoredAsSaid, IInv, TypeOK
<1>2. QED BY <1>1, Invariance, PTL

\* For bodies of any length: a call that runs to its end is told how it ended,
\* once and after all of its text (chat.go:284-317).
THEOREM OneEnd == Spec => []OneVerdict
<1>1. ASSUME IInv PROVE OneVerdict
  <2> SUFFICES ASSUME call = "returned" PROVE OneVerdict
    BY DEF OneVerdict
  <2>1. PICK n \in Nat, w \in Nat : n = Len(reply) /\ w = Len(written)
    BY <1>1 DEF IInv, TypeOK
  <2>2. at = "ended" /\ arrived = 7 * w
    BY <1>1, <2>1 DEF IInv, WrittenInv
  <2>3. handled = SubSeq(written, 1, w) /\ handled = written
    <3>1. (7 * w) \div 7 = w
      OBVIOUS
    <3>2. handled = SubSeq(written, 1, w) /\ written \in Seq(Events)
      BY <1>1, <2>2, <3>1 DEF IInv, WireInv
    <3>3. SubSeq(written, 1, Len(written)) = written
      BY <3>2, SubSeqFull
    <3>4. QED BY <2>1, <3>2, <3>3
  <2>4. w > n
    BY <1>1, <2>1, <2>2 DEF IInv, WrittenInv
  <2>5. Deltas(handled) = reply
    BY <1>1, <2>1, <2>3, <2>4, DeltasGiven
  <2>6. Len(Deltas(handled)) = n
    BY <2>1, <2>5
  <2> DEFINE Ends(m) == [i \in 1..(Len(handled) - m) |-> handled[m + i].event]
  <2>7. Ends(n) \in {<<"done">>, <<"done", "title">>, <<"error">>}
    <3>1. CASE w = n + 1 /\ written[n + 1] \in {Event("error", 0), Event("done", 0)}
      <4>1. Ends(n) = <<written[n + 1].event>>
        BY <2>1, <2>3, <3>1
      <4>2. written[n + 1].event \in {"error", "done"}
        BY <3>1, EventFields
      <4>3. QED BY <4>1, <4>2
    <3>2. CASE /\ w = n + 2 /\ written[n + 1] = Event("done", 0)
               /\ written[n + 2] = Event("title", 0)
      <4>1. Ends(n) = <<written[n + 1].event, written[n + 2].event>>
        BY <2>1, <2>3, <3>2
      <4>2. written[n + 1].event = "done" /\ written[n + 2].event = "title"
        BY <3>2, EventFields
      <4>3. Ends(n) = <<"done", "title">>
        BY <4>1, <4>2
      <4> HIDE DEF Ends
      <4>4. QED BY <4>3
    <3>3. QED BY <1>1, <2>1, <2>2, <3>1, <3>2 DEF IInv, WrittenInv
  <2>8. Ends(Len(Deltas(handled))) \in {<<"done">>, <<"done", "title">>, <<"error">>}
    <3> HIDE DEF Ends
    <3>1. QED BY <2>6, <2>7
  <2>9. QED BY <2>8 DEF OneVerdict
<1>2. QED BY <1>1, Invariance, PTL
=============================================================================
