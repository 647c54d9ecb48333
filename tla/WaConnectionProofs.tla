------------------------- MODULE WaConnectionProofs -------------------------
(***************************************************************************)
(* Theorems about the connection to the WhatsApp server.                   *)
(*                                                                         *)
(* WaTransport, for streams cut anywhere and frames of any length: both    *)
(* directions deliver in order, and the connection implements              *)
(* ReliableChannel, given a codec that reads what it writes.               *)
(*                                                                         *)
(* WaSession, for a mailbox of any length and content and any number of    *)
(* faults: what is acknowledged has been cached or is one of the named     *)
(* losses, and nothing is cached twice.                                    *)
(***************************************************************************)
EXTENDS WaSession, WaTransport, FiniteSetTheorems, SequenceTheorems, TLAPS

(***************************************************************************)
(* The parser: feed is what its definition says of it, and a stream may be *)
(* cut anywhere.                                                           *)
(***************************************************************************)
\* Numbers have a least one.
LEMMA LeastNumber ==
  ASSUME NEW S \in SUBSET Nat, S # {}
  PROVE  \E x \in S : \A y \in S : x <= y
<1>1. PICK n \in Nat : n \in S
  OBVIOUS
<1> DEFINE L == S \cap (0 .. n)
           Below(x) == {y \in L : y < x}
           T == {Below(x) : x \in L}
           R == StrictSubsetOrdering(L)
<1>2. L \in SUBSET (0 .. n) /\ L \in SUBSET Nat /\ n \in L /\ \A y \in S : y \in L \/ y > n
  BY <1>1
<1> HIDE DEF Below, L, T, R
<1>3. IsFiniteSet(L)
  <2>1. IsFiniteSet(0 .. n)
    BY <1>1, FS_Interval
  <2> QED
    BY <1>2, <2>1, FS_Subset
<1>4. IsWellFoundedOn(R, FiniteSubsetsOf(L))
  BY <1>3, FS_StrictSubsetOrderingWellFounded DEF R
<1>5. T \subseteq FiniteSubsetsOf(L) /\ T # {}
  <2>1. \A x \in L : Below(x) \in SUBSET L
    BY DEF Below
  <2>2. \A x \in L : Below(x) \in FiniteSubsetsOf(L)
    BY <1>3, <2>1, FS_FiniteSubsetsOfFinite
  <2> QED
    BY <1>2, <2>2 DEF T
<1>6. PICK A \in T : \A B \in T : <<B, A>> \notin R
  BY <1>4, <1>5, WFMin
<1>7. PICK x \in L : A = Below(x)
  BY <1>6 DEF T
<1>8. ASSUME NEW y \in L, y < x PROVE FALSE
  <2>1. Below(y) \in T
    BY DEF T
  <2>2. Below(y) \subseteq A
    <3>1. \A z \in L : z < y => z < x
      BY <1>2, <1>8
    <3> QED
      BY <1>7, <3>1 DEF Below
  <2>3. y \in A /\ y \notin Below(y) /\ A \subseteq L
    BY <1>2, <1>7, <1>8 DEF Below
  <2>4. <<Below(y), A>> \in R
    BY <2>2, <2>3 DEF R, StrictSubsetOrdering
  <2> QED
    BY <1>6, <2>1, <2>4
<1>9. ASSUME NEW y \in S PROVE x <= y
  <2>1. x \in Nat /\ y \in Nat /\ x <= n
    BY <1>1, <1>2, <1>7
  <2> QED
    BY <1>1, <1>2, <1>8, <2>1
<1> QED
  BY <1>2, <1>7, <1>9 DEF L

\* Bytes.
Bytes == Seq(Nat)

\* The first frame and what follows it.
LEMMA FrameIs ==
  ASSUME NEW s \in Bytes, HasFrame(s)
  PROVE  /\ FrameEnd(s) \in 3 .. Len(s)
         /\ AfterFrame(s) \in Bytes /\ Len(AfterFrame(s)) = Len(s) - FrameEnd(s)
         /\ \A i \in 1 .. Len(AfterFrame(s)) : AfterFrame(s)[i] = s[FrameEnd(s) + i]
         /\ FrameOf(s) \in Bytes /\ Len(FrameOf(s)) = FrameEnd(s) - 3
         /\ \A i \in 1 .. Len(FrameOf(s)) : FrameOf(s)[i] = s[3 + i]
<1>1. Len(s) \in Nat /\ Len(s) >= 3 /\ \A i \in 1 .. Len(s) : s[i] \in Nat
  BY DEF Bytes, HasFrame, FRAME_LEN_BYTES
<1>2. LengthAt(s) \in Nat
  <2>1. s[1] \in Nat /\ s[2] \in Nat /\ s[3] \in Nat /\ LenRadix \in Nat
    BY <1>1, TransportAssumption
  <2>2. LenRadix * LenRadix \in Nat /\ s[2] * LenRadix \in Nat
    BY <2>1
  <2>3. s[1] * LenRadix \in Nat
    BY <2>1
  <2>4. s[1] * LenRadix * LenRadix \in Nat
    BY <2>1, <2>3
  <2> QED
    BY <2>1, <2>2, <2>4 DEF LengthAt
<1>3. FrameEnd(s) \in 3 .. Len(s)
  BY <1>1, <1>2 DEF HasFrame, FrameEnd, FRAME_LEN_BYTES
<1> DEFINE e == FrameEnd(s)
<1> HIDE DEF e
<1>4. e \in 3 .. Len(s) /\ AfterFrame(s) = SubSeq(s, e + 1, Len(s)) /\ FrameOf(s) = SubSeq(s, 4, e)
  BY <1>3 DEF e, AfterFrame, FrameOf, FRAME_LEN_BYTES
<1>5. /\ SubSeq(s, e + 1, Len(s)) \in Bytes /\ Len(SubSeq(s, e + 1, Len(s))) = Len(s) - e
      /\ \A i \in 1 .. Len(s) - e : SubSeq(s, e + 1, Len(s))[i] = s[e + i]
  BY <1>1, <1>4 DEF Bytes
<1>6. /\ SubSeq(s, 4, e) \in Bytes /\ Len(SubSeq(s, 4, e)) = e - 3
      /\ \A i \in 1 .. e - 3 : SubSeq(s, 4, e)[i] = s[3 + i]
  BY <1>1, <1>4 DEF Bytes
<1> QED
  BY <1>3, <1>4, <1>5, <1>6 DEF e

\* One turn of feed's loop, with f for what follows.
Body(f, s) ==
  IF HasFrame(s)
    THEN [frames |-> <<FrameOf(s)>> \o f[AfterFrame(s)].frames, rest |-> f[AfterFrame(s)].rest]
    ELSE [frames |-> <<>>, rest |-> s]

\* feed as far as buffers shorter than n go.
Short(n) == {s \in Bytes : Len(s) < n}
FeedsTo(f, n) == f = [s \in Short(n) |-> Body(f, s)]

\* What follows a frame is shorter than the buffer.
LEMMA ShorterAfter ==
  ASSUME NEW n \in Nat, NEW s \in Short(n + 1), HasFrame(s)
  PROVE  AfterFrame(s) \in Short(n) /\ Len(AfterFrame(s)) < Len(s)
  BY FrameIs DEF Short, Bytes

\* Two such functions agree.
LEMMA FeedsAgree ==
  ASSUME NEW m \in Nat, NEW n \in Nat, NEW f, NEW g, FeedsTo(f, m), FeedsTo(g, n)
  PROVE  \A s \in Short(m) \cap Short(n) : f[s] = g[s]
<1> DEFINE Bad == {Len(s) : s \in {t \in Short(m) \cap Short(n) : f[t] # g[t]}}
<1> SUFFICES ASSUME Bad # {} PROVE FALSE
  OBVIOUS
<1>1. Bad \in SUBSET Nat
  BY DEF Short, Bytes
<1> HIDE DEF Bad
<1>2. PICK x \in Bad : \A y \in Bad : x <= y
  BY <1>1, LeastNumber
<1>3. PICK s \in Short(m) \cap Short(n) : f[s] # g[s] /\ x = Len(s)
  BY <1>2 DEF Bad
<1>4. f[s] = Body(f, s) /\ g[s] = Body(g, s)
  BY <1>3 DEF FeedsTo
<1>5. HasFrame(s)
  BY <1>3, <1>4 DEF Body
<1>6. AfterFrame(s) \in Short(m) \cap Short(n) /\ Len(AfterFrame(s)) < Len(s) /\ Len(s) \in Nat
  BY <1>3, <1>5, FrameIs DEF Short, Bytes
<1>7. f[AfterFrame(s)] # g[AfterFrame(s)]
  BY <1>3, <1>4 DEF Body
<1>8. Len(AfterFrame(s)) \in Bad
  BY <1>6, <1>7 DEF Bad
<1>9. Len(AfterFrame(s)) \in Nat
  BY <1>1, <1>8
<1> QED
  BY <1>2, <1>3, <1>6, <1>8, <1>9

\* There is one for every length.
LEMMA FeedsExist == \A n \in Nat : \E f : FeedsTo(f, n)
<1> DEFINE Bad == {n \in Nat : ~ \E f : FeedsTo(f, n)}
<1> SUFFICES ASSUME Bad # {} PROVE FALSE
  OBVIOUS
<1>1. PICK x \in Bad : \A y \in Bad : x <= y
  <2>1. Bad \in SUBSET Nat
    OBVIOUS
  <2> HIDE DEF Bad
  <2> QED
    BY <2>1, LeastNumber
<1>2. x \in Nat /\ ~ \E f : FeedsTo(f, x)
  BY <1>1
<1>3. x # 0
  <2>1. Short(0) = {}
    BY DEF Short, Bytes
  <2>2. FeedsTo([s \in Short(0) |-> 0], 0)
    BY <2>1 DEF FeedsTo
  <2> QED
    BY <1>2, <2>2
<1>4. x - 1 \in Nat /\ x - 1 \notin Bad
  BY <1>1, <1>2, <1>3
<1>5. PICK f : FeedsTo(f, x - 1)
  BY <1>4
<1> DEFINE g == [s \in Short(x) |-> Body(f, s)]
<1>6. ASSUME NEW s \in Short(x) PROVE Body(f, s) = Body(g, s)
  <2>1. CASE HasFrame(s)
    <3>1. AfterFrame(s) \in Short(x - 1) /\ AfterFrame(s) \in Short(x)
      BY <1>2, <1>4, <2>1, ShorterAfter DEF Short, Bytes
    <3>2. f[AfterFrame(s)] = Body(f, AfterFrame(s))
      BY <1>5, <3>1 DEF FeedsTo
    <3>3. g[AfterFrame(s)] = Body(f, AfterFrame(s))
      BY <3>1
    <3> HIDE DEF g
    <3> QED
      BY <3>2, <3>3 DEF Body
  <2>2. CASE ~HasFrame(s)
    BY <2>2 DEF Body
  <2> QED
    BY <2>1, <2>2
<1>7. FeedsTo(g, x)
  <2>1. g = [s \in Short(x) |-> Body(g, s)]
    <3> DEFINE h == [s \in Short(x) |-> Body(g, s)]
    <3>1. \A s \in Short(x) : g[s] = h[s]
      BY <1>6
    <3> QED
      BY <3>1
  <2> QED
    BY <2>1 DEF FeedsTo
<1> QED
  BY <1>2, <1>7

\* feed is what its definition says of it.
LEMMA FeedIs == \A s \in Bytes : feed[s] = Body(feed, s)
<1> DEFINE A(n) == CHOOSE f : FeedsTo(f, n)
           h == [s \in Bytes |-> A(Len(s) + 1)[s]]
<1>1. \A n \in Nat : FeedsTo(A(n), n)
  BY FeedsExist
<1> HIDE DEF A
<1>2. ASSUME NEW s \in Bytes PROVE h[s] = Body(h, s)
  <2>1. Len(s) + 1 \in Nat /\ s \in Short(Len(s) + 1)
    BY DEF Short, Bytes
  <2>2. h[s] = Body(A(Len(s) + 1), s)
    BY <1>1, <2>1 DEF FeedsTo
  <2>3. CASE HasFrame(s)
    <3> DEFINE a == AfterFrame(s)
    <3>1. a \in Bytes /\ a \in Short(Len(s) + 1) /\ Len(a) + 1 \in Nat /\ a \in Short(Len(a) + 1)
      BY <2>1, <2>3, FrameIs DEF Short, Bytes
    <3>2. A(Len(s) + 1)[a] = A(Len(a) + 1)[a]
      <4> HIDE DEF a
      <4> QED
        BY <1>1, <2>1, <3>1, FeedsAgree
    <3>3. h[a] = A(Len(s) + 1)[a]
      BY <3>1, <3>2
    <3> HIDE DEF h
    <3> QED
      BY <2>2, <3>3 DEF Body
  <2>4. CASE ~HasFrame(s)
    BY <2>2, <2>4 DEF Body
  <2> QED
    BY <2>3, <2>4
<1>3. h = [s \in Bytes |-> Body(h, s)]
  <2> DEFINE g == [s \in Bytes |-> Body(h, s)]
  <2>1. \A s \in Bytes : h[s] = g[s]
    BY <1>2
  <2> QED
    BY <2>1
<1>4. feed = CHOOSE f : f = [s \in Bytes |-> Body(f, s)]
  BY DEF feed, Body, Bytes
<1> HIDE DEF h
<1>5. feed = [s \in Bytes |-> Body(feed, s)]
  BY <1>3, <1>4
<1> QED
  BY <1>5

\* ByteFrames.
ByteFrames == Seq(Bytes)

\* What feed does, in the two cases.
LEMMA FeedOf ==
  ASSUME NEW s \in Bytes
  PROVE  /\ HasFrame(s) => /\ feed[s].frames = <<FrameOf(s)>> \o feed[AfterFrame(s)].frames
                           /\ feed[s].rest = feed[AfterFrame(s)].rest
         /\ ~HasFrame(s) => feed[s].frames = <<>> /\ feed[s].rest = s
<1>1. feed[s] = Body(feed, s)
  BY FeedIs
<1> QED
  BY <1>1 DEF Body

\* feed gives frames of bytes, and leaves bytes.
LEMMA FeedType == \A s \in Bytes : feed[s].frames \in ByteFrames /\ feed[s].rest \in Bytes
<1> DEFINE Bad == {Len(s) : s \in {t \in Bytes : ~(feed[t].frames \in ByteFrames /\ feed[t].rest \in Bytes)}}
<1> SUFFICES ASSUME Bad # {} PROVE FALSE
  OBVIOUS
<1>1. Bad \in SUBSET Nat
  BY DEF Bytes
<1> HIDE DEF Bad
<1>2. PICK x \in Bad : \A y \in Bad : x <= y
  BY <1>1, LeastNumber
<1>3. PICK s \in Bytes : ~(feed[s].frames \in ByteFrames /\ feed[s].rest \in Bytes) /\ x = Len(s)
  BY <1>2 DEF Bad
<1>4. CASE HasFrame(s)
  <2>1. /\ AfterFrame(s) \in Bytes /\ FrameOf(s) \in Bytes
        /\ Len(AfterFrame(s)) \in Nat /\ Len(AfterFrame(s)) < Len(s) /\ Len(s) \in Nat
    BY <1>4, FrameIs DEF Bytes
  <2>2. Len(AfterFrame(s)) \notin Bad
    BY <1>2, <1>3, <2>1
  <2>3. feed[AfterFrame(s)].frames \in ByteFrames /\ feed[AfterFrame(s)].rest \in Bytes
    BY <2>1, <2>2 DEF Bad
  <2>4. <<FrameOf(s)>> \o feed[AfterFrame(s)].frames \in ByteFrames
    BY <2>1, <2>3, ConcatProperties DEF ByteFrames
  <2> QED
    BY <1>3, <1>4, <2>3, <2>4, FeedOf
<1>5. CASE ~HasFrame(s)
  <2>1. <<>> \in ByteFrames
    BY DEF ByteFrames
  <2> QED
    BY <1>3, <1>5, <2>1, FeedOf
<1> QED
  BY <1>4, <1>5

\* More bytes behind a frame change nothing in front.
LEMMA FrameBefore ==
  ASSUME NEW s \in Bytes, NEW t \in Bytes, HasFrame(s)
  PROVE  /\ s \o t \in Bytes /\ HasFrame(s \o t)
         /\ FrameOf(s \o t) = FrameOf(s) /\ AfterFrame(s \o t) = AfterFrame(s) \o t
<1> DEFINE st == s \o t
           e == FrameEnd(s)
<1>1. /\ st \in Bytes /\ Len(st) = Len(s) + Len(t) /\ Len(s) \in Nat /\ Len(t) \in Nat
      /\ \A i \in 1 .. Len(s) + Len(t) : st[i] = IF i <= Len(s) THEN s[i] ELSE t[i - Len(s)]
  BY ConcatProperties DEF Bytes
<1> HIDE DEF st
<1>2. /\ e \in 3 .. Len(s) /\ AfterFrame(s) \in Bytes /\ Len(AfterFrame(s)) = Len(s) - e
      /\ \A i \in 1 .. Len(AfterFrame(s)) : AfterFrame(s)[i] = s[e + i]
      /\ FrameOf(s) \in Bytes /\ Len(FrameOf(s)) = e - 3
      /\ \A i \in 1 .. Len(FrameOf(s)) : FrameOf(s)[i] = s[3 + i]
  BY FrameIs
<1>3. FrameEnd(st) = e
  <2>1. st[1] = s[1] /\ st[2] = s[2] /\ st[3] = s[3]
    BY <1>1, <1>2
  <2> QED
    BY <2>1 DEF FrameEnd, LengthAt
<1> HIDE DEF e
<1>4. HasFrame(st)
  BY <1>1, <1>2, <1>3 DEF HasFrame, FRAME_LEN_BYTES
<1>5. /\ AfterFrame(st) \in Bytes /\ Len(AfterFrame(st)) = Len(st) - e
      /\ \A i \in 1 .. Len(AfterFrame(st)) : AfterFrame(st)[i] = st[e + i]
      /\ FrameOf(st) \in Bytes /\ Len(FrameOf(st)) = e - 3
      /\ \A i \in 1 .. Len(FrameOf(st)) : FrameOf(st)[i] = st[3 + i]
  BY <1>1, <1>3, <1>4, FrameIs
<1>6. FrameOf(st) = FrameOf(s)
  <2>1. ASSUME NEW i \in 1 .. Len(FrameOf(st)) PROVE FrameOf(st)[i] = FrameOf(s)[i]
    <3>1. 3 + i \in 1 .. Len(s) + Len(t) /\ 3 + i <= Len(s) /\ i \in 1 .. Len(FrameOf(s))
      BY <1>1, <1>2, <1>5
    <3>2. st[3 + i] = s[3 + i]
      BY <1>1, <3>1
    <3> QED
      BY <1>2, <1>5, <3>1, <3>2
  <2> QED
    BY <1>2, <1>5, <2>1, SeqEqual DEF Bytes
<1>7. AfterFrame(st) = AfterFrame(s) \o t
  <2> DEFINE a == AfterFrame(s)
             b == AfterFrame(st)
  <2>1. /\ a \o t \in Bytes /\ Len(a \o t) = Len(a) + Len(t)
        /\ \A i \in 1 .. Len(a) + Len(t) : (a \o t)[i] = IF i <= Len(a) THEN a[i] ELSE t[i - Len(a)]
    BY <1>2, ConcatProperties DEF Bytes
  <2>2. b \in Bytes /\ Len(b) = Len(a) + Len(t) /\ \A i \in 1 .. Len(b) : b[i] = st[e + i]
    BY <1>1, <1>2, <1>5
  <2>3. /\ Len(a) = Len(s) - e /\ e \in Nat /\ Len(a) \in Nat
        /\ \A i \in 1 .. Len(a) : a[i] = s[e + i]
    BY <1>1, <1>2
  <2> HIDE DEF a, b
  <2>4. \A i \in 1 .. Len(b) : b[i] = (a \o t)[i]
    <3> TAKE i \in 1 .. Len(b)
    <3>1. i \in Nat /\ e + i \in 1 .. Len(s) + Len(t) /\ b[i] = st[e + i]
      BY <1>1, <2>2, <2>3
    <3>2. CASE i <= Len(a)
      BY <1>1, <2>1, <2>2, <2>3, <3>1, <3>2
    <3>3. CASE i > Len(a)
      <4>1. (e + i) - Len(s) = i - Len(a) /\ ~(e + i <= Len(s))
        BY <1>1, <2>3, <3>1, <3>3
      <4>2. st[e + i] = t[(e + i) - Len(s)]
        BY <1>1, <3>1, <4>1
      <4>3. (a \o t)[i] = t[i - Len(a)]
        BY <2>1, <2>2, <2>3, <3>1, <3>3
      <4> QED
        BY <3>1, <4>1, <4>2, <4>3
    <3> QED
      BY <2>3, <3>1, <3>2, <3>3
  <2> QED
    BY <2>1, <2>2, <2>4, SeqEqual DEF Bytes, a, b
<1> QED
  BY <1>1, <1>4, <1>6, <1>7 DEF st

\* Joining is associative.
LEMMA Joined ==
  ASSUME NEW a \in Bytes, NEW b \in Bytes, NEW c \in Bytes
  PROVE  (a \o b) \o c = a \o (b \o c)
<1> DEFINE S == Nat
<1>1. a \in Seq(S) /\ b \in Seq(S) /\ c \in Seq(S)
  BY DEF Bytes
<1> HIDE DEF S
<1> QED
  BY <1>1, ConcatAssociative

\* The same of frames.
LEMMA FramesJoined ==
  ASSUME NEW a \in ByteFrames, NEW b \in ByteFrames, NEW c \in ByteFrames
  PROVE  (a \o b) \o c = a \o (b \o c)
<1>1. a \in Seq(Bytes) /\ b \in Seq(Bytes) /\ c \in Seq(Bytes)
  BY DEF ByteFrames
<1> QED
  BY <1>1, ConcatAssociative

\* A stream may be cut anywhere: what is left of its first part is put in front
\* of the second.
LEMMA FeedAppend ==
  ASSUME NEW t \in Bytes
  PROVE  \A s \in Bytes : /\ feed[s \o t].frames = feed[s].frames \o feed[feed[s].rest \o t].frames
                          /\ feed[s \o t].rest = feed[feed[s].rest \o t].rest
<1> DEFINE Good(s) == /\ feed[s \o t].frames = feed[s].frames \o feed[feed[s].rest \o t].frames
                      /\ feed[s \o t].rest = feed[feed[s].rest \o t].rest
           Bad == {Len(s) : s \in {u \in Bytes : ~Good(u)}}
<1> SUFFICES ASSUME Bad # {} PROVE FALSE
  OBVIOUS
<1> HIDE DEF Good
<1>1. Bad \in SUBSET Nat
  BY DEF Bytes
<1> HIDE DEF Bad
<1>2. PICK x \in Bad : \A y \in Bad : x <= y
  BY <1>1, LeastNumber
<1>3. PICK s \in Bytes : ~Good(s) /\ x = Len(s)
  BY <1>2 DEF Bad
<1>4. CASE HasFrame(s)
  <2> DEFINE a == AfterFrame(s)
             r == feed[a].rest
  <2>1. a \in Bytes /\ FrameOf(s) \in Bytes /\ Len(a) \in Nat /\ Len(a) < Len(s) /\ Len(s) \in Nat
    BY <1>4, FrameIs DEF Bytes
  <2>2. Len(a) \notin Bad
    BY <1>2, <1>3, <2>1
  <2> HIDE DEF a
  <2>3. Good(a)
    BY <2>1, <2>2 DEF Bad
  <2>4. /\ s \o t \in Bytes /\ HasFrame(s \o t) /\ FrameOf(s \o t) = FrameOf(s) /\ AfterFrame(s \o t) = a \o t
    BY <1>4, FrameBefore DEF a
  <2>5. /\ feed[s \o t].frames = <<FrameOf(s)>> \o feed[a \o t].frames
        /\ feed[s \o t].rest = feed[a \o t].rest
    BY <2>4, FeedOf
  <2>6. feed[s].frames = <<FrameOf(s)>> \o feed[a].frames /\ feed[s].rest = r
    BY <1>4, FeedOf DEF a
  <2>7. /\ <<FrameOf(s)>> \in ByteFrames /\ feed[a].frames \in ByteFrames /\ r \in Bytes /\ r \o t \in Bytes
        /\ feed[r \o t].frames \in ByteFrames
    <3>1. r \in Bytes
      BY <2>1, FeedType
    <3>2. r \o t \in Bytes
      BY <3>1, ConcatProperties DEF Bytes
    <3>3. <<FrameOf(s)>> \in ByteFrames
      BY <2>1 DEF ByteFrames
    <3> QED
      BY <2>1, <3>1, <3>2, <3>3, FeedType
  <2> HIDE DEF r
  <2>8. /\ feed[a \o t].frames = feed[a].frames \o feed[r \o t].frames
        /\ feed[a \o t].rest = feed[r \o t].rest
    BY <2>3 DEF r, Good
  <2>9. <<FrameOf(s)>> \o (feed[a].frames \o feed[r \o t].frames) = (<<FrameOf(s)>> \o feed[a].frames) \o feed[r \o t].frames
    <3> DEFINE f == <<FrameOf(s)>>
               g == feed[a].frames
               h == feed[r \o t].frames
    <3>1. f \in ByteFrames /\ g \in ByteFrames /\ h \in ByteFrames
      BY <2>7
    <3> HIDE DEF f, g, h
    <3>2. f \o (g \o h) = (f \o g) \o h
      BY <3>1, FramesJoined
    <3> QED
      BY <3>2 DEF f, g, h
  <2>10. Good(s)
    BY <2>5, <2>6, <2>8, <2>9 DEF Good
  <2> QED
    BY <1>3, <2>10
<1>5. CASE ~HasFrame(s)
  <2>1. feed[s].frames = <<>> /\ feed[s].rest = s /\ s \o t \in Bytes
    BY <1>5, FeedOf, ConcatProperties DEF Bytes
  <2>2. feed[s \o t].frames \in ByteFrames
    BY <2>1, FeedType
  <2>3. <<>> \o feed[s \o t].frames = feed[s \o t].frames
    BY <2>2, ConcatEmptySeq DEF ByteFrames
  <2>4. Good(s)
    BY <2>1, <2>3 DEF Good
  <2> QED
    BY <1>3, <2>4
<1> QED
  BY <1>4, <1>5

\* Quotient and remainder.
LEMMA Quotient ==
  ASSUME NEW m \in Nat \ {0}, NEW q \in Nat, NEW r \in 0 .. m - 1
  PROVE  (m * q + r) \div m = q
<1> DEFINE n == m * q + r
           q2 == n \div m
           r2 == n % m
<1>1. m * q \in Nat /\ n \in Nat
  OBVIOUS
<1>2. q2 \in Nat /\ r2 \in 0 .. m - 1 /\ n = m * q2 + r2
  OBVIOUS
<1> HIDE DEF q2, r2
<1>3. m * q2 \in Nat
  BY <1>2
<1>4. ASSUME q2 > q PROVE FALSE
  <2>1. PICK d \in Nat : q2 = q + 1 + d
    <3>1. q2 - q - 1 \in Nat /\ q2 = q + 1 + (q2 - q - 1)
      BY <1>2, <1>4
    <3> QED
      BY <3>1
  <2>2. m * q2 = m * q + m + m * d /\ m * d \in Nat
    BY <2>1
  <2> QED
    BY <1>1, <1>2, <2>2
<1>5. ASSUME q2 < q PROVE FALSE
  <2>1. PICK d \in Nat : q = q2 + 1 + d
    <3>1. q - q2 - 1 \in Nat /\ q = q2 + 1 + (q - q2 - 1)
      BY <1>2, <1>5
    <3> QED
      BY <3>1
  <2>2. m * q = m * q2 + m + m * d /\ m * d \in Nat
    BY <1>2, <2>1
  <2> QED
    BY <1>2, <1>3, <2>2
<1>6. q2 = q
  BY <1>2, <1>4, <1>5
<1> QED
  BY <1>6 DEF q2

\* Three length bytes say what they were made from.
LEMMA LengthIs ==
  ASSUME NEW n \in Nat, n < FRAME_MAX_SIZE
  PROVE  /\ \A i \in 1 .. 3 : LengthBytes(n)[i] \in Nat
         /\ LengthAt(LengthBytes(n)) = n
<1> DEFINE R == LenRadix
           c == n % R
           a == n \div R
           d == a % R
           b == a \div R
<1>1. R \in Nat /\ R > 1 /\ R # 0
  BY TransportAssumption
<1> HIDE DEF R
<1>2. n = R * a + c /\ c \in 0 .. R - 1 /\ a \in Nat
  BY <1>1
<1>3. a = R * b + d /\ d \in 0 .. R - 1 /\ b \in Nat
  BY <1>1, <1>2
<1> HIDE DEF a, b, c, d
<1>4. R * R \in Nat \ {0} /\ R * d + c \in 0 .. R * R - 1 /\ n = (R * R) * b + (R * d + c)
  <2>1. R * R \in Nat /\ R * R >= R
    BY <1>1
  <2>2. n = R * (R * b + d) + c /\ R * (R * b + d) = (R * R) * b + R * d
    BY <1>1, <1>2, <1>3
  <2>3. R * d \in Nat /\ R * d <= R * (R - 1)
    BY <1>1, <1>3
  <2>4. R * (R - 1) = R * R - R
    BY <1>1
  <2> QED
    BY <1>1, <1>2, <1>3, <2>1, <2>2, <2>3, <2>4
<1>5. n \div (R * R) = b
  BY <1>3, <1>4, Quotient
<1>6. b < R
  <2>1. n < R * R * R
    BY DEF FRAME_MAX_SIZE, R
  <2>2. ASSUME b >= R PROVE FALSE
    <3>1. (R * R) * b >= (R * R) * R
      BY <1>1, <1>3, <1>4, <2>2
    <3> QED
      BY <1>1, <1>2, <1>3, <1>4, <2>1, <3>1
  <2> QED
    BY <1>1, <1>3, <2>2
<1>7. b % R = b
  BY <1>1, <1>3, <1>6
<1>8. LengthBytes(n) = <<b, d, c>>
  BY <1>5, <1>7 DEF LengthBytes, a, b, c, d, R
<1>9. LengthAt(<<b, d, c>>) = n
  <2>1. b * R * R + d * R + c = (R * R) * b + (R * d + c)
    BY <1>1, <1>2, <1>3
  <2> QED
    BY <1>4, <2>1 DEF LengthAt, R
<1> QED
  BY <1>2, <1>3, <1>8, <1>9

\* Three bytes.
LEMMA Three ==
  ASSUME NEW a \in Nat, NEW b \in Nat, NEW c \in Nat
  PROVE  <<a, b, c>> \in Bytes /\ Len(<<a, b, c>>) = 3
  BY DEF Bytes

\* The parser takes a frame for what it was made of.
LEMMA FeedFrame ==
  ASSUME NEW p \in Bytes, ~TooLarge(p)
  PROVE  encode_frame(p) \in Bytes /\ feed[encode_frame(p)].frames = <<p>> /\ feed[encode_frame(p)].rest = <<>>
<1> DEFINE l == LengthBytes(Len(p))
           s == encode_frame(p)
<1>1. Len(p) \in Nat /\ Len(p) < FRAME_MAX_SIZE
  <2>1. LenRadix * LenRadix * LenRadix \in Nat
    BY TransportAssumption
  <2> QED
    BY <2>1 DEF TooLarge, FRAME_MAX_SIZE, Bytes
<1>2. l \in Bytes /\ Len(l) = 3 /\ LengthAt(l) = Len(p)
  <2>1. (\A i \in 1 .. 3 : l[i] \in Nat) /\ LengthAt(l) = Len(p)
    BY <1>1, LengthIs
  <2>2. PICK a, b, c : l = <<a, b, c>>
    BY DEF LengthBytes
  <2> HIDE DEF l
  <2>3. a \in Nat /\ b \in Nat /\ c \in Nat
    BY <2>1, <2>2
  <2> QED
    BY <2>1, <2>2, <2>3, Three
<1>3. s = l \o p
  BY DEF encode_frame
<1> HIDE DEF l, s
<1>4. /\ s \in Bytes /\ Len(s) = 3 + Len(p)
      /\ \A i \in 1 .. 3 + Len(p) : s[i] = IF i <= 3 THEN l[i] ELSE p[i - 3]
  <2>1. /\ l \o p \in Bytes /\ Len(l \o p) = Len(l) + Len(p)
        /\ \A i \in 1 .. Len(l) + Len(p) : (l \o p)[i] = IF i <= Len(l) THEN l[i] ELSE p[i - Len(l)]
    BY <1>2, ConcatProperties DEF Bytes
  <2> QED
    BY <1>2, <1>3, <2>1
<1>5. HasFrame(s) /\ FrameEnd(s) = 3 + Len(p)
  <2>1. s[1] = l[1] /\ s[2] = l[2] /\ s[3] = l[3]
    BY <1>1, <1>4
  <2>2. LengthAt(s) = Len(p)
    BY <1>2, <2>1 DEF LengthAt
  <2> QED
    BY <1>1, <1>4, <2>2 DEF HasFrame, FrameEnd, FRAME_LEN_BYTES
<1>6. /\ AfterFrame(s) \in Bytes /\ Len(AfterFrame(s)) = 0
      /\ FrameOf(s) \in Bytes /\ Len(FrameOf(s)) = Len(p)
      /\ \A i \in 1 .. Len(p) : FrameOf(s)[i] = s[3 + i]
  <2>1. /\ AfterFrame(s) \in Bytes /\ Len(AfterFrame(s)) = Len(s) - FrameEnd(s)
        /\ FrameOf(s) \in Bytes /\ Len(FrameOf(s)) = FrameEnd(s) - 3
        /\ \A i \in 1 .. Len(FrameOf(s)) : FrameOf(s)[i] = s[3 + i]
    BY <1>4, <1>5, FrameIs
  <2>2. Len(s) - FrameEnd(s) = 0 /\ FrameEnd(s) - 3 = Len(p)
    BY <1>1, <1>4, <1>5
  <2> QED
    BY <2>1, <2>2
<1>7. FrameOf(s) = p
  <2>1. ASSUME NEW i \in 1 .. Len(p) PROVE FrameOf(s)[i] = p[i]
    <3>1. 3 + i \in 1 .. 3 + Len(p) /\ ~(3 + i <= 3) /\ (3 + i) - 3 = i
      BY <1>1
    <3> QED
      BY <1>4, <1>6, <3>1
  <2> QED
    BY <1>6, <2>1, SeqEqual DEF Bytes
<1>8. <<>> \in Bytes /\ ~HasFrame(<<>>)
  BY DEF Bytes, HasFrame, FRAME_LEN_BYTES
<1>9. AfterFrame(s) = <<>>
  BY <1>6, EmptySeq DEF Bytes
<1>10. feed[<<>>].frames = <<>> /\ feed[<<>>].rest = <<>>
  BY <1>8, FeedOf
<1>11. feed[s].frames = <<p>> \o <<>> /\ feed[s].rest = <<>>
  <2>1. /\ feed[s].frames = <<FrameOf(s)>> \o feed[AfterFrame(s)].frames
        /\ feed[s].rest = feed[AfterFrame(s)].rest
    BY <1>4, <1>5, FeedOf
  <2> QED
    BY <1>7, <1>9, <1>10, <2>1
<1>12. <<p>> \o <<>> = <<p>>
  <2>1. <<p>> \in ByteFrames
    BY DEF ByteFrames
  <2> QED
    BY <2>1, ConcatEmptySeq DEF ByteFrames
<1> QED
  BY <1>4, <1>11, <1>12 DEF s

\* A frame behind a stream of whole frames is the last of them.
LEMMA FeedLast ==
  ASSUME NEW s \in Bytes, feed[s].rest = <<>>, NEW p \in Bytes, ~TooLarge(p)
  PROVE  /\ s \o encode_frame(p) \in Bytes
         /\ feed[s \o encode_frame(p)].frames = Append(feed[s].frames, p)
         /\ feed[s \o encode_frame(p)].rest = <<>>
<1> DEFINE e == encode_frame(p)
<1>1. e \in Bytes /\ feed[e].frames = <<p>> /\ feed[e].rest = <<>>
  BY FeedFrame
<1> HIDE DEF e
<1>2. s \o e \in Bytes
  BY <1>1, ConcatProperties DEF Bytes
<1>3. <<>> \o e = e
  BY <1>1, ConcatEmptySeq DEF Bytes
<1>4. feed[s \o e].frames = feed[s].frames \o <<p>> /\ feed[s \o e].rest = <<>>
  <2>1. /\ feed[s \o e].frames = feed[s].frames \o feed[feed[s].rest \o e].frames
        /\ feed[s \o e].rest = feed[feed[s].rest \o e].rest
    BY <1>1, FeedAppend
  <2>2. feed[s].rest \o e = e
    BY <1>3
  <2> QED
    BY <1>1, <2>1, <2>2
<1>5. feed[s].frames \o <<p>> = Append(feed[s].frames, p)
  BY FeedType, AppendIsConcat DEF ByteFrames
<1> QED
  BY <1>2, <1>4, <1>5 DEF e

\* Bytes without the first m.
LEMMA Dropped ==
  ASSUME NEW u \in Bytes, NEW m \in 0 .. Len(u), NEW a, a = SubSeq(u, m + 1, Len(u))
  PROVE  a \in Bytes /\ Len(a) = Len(u) - m /\ \A i \in 1 .. Len(u) - m : a[i] = u[m + i]
  BY DEF Bytes

\* Frames without the first m.
LEMMA FramesDropped ==
  ASSUME NEW u \in ByteFrames, NEW m \in 0 .. Len(u), NEW a, a = SubSeq(u, m + 1, Len(u))
  PROVE  a \in ByteFrames /\ Len(a) = Len(u) - m /\ \A i \in 1 .. Len(u) - m : a[i] = u[m + i]
  BY DEF ByteFrames

\* Bytes behind the header.
LEMMA BehindHeader ==
  ASSUME NEW u \in Bytes, Len(u) >= 4
  PROVE  /\ SubSeq(u, 5, Len(u)) \in Bytes /\ Len(SubSeq(u, 5, Len(u))) = Len(u) - 4
         /\ \A i \in 1 .. Len(u) - 4 : SubSeq(u, 5, Len(u))[i] = u[4 + i]
<1>1. PICK m : m = 4
  OBVIOUS
<1>2. m \in 0 .. Len(u) /\ m + 1 = 5
  BY <1>1 DEF Bytes
<1>3. PICK a : a = SubSeq(u, m + 1, Len(u))
  OBVIOUS
<1>4. a \in Bytes /\ Len(a) = Len(u) - m /\ \A i \in 1 .. Len(u) - m : a[i] = u[m + i]
  BY <1>2, <1>3, Dropped
<1>5. a = SubSeq(u, 5, Len(u))
  BY <1>2, <1>3
<1> QED
  BY <1>1, <1>4, <1>5

\* The same of frames, behind the two of the handshake.
LEMMA BehindHandshake ==
  ASSUME NEW u \in ByteFrames, Len(u) >= 2
  PROVE  /\ SubSeq(u, 3, Len(u)) \in ByteFrames /\ Len(SubSeq(u, 3, Len(u))) = Len(u) - 2
         /\ \A i \in 1 .. Len(u) - 2 : SubSeq(u, 3, Len(u))[i] = u[2 + i]
<1>1. PICK m : m = 2
  OBVIOUS
<1>2. m \in 0 .. Len(u) /\ m + 1 = 3
  BY <1>1 DEF ByteFrames
<1>3. PICK a : a = SubSeq(u, m + 1, Len(u))
  OBVIOUS
<1>4. a \in ByteFrames /\ Len(a) = Len(u) - m /\ \A i \in 1 .. Len(u) - m : a[i] = u[m + i]
  BY <1>2, <1>3, FramesDropped
<1>5. a = SubSeq(u, 3, Len(u))
  BY <1>2, <1>3
<1> QED
  BY <1>1, <1>4, <1>5

\* A sealed payload is bytes, behind the number of its key and nonce.
LEMMA SealedIs ==
  ASSUME NEW k, NEW c \in Nat, NEW p \in Bytes
  PROVE  /\ Sealed(k, c, p) \in Bytes /\ Sealed(k, c, p) # <<>>
         /\ Sealed(k, c, p)[1] = KeyNo(k) + c /\ Head(Sealed(k, c, p)) = KeyNo(k) + c
         /\ Tail(Sealed(k, c, p)) = p
<1>1. KeyNo(k) + c \in Nat
  BY DEF KeyNo
<1> DEFINE x == KeyNo(k) + c
           s == <<x>> \o p
<1>2. x \in Nat
  BY <1>1
<1> HIDE DEF x
<1>3. <<x>> \in Bytes /\ Len(<<x>>) = 1 /\ <<x>>[1] = x
  BY <1>2 DEF Bytes
<1>4. /\ s \in Bytes /\ Len(s) = 1 + Len(p) /\ Len(p) \in Nat
      /\ \A i \in 1 .. 1 + Len(p) : s[i] = IF i <= 1 THEN <<x>>[i] ELSE p[i - 1]
  BY <1>3, ConcatProperties DEF Bytes
<1> HIDE DEF s
<1>5. s # <<>> /\ s[1] = x /\ Head(s) = x
  BY <1>3, <1>4 DEF Bytes
<1>6. Tail(s) = p
  <2>1. Tail(s) \in Bytes /\ Len(Tail(s)) = Len(p) /\ \A i \in 1 .. Len(p) : Tail(s)[i] = s[i + 1]
    BY <1>4, <1>5 DEF Bytes
  <2>2. ASSUME NEW i \in 1 .. Len(p) PROVE Tail(s)[i] = p[i]
    <3>1. i + 1 \in 1 .. 1 + Len(p) /\ ~(i + 1 <= 1) /\ (i + 1) - 1 = i
      BY <1>4
    <3> QED
      BY <1>4, <2>1, <3>1
  <2> QED
    BY <2>1, <2>2, SeqEqual DEF Bytes
<1> QED
  BY <1>4, <1>5, <1>6 DEF Sealed, s, x

\* A frame written behind whole frames.
LEMMA Written ==
  ASSUME NEW u \in Bytes, Len(u) >= 4, feed[SubSeq(u, 5, Len(u))].rest = <<>>,
         NEW p \in Bytes, ~TooLarge(p), NEW v, v = u \o encode_frame(p)
  PROVE  /\ v \in Bytes /\ Len(v) >= 4 /\ feed[SubSeq(v, 5, Len(v))].rest = <<>>
         /\ feed[SubSeq(u, 5, Len(u))].frames \in ByteFrames
         /\ feed[SubSeq(v, 5, Len(v))].frames = Append(feed[SubSeq(u, 5, Len(u))].frames, p)
<1> DEFINE e == encode_frame(p)
           a == SubSeq(u, 5, Len(u))
           b == SubSeq(v, 5, Len(v))
<1>1. e \in Bytes
  BY FeedFrame
<1> HIDE DEF e
<1>2. Len(u) \in Nat /\ Len(e) \in Nat
  BY <1>1 DEF Bytes
<1>3. /\ u \o e \in Bytes /\ Len(u \o e) = Len(u) + Len(e)
      /\ \A i \in 1 .. Len(u) + Len(e) : (u \o e)[i] = IF i <= Len(u) THEN u[i] ELSE e[i - Len(u)]
  BY <1>1, ConcatProperties DEF Bytes
<1>4. v = u \o e
  BY DEF e
<1>5. /\ v \in Bytes /\ Len(v) = Len(u) + Len(e)
      /\ \A i \in 1 .. Len(u) + Len(e) : v[i] = IF i <= Len(u) THEN u[i] ELSE e[i - Len(u)]
  BY <1>3, <1>4
<1>6. a \in Bytes /\ Len(a) = Len(u) - 4 /\ \A i \in 1 .. Len(u) - 4 : a[i] = u[4 + i]
  BY BehindHeader
<1>7. b \in Bytes /\ Len(b) = Len(v) - 4 /\ \A i \in 1 .. Len(v) - 4 : b[i] = v[4 + i]
  <2>1. v \in Bytes /\ Len(v) >= 4
    BY <1>2, <1>5
  <2> QED
    BY <2>1, BehindHeader
<1> HIDE DEF a, b
<1>8. b = a \o e
  <2>1. /\ a \o e \in Bytes /\ Len(a \o e) = Len(a) + Len(e)
        /\ \A i \in 1 .. Len(a) + Len(e) : (a \o e)[i] = IF i <= Len(a) THEN a[i] ELSE e[i - Len(a)]
    BY <1>1, <1>6, ConcatProperties DEF Bytes
  <2>2. Len(b) = Len(a) + Len(e)
    BY <1>2, <1>5, <1>6, <1>7
  <2>3. ASSUME NEW i \in 1 .. Len(b) PROVE b[i] = (a \o e)[i]
    <3>1. i \in Nat /\ i \in 1 .. Len(v) - 4 /\ 4 + i \in 1 .. Len(u) + Len(e) /\ i \in 1 .. Len(a) + Len(e)
      BY <1>2, <1>5, <1>6, <1>7, <2>2
    <3>2. b[i] = v[4 + i]
      BY <1>7, <3>1
    <3>3. CASE i <= Len(a)
      <4>1. 4 + i <= Len(u) /\ i \in 1 .. Len(u) - 4
        BY <1>2, <1>6, <3>1, <3>3
      <4>2. v[4 + i] = u[4 + i]
        BY <1>5, <3>1, <4>1
      <4>3. (a \o e)[i] = a[i]
        BY <2>1, <3>1, <3>3
      <4> QED
        BY <1>6, <3>2, <4>1, <4>2, <4>3
    <3>4. CASE ~(i <= Len(a))
      <4>1. ~(4 + i <= Len(u)) /\ (4 + i) - Len(u) = i - Len(a)
        BY <1>2, <1>6, <3>1, <3>4
      <4>2. v[4 + i] = e[(4 + i) - Len(u)]
        BY <1>5, <3>1, <4>1
      <4>3. (a \o e)[i] = e[i - Len(a)]
        BY <2>1, <3>1, <3>4
      <4> QED
        BY <3>2, <4>1, <4>2, <4>3
    <3> QED
      BY <3>3, <3>4
  <2> QED
    BY <1>7, <2>1, <2>2, <2>3, SeqEqual DEF Bytes
<1>9. feed[a].rest = <<>>
  BY DEF a
<1>10. feed[a \o e].frames = Append(feed[a].frames, p) /\ feed[a \o e].rest = <<>>
  BY <1>6, <1>9, FeedLast DEF e
<1>11. feed[a].frames \in ByteFrames
  BY <1>6, FeedType
<1>12. Len(v) >= 4
  BY <1>2, <1>5
<1>13. v \in Bytes /\ feed[b].rest = <<>> /\ feed[b].frames = Append(feed[a].frames, p)
  BY <1>5, <1>8, <1>10
<1> QED
  BY <1>11, <1>12, <1>13 DEF a, b

\* The first one, behind the header.
LEMMA FirstWritten ==
  ASSUME NEW p \in Bytes, ~TooLarge(p), NEW v, v = WA_HEADER \o encode_frame(p)
  PROVE  /\ v \in Bytes /\ Len(v) >= 4 /\ feed[SubSeq(v, 5, Len(v))].rest = <<>>
         /\ feed[SubSeq(v, 5, Len(v))].frames = <<p>>
<1>1. WA_HEADER \in Bytes /\ Len(WA_HEADER) = 4 /\ SubSeq(WA_HEADER, 5, Len(WA_HEADER)) = <<>>
  BY DEF WA_HEADER, Bytes
<1>2. <<>> \in Bytes /\ ~HasFrame(<<>>)
  BY DEF Bytes, HasFrame, FRAME_LEN_BYTES
<1>3. feed[<<>>].frames = <<>> /\ feed[<<>>].rest = <<>>
  BY <1>2, FeedOf
<1> DEFINE u == WA_HEADER
<1>4. u \in Bytes /\ Len(u) >= 4 /\ SubSeq(u, 5, Len(u)) = <<>> /\ v = u \o encode_frame(p)
  BY <1>1
<1> HIDE DEF u
<1>5. /\ v \in Bytes /\ Len(v) >= 4 /\ feed[SubSeq(v, 5, Len(v))].rest = <<>>
      /\ feed[SubSeq(v, 5, Len(v))].frames = Append(feed[SubSeq(u, 5, Len(u))].frames, p)
  BY <1>3, <1>4, Written
<1>6. Append(<<>>, p) = <<p>>
  OBVIOUS
<1> QED
  BY <1>3, <1>4, <1>5, <1>6

\* A frame sent behind whole frames.
Extended(q, b, d, p) ==
  /\ d \o encode_frame(p) \in Bytes /\ feed[b \o (d \o encode_frame(p))].rest = <<>>
  /\ q \o feed[b \o (d \o encode_frame(p))].frames = Append(q \o feed[b \o d].frames, p)

\* It is the last.
LEMMA SentLast ==
  ASSUME NEW q \in ByteFrames, NEW b \in Bytes, NEW d \in Bytes, feed[b \o d].rest = <<>>,
         NEW p \in Bytes, ~TooLarge(p)
  PROVE  Extended(q, b, d, p)
<1> DEFINE e == encode_frame(p)
           f == feed[b \o d].frames
<1>1. e \in Bytes
  BY FeedFrame
<1>2. b \o d \in Bytes
  BY ConcatProperties DEF Bytes
<1>3. feed[(b \o d) \o e].frames = Append(f, p) /\ feed[(b \o d) \o e].rest = <<>>
  BY <1>2, FeedLast
<1> HIDE DEF e
<1>4. d \o e \in Bytes /\ (b \o d) \o e = b \o (d \o e)
  <2>1. d \o e \in Bytes
    BY <1>1, ConcatProperties DEF Bytes
  <2>2. (b \o d) \o e = b \o (d \o e)
    BY <1>1, Joined, SMTT(30)
  <2> QED
    BY <2>1, <2>2
<1>5. f \in ByteFrames
  BY <1>2, FeedType
<1> HIDE DEF f
<1>6. q \o Append(f, p) = Append(q \o f, p)
  <2>1. <<p>> \in ByteFrames
    BY DEF ByteFrames
  <2>2. Append(f, p) = f \o <<p>>
    BY <1>5, AppendIsConcat DEF ByteFrames
  <2>3. q \o f \in ByteFrames
    BY <1>5, ConcatProperties DEF ByteFrames
  <2>4. Append(q \o f, p) = (q \o f) \o <<p>>
    BY <2>3, AppendIsConcat DEF ByteFrames
  <2>5. (q \o f) \o <<p>> = q \o (f \o <<p>>)
    BY <1>5, <2>1, FramesJoined
  <2> QED
    BY <2>2, <2>4, <2>5
<1>7. /\ d \o e \in Bytes /\ feed[b \o (d \o e)].rest = <<>>
      /\ q \o feed[b \o (d \o e)].frames = Append(q \o f, p)
  BY <1>3, <1>4, <1>6
<1> QED
  BY <1>7 DEF e, f, Extended

\* A stream is what it was, cut in two.
LEMMA CutInTwo ==
  ASSUME NEW d \in Bytes, NEW k \in 0 .. Len(d)
  PROVE  /\ SubSeq(d, 1, k) \in Bytes /\ SubSeq(d, k + 1, Len(d)) \in Bytes
         /\ SubSeq(d, 1, k) \o SubSeq(d, k + 1, Len(d)) = d
<1>1. Len(d) \in Nat
  BY DEF Bytes
<1>2. SubSeq(d, 1, k) \in Bytes /\ SubSeq(d, k + 1, Len(d)) \in Bytes
  BY <1>1 DEF Bytes
<1>3. SubSeq(d, 1, k) \o SubSeq(d, k + 1, Len(d)) = SubSeq(d, 1, Len(d))
  <2>1. 1 \in 1 .. Len(d) + 1 /\ k \in 1 - 1 .. Len(d) /\ Len(d) \in k .. Len(d)
    BY <1>1
  <2> QED
    BY <2>1, ConcatAdjacentSubSeq DEF Bytes
<1>4. SubSeq(d, 1, Len(d)) = d
  BY SubSeqFull DEF Bytes
<1> QED
  BY <1>2, <1>3, <1>4

\* Bytes that move into the parser stay what they were.
Moved(q, b, c, e) ==
  /\ feed[b \o c].rest \in Bytes /\ q \o feed[b \o c].frames \in ByteFrames
  /\ (q \o feed[b \o c].frames) \o feed[feed[b \o c].rest \o e].frames = q \o feed[b \o (c \o e)].frames
  /\ feed[feed[b \o c].rest \o e].rest = feed[b \o (c \o e)].rest

\* However a stream is cut.
LEMMA PumpKeeps ==
  ASSUME NEW q \in ByteFrames, NEW b \in Bytes, NEW c \in Bytes, NEW e \in Bytes
  PROVE  Moved(q, b, c, e)
<1> DEFINE r == feed[b \o c].rest
           f == feed[b \o c].frames
           g == feed[r \o e].frames
<1>1. b \o c \in Bytes
  BY ConcatProperties DEF Bytes
<1>2. (b \o c) \o e = b \o (c \o e)
  BY Joined
<1>3. r \in Bytes /\ f \in ByteFrames
  BY <1>1, FeedType
<1>4. feed[(b \o c) \o e].frames = f \o g /\ feed[(b \o c) \o e].rest = feed[r \o e].rest
  BY <1>1, FeedAppend
<1> HIDE DEF r, f
<1>5. r \o e \in Bytes
  BY <1>3, ConcatProperties DEF Bytes
<1>6. g \in ByteFrames
  BY <1>5, FeedType
<1> HIDE DEF g
<1>7. (q \o f) \o g = q \o (f \o g)
  BY <1>3, <1>6, FramesJoined
<1>8. q \o f \in ByteFrames
  BY <1>3, ConcatProperties DEF ByteFrames
<1>9. r \in Bytes /\ q \o f \in ByteFrames /\ (q \o f) \o g = q \o feed[b \o (c \o e)].frames
      /\ feed[r \o e].rest = feed[b \o (c \o e)].rest
  BY <1>2, <1>3, <1>4, <1>7, <1>8
<1> QED
  BY <1>9 DEF r, f, g, Moved

\* The first of what is queued, and what it leaves.
LEMMA FirstTaken ==
  ASSUME NEW q \in ByteFrames, q # <<>>, NEW f \in ByteFrames
  PROVE  /\ Tail(q) \in ByteFrames /\ Head(q) \in Bytes /\ (q \o f)[1] = Head(q)
         /\ Len(q \o f) \in Nat \ {0} /\ Len(Tail(q) \o f) = Len(q \o f) - 1
         /\ \A i \in 1 .. Len(Tail(q) \o f) : (Tail(q) \o f)[i] = (q \o f)[i + 1]
<1>1. Len(q) \in Nat /\ Len(q) >= 1 /\ Len(f) \in Nat
  BY EmptySeq DEF ByteFrames
<1> DEFINE t == Tail(q)
<1>2. t \in ByteFrames /\ Len(t) = Len(q) - 1 /\ \A i \in 1 .. Len(q) - 1 : t[i] = q[i + 1]
  BY <1>1 DEF ByteFrames
<1>3. Head(q) = q[1] /\ q[1] \in Bytes
  BY <1>1 DEF ByteFrames
<1> HIDE DEF t
<1>4. /\ Len(q \o f) = Len(q) + Len(f)
      /\ \A i \in 1 .. Len(q) + Len(f) : (q \o f)[i] = IF i <= Len(q) THEN q[i] ELSE f[i - Len(q)]
  BY ConcatProperties DEF ByteFrames
<1>5. /\ Len(t \o f) = Len(t) + Len(f)
      /\ \A i \in 1 .. Len(t) + Len(f) : (t \o f)[i] = IF i <= Len(t) THEN t[i] ELSE f[i - Len(t)]
  BY <1>2, ConcatProperties DEF ByteFrames
<1>6. ASSUME NEW i \in 1 .. Len(t \o f) PROVE (t \o f)[i] = (q \o f)[i + 1]
  <2>1. i \in 1 .. Len(t) + Len(f) /\ i + 1 \in 1 .. Len(q) + Len(f)
    BY <1>1, <1>2, <1>5
  <2>2. CASE i <= Len(t)
    <3>1. i + 1 <= Len(q) /\ i \in 1 .. Len(q) - 1
      BY <1>1, <1>2, <2>1, <2>2
    <3> QED
      BY <1>2, <1>4, <1>5, <2>1, <2>2, <3>1
  <2>3. CASE ~(i <= Len(t))
    <3>1. ~(i + 1 <= Len(q)) /\ (i + 1) - Len(q) = i - Len(t)
      BY <1>1, <1>2, <2>1, <2>3
    <3> QED
      BY <1>4, <1>5, <2>1, <2>3, <3>1
  <2> QED
    BY <2>2, <2>3
<1>7. (q \o f)[1] = q[1]
  BY <1>1, <1>4
<1>8. Len(q \o f) \in Nat \ {0} /\ Len(t \o f) = Len(q \o f) - 1
  BY <1>1, <1>2, <1>4, <1>5
<1> QED
  BY <1>2, <1>3, <1>6, <1>7, <1>8 DEF t

(***************************************************************************)
(* The handshake: both ends mix the same secrets.                          *)
(***************************************************************************)
\* The transcript before each token of the pattern.
LEMMA TokensFollowed ==
  ASSUME NEW nh, NEW a, NEW b
  PROVE  /\ Follow(nh, [hash |-> a]) = authenticate(nh, a)
         /\ Follow(nh, [mix |-> <<a, b>>]) = mix_shared_secret(nh, a, b)
         /\ Follow(nh, [box |-> a]) = crypt(nh, Box(nh, a))
<1>1. DOMAIN [hash |-> a] = {"hash"} /\ DOMAIN [mix |-> <<a, b>>] = {"mix"} /\ DOMAIN [box |-> a] = {"box"}
  OBVIOUS
<1> QED
  BY <1>1 DEF Follow

\* At is what its definition says of it.
LEMMA AtIs == \A i \in 1 .. 10 : At[i] = IF i = 1 THEN Start ELSE Follow(At[i - 1], XX[i - 1])
<1> DEFINE a1 == Start
           a2 == Follow(a1, XX[1])
           a3 == Follow(a2, XX[2])
           a4 == Follow(a3, XX[3])
           a5 == Follow(a4, XX[4])
           a6 == Follow(a5, XX[5])
           a7 == Follow(a6, XX[6])
           a8 == Follow(a7, XX[7])
           a9 == Follow(a8, XX[8])
           a10 == Follow(a9, XX[9])
           h == [i \in 1 .. 10 |-> IF i = 1 THEN a1 ELSE IF i = 2 THEN a2 ELSE IF i = 3 THEN a3 ELSE IF i = 4 THEN a4
                   ELSE IF i = 5 THEN a5 ELSE IF i = 6 THEN a6 ELSE IF i = 7 THEN a7 ELSE IF i = 8 THEN a8
                   ELSE IF i = 9 THEN a9 ELSE a10]
           g == [i \in 1 .. 10 |-> IF i = 1 THEN Start ELSE Follow(h[i - 1], XX[i - 1])]
<1>1. Len(XX) + 1 = 10
  BY DEF XX
<1>2. At = CHOOSE f : f = [i \in 1 .. 10 |-> IF i = 1 THEN Start ELSE Follow(f[i - 1], XX[i - 1])]
  BY <1>1 DEF At
<1>3. ASSUME NEW i \in 1 .. 10 PROVE h[i] = g[i]
  <2>1. /\ a1 = Start
        /\ a2 = Follow(a1, XX[1]) /\ a3 = Follow(a2, XX[2]) /\ a4 = Follow(a3, XX[3]) /\ a5 = Follow(a4, XX[4])
        /\ a6 = Follow(a5, XX[5]) /\ a7 = Follow(a6, XX[6]) /\ a8 = Follow(a7, XX[7]) /\ a9 = Follow(a8, XX[8])
        /\ a10 = Follow(a9, XX[9])
    OBVIOUS
  <2> HIDE DEF a1, a2, a3, a4, a5, a6, a7, a8, a9, a10
  <2>2. \/ i = 1 \/ i = 2 \/ i = 3 \/ i = 4 \/ i = 5 \/ i = 6 \/ i = 7 \/ i = 8 \/ i = 9 \/ i = 10
    OBVIOUS
  <2> QED
    BY <2>1, <2>2
<1>4. h = g
  <2> HIDE DEF a1, a2, a3, a4, a5, a6, a7, a8, a9, a10
  <2>1. \A i \in 1 .. 10 : h[i] = g[i]
    BY <1>3
  <2> QED
    BY <2>1
<1> HIDE DEF h
<1>5. At = [i \in 1 .. 10 |-> IF i = 1 THEN Start ELSE Follow(At[i - 1], XX[i - 1])]
  BY <1>2, <1>4
<1> QED
  BY <1>5

\* The transcripts at which the two ends seal and open their boxes.
LEMMA Transcript ==
  /\ At[4] = mix_shared_secret(authenticate(authenticate(Start, "ce"), "se"), "ce", "se")
  /\ At[6] = mix_shared_secret(crypt(At[4], PeerBox(4)), "ce", "ss")
  /\ At[7] = crypt(At[6], PeerBox(6))
  /\ At[9] = mix_shared_secret(crypt(At[7], PeerBox(7)), "cs", "se")
  /\ At[10] = crypt(At[9], PeerBox(9))
  /\ PeerBox(4) = Box(At[4], "ss") /\ PeerBox(6) = Box(At[6], "cert")
  /\ PeerBox(7) = Box(At[7], "cs") /\ PeerBox(9) = Box(At[9], "payload")
<1>1. /\ XX[1] = [hash |-> "ce"] /\ XX[2] = [hash |-> "se"] /\ XX[3] = [mix |-> <<"ce", "se">>]
      /\ XX[4] = [box |-> "ss"] /\ XX[5] = [mix |-> <<"ce", "ss">>] /\ XX[6] = [box |-> "cert"]
      /\ XX[7] = [box |-> "cs"] /\ XX[8] = [mix |-> <<"cs", "se">>] /\ XX[9] = [box |-> "payload"]
  BY DEF XX
<1>2. At[1] = Start
  BY AtIs
<1>3. At[2] = Follow(At[1], XX[1])
  BY AtIs
<1>4. At[3] = Follow(At[2], XX[2])
  BY AtIs
<1>5. At[4] = Follow(At[3], XX[3])
  BY AtIs
<1>6. At[5] = Follow(At[4], XX[4])
  BY AtIs
<1>7. At[6] = Follow(At[5], XX[5])
  BY AtIs
<1>8. At[7] = Follow(At[6], XX[6])
  BY AtIs
<1>9. At[8] = Follow(At[7], XX[7])
  BY AtIs
<1>10. At[9] = Follow(At[8], XX[8])
  BY AtIs
<1>11. At[10] = Follow(At[9], XX[9])
  BY AtIs
<1>12. /\ PeerBox(4) = Box(At[4], "ss") /\ PeerBox(6) = Box(At[6], "cert")
       /\ PeerBox(7) = Box(At[7], "cs") /\ PeerBox(9) = Box(At[9], "payload")
  BY <1>1 DEF PeerBox
<1>13. At[2] = authenticate(Start, "ce") /\ At[3] = authenticate(At[2], "se")
  <2>1. Follow(At[1], [hash |-> "ce"]) = authenticate(At[1], "ce")
    BY TokensFollowed
  <2>2. Follow(At[2], [hash |-> "se"]) = authenticate(At[2], "se")
    BY TokensFollowed
  <2> QED
    BY <1>1, <1>2, <1>3, <1>4, <2>1, <2>2
<1>14. At[4] = mix_shared_secret(At[3], "ce", "se") /\ At[6] = mix_shared_secret(At[5], "ce", "ss")
  <2>1. Follow(At[3], [mix |-> <<"ce", "se">>]) = mix_shared_secret(At[3], "ce", "se")
    BY TokensFollowed
  <2>2. Follow(At[5], [mix |-> <<"ce", "ss">>]) = mix_shared_secret(At[5], "ce", "ss")
    BY TokensFollowed
  <2> QED
    BY <1>1, <1>5, <1>7, <2>1, <2>2
<1>15. At[9] = mix_shared_secret(At[8], "cs", "se")
  <2>1. Follow(At[8], [mix |-> <<"cs", "se">>]) = mix_shared_secret(At[8], "cs", "se")
    BY TokensFollowed
  <2> QED
    BY <1>1, <1>10, <2>1
<1>16. At[5] = crypt(At[4], PeerBox(4)) /\ At[7] = crypt(At[6], PeerBox(6))
  <2>1. Follow(At[4], [box |-> "ss"]) = crypt(At[4], Box(At[4], "ss"))
    BY TokensFollowed
  <2>2. Follow(At[6], [box |-> "cert"]) = crypt(At[6], Box(At[6], "cert"))
    BY TokensFollowed
  <2> QED
    BY <1>1, <1>6, <1>8, <1>12, <2>1, <2>2
<1>17. At[8] = crypt(At[7], PeerBox(7)) /\ At[10] = crypt(At[9], PeerBox(9))
  <2>1. Follow(At[7], [box |-> "cs"]) = crypt(At[7], Box(At[7], "cs"))
    BY TokensFollowed
  <2>2. Follow(At[9], [box |-> "payload"]) = crypt(At[9], Box(At[9], "payload"))
    BY TokensFollowed
  <2> QED
    BY <1>1, <1>9, <1>11, <1>12, <2>1, <2>2
<1> QED
  BY <1>12, <1>13, <1>14, <1>15, <1>16, <1>17

\* A server whose answer the client accepts has mixed the same secrets.
LEMMA SameSecrets ==
  ASSUME offer.static = PeerBox(4), offer.cert = PeerBox(6)
  PROVE  /\ StaticBox = PeerBox(7) /\ PayloadBox = PeerBox(9)
         /\ finished(crypt(AfterOwnStatic, PayloadBox)).write = PeerKeys.read
         /\ finished(crypt(AfterOwnStatic, PayloadBox)).read = PeerKeys.write
<1>1. AfterEphemeral = At[4]
  BY Transcript DEF AfterEphemeral, ClientHello
<1>2. PeerBox(4).body = "ss"
  BY Transcript DEF Box
<1>3. AfterStatic = At[6]
  BY <1>1, <1>2, Transcript DEF AfterStatic
<1>4. AfterCert = At[7]
  BY <1>3, Transcript DEF AfterCert
<1>5. StaticBox = PeerBox(7)
  BY <1>4, Transcript DEF StaticBox
<1>6. AfterOwnStatic = At[9]
  BY <1>4, <1>5, Transcript DEF AfterOwnStatic
<1>7. PayloadBox = PeerBox(9)
  BY <1>6, Transcript DEF PayloadBox
<1>8. finished(crypt(AfterOwnStatic, PayloadBox)) = finished(At[10])
  BY <1>6, <1>7, Transcript
<1>9. PeerKeys = [write |-> finished(At[10]).read, read |-> finished(At[10]).write]
  <2>1. Len(XX) + 1 = 10
    BY DEF XX
  <2> QED
    BY <2>1 DEF PeerKeys
<1> QED
  BY <1>5, <1>7, <1>8, <1>9

\* The two keys differ.
LEMMA KeyNumbers == KeyNo(PeerKeys.read) = 1000 /\ KeyNo(PeerKeys.write) = 2000
<1>1. PeerKeys.read # PeerKeys.write
  <2> DEFINE n == At[Len(XX) + 1]
  <2>1. PeerKeys = [write |-> finished(n).read, read |-> finished(n).write]
    BY DEF PeerKeys
  <2> HIDE DEF n
  <2>2. finished(n).read[2] = "read" /\ finished(n).write[2] = "write"
    BY DEF finished
  <2> QED
    BY <2>1, <2>2
<1> QED
  BY <1>1 DEF KeyNo

(***************************************************************************)
(* The connection: the invariant, step by step.                            *)
(***************************************************************************)
\* The frames of the server, and those the client has not taken.
WireLen == IF peer = "wait" THEN 0 ELSE 1 + Len(downSent)
WireAt(i) == IF i = 1 THEN Answer ELSE Sealed(PeerKeys.write, i - 2, encode_node(downSent[i - 1]))
Pending == queue \o feed[buf \o down].frames
Taken == IF stage = "open" THEN 1 + rctr ELSE 0

\* What the client has written behind the header.
Stream == SubSeq(up, Len(WA_HEADER) + 1, Len(up))

TransportTypes ==
  /\ stage \in {"connected", "hello", "open", "failed"} /\ peer \in {"wait", "answered", "open"}
  /\ headerSent \in BOOLEAN /\ socket \in {"up", "down"}
  /\ wctr \in Nat /\ rctr \in Nat /\ pctr \in Nat /\ intact \in 0 .. Len(upSent)
  /\ up \in Bytes /\ down \in Bytes /\ buf \in Bytes /\ queue \in ByteFrames
  /\ upSent \in Seq(Nodes) /\ downSent \in Seq(Nodes) /\ handled \in Seq({Arrives(n) : n \in Nodes})

\* Both ends have mixed the same keys.
KeysAgree ==
  /\ offer.static = PeerBox(4) /\ offer.cert = PeerBox(6)
  /\ stage = "open" => /\ finish = <<PeerBox(7), PeerBox(9)>>
                       /\ keys.write = PeerKeys.read /\ keys.read = PeerKeys.write

\* The counters count what was sent and read.
Counted ==
  /\ wctr = Len(upSent) /\ pctr = Len(downSent) /\ rctr = Len(handled)
  /\ stage # "open" => upSent = <<>> /\ handled = <<>>
  /\ peer # "open" => downSent = <<>>
  /\ stage = "failed" => socket = "down"
  /\ headerSent <=> stage # "connected"

\* What the client has written is whole frames: Hello, Finish, and the nodes
\* sent, those before a frame too large under the counter they are read with.
Outbound ==
  /\ IF headerSent THEN Len(up) >= Len(WA_HEADER) /\ feed[Stream].rest = <<>> ELSE up = <<>>
  /\ stage \in {"hello", "failed"} => PeerReads = <<Hello>>
  /\ stage = "open" =>
       /\ Len(PeerReads) >= 2 + intact /\ PeerReads[1] = Hello /\ PeerReads[2] = Finish
       /\ \A i \in 1 .. intact : PeerReads[i + 2] = Sealed(PeerKeys.read, i - 1, encode_node(upSent[i]))
       /\ intact = Len(upSent) => Len(PeerReads) = 2 + intact

\* What the client has yet to take is what the server has sent, from the frame
\* it has counted to, wherever the bytes are.
Inbound ==
  /\ \A i \in 1 .. Len(downSent) : ~TooLarge(Sealed(PeerKeys.write, i - 1, encode_node(downSent[i])))
  /\ stage # "failed" =>
       /\ Taken + Len(Pending) = WireLen
       /\ \A i \in 1 .. Len(Pending) : Pending[i] = WireAt(Taken + i)
       /\ feed[buf \o down].rest = <<>>
  /\ stage = "failed" => queue = <<>>

TransportInv == TransportTypes /\ KeysAgree /\ Counted /\ Outbound /\ Inbound

\* The messages of the handshake are short.
LEMMA SmallFrames == \A p \in {Hello, Answer, Finish} : p \in Bytes /\ ~TooLarge(p)
<1>1. \A p \in {Hello, Answer, Finish} : p \in Bytes /\ Len(p) = 1
  <2>1. \A x \in Nat : <<x>> \in Bytes /\ Len(<<x>>) = 1
    BY DEF Bytes
  <2>2. Hello = <<900>> /\ Answer = <<901>> /\ Finish = <<902>> /\ 900 \in Nat /\ 901 \in Nat /\ 902 \in Nat
    BY DEF Hello, Answer, Finish
  <2> QED
    BY <2>1, <2>2
<1>2. FRAME_MAX_SIZE \in Nat /\ FRAME_MAX_SIZE > 1
  <2> DEFINE R == LenRadix
  <2>1. R \in Nat /\ R >= 2
    BY TransportAssumption
  <2> HIDE DEF R
  <2>2. R * R \in Nat /\ R * R >= 2
    BY <2>1
  <2>3. R * R * R \in Nat /\ R * R * R >= 2
    BY <2>1, <2>2
  <2> QED
    BY <2>3 DEF FRAME_MAX_SIZE, R
<1> QED
  BY <1>1, <1>2 DEF TooLarge

\* What FrameSocket.send does to the server's view.
LEMMA SendWrites ==
  ASSUME TransportTypes, Outbound, NEW p \in Bytes, ~TooLarge(p), Send(p)
  PROVE  /\ up' \in Bytes /\ headerSent' = TRUE /\ Len(up') >= 4 /\ feed[Stream'].rest = <<>>
         /\ PeerReads \in ByteFrames /\ PeerReads' = Append(PeerReads, p)
         /\ ~headerSent => PeerReads = <<>>
<1>1. Len(WA_HEADER) = 4
  BY DEF WA_HEADER
<1>2. CASE headerSent
  <2>1. up \in Bytes /\ Len(up) >= 4 /\ feed[SubSeq(up, 5, Len(up))].rest = <<>> /\ up' = up \o encode_frame(p)
    BY <1>1, <1>2 DEF TransportTypes, Outbound, Stream, Send, Prefixed
  <2>2. /\ up' \in Bytes /\ Len(up') >= 4 /\ feed[SubSeq(up', 5, Len(up'))].rest = <<>>
        /\ feed[SubSeq(up, 5, Len(up))].frames \in ByteFrames
        /\ feed[SubSeq(up', 5, Len(up'))].frames = Append(feed[SubSeq(up, 5, Len(up))].frames, p)
    BY <2>1, Written
  <2>3. ~(Len(up) < 4) /\ ~(Len(up') < 4)
    BY <2>1, <2>2 DEF Bytes
  <2>4. PeerReads = feed[SubSeq(up, 5, Len(up))].frames /\ PeerReads' = feed[SubSeq(up', 5, Len(up'))].frames
    BY <1>1, <2>3 DEF PeerReads
  <2> QED
    BY <1>1, <1>2, <2>2, <2>4 DEF Stream, Send
<1>3. CASE ~headerSent
  <2>1. up = <<>> /\ up' = <<>> \o (WA_HEADER \o encode_frame(p))
    BY <1>3 DEF Outbound, Send, Prefixed
  <2>2. up' = WA_HEADER \o encode_frame(p)
    <3>1. encode_frame(p) \in Bytes /\ WA_HEADER \in Bytes
      BY FeedFrame DEF WA_HEADER, Bytes
    <3> DEFINE w == WA_HEADER \o encode_frame(p)
    <3>2. w \in Bytes
      BY <3>1, ConcatProperties DEF Bytes
    <3> HIDE DEF w
    <3>3. <<>> \o w = w
      BY <3>2, ConcatEmptySeq DEF Bytes
    <3> QED
      BY <2>1, <3>3 DEF w
  <2>3. /\ up' \in Bytes /\ Len(up') >= 4 /\ feed[SubSeq(up', 5, Len(up'))].rest = <<>>
        /\ feed[SubSeq(up', 5, Len(up'))].frames = <<p>>
    BY <2>2, FirstWritten
  <2>4. Len(up) < 4 /\ ~(Len(up') < 4)
    BY <2>1, <2>3 DEF Bytes
  <2>5. PeerReads = <<>> /\ PeerReads' = <<p>>
    BY <1>1, <2>3, <2>4 DEF PeerReads
  <2>6. <<p>> = Append(<<>>, p) /\ <<>> \in ByteFrames
    BY DEF ByteFrames
  <2> QED
    BY <1>1, <2>3, <2>5, <2>6 DEF Stream, Send
<1> QED
  BY <1>2, <1>3

\* What a step that touches neither direction leaves.
LEMMA OutKept ==
  ASSUME Outbound, UNCHANGED <<stage, headerSent, up, upSent, intact>>
  PROVE  Outbound'
  BY DEF Outbound, Stream, PeerReads

\* The same of the other direction.
LEMMA InKept ==
  ASSUME Inbound, UNCHANGED <<down, buf, queue, downSent>>, (peer' = "wait") <=> (peer = "wait"),
         Taken' = Taken, (stage' = "failed") <=> (stage = "failed")
  PROVE  Inbound'
<1>1. Pending' = Pending /\ WireLen' = WireLen /\ \A i : WireAt(i)' = WireAt(i)
  BY DEF Pending, WireLen, WireAt
<1> QED
  BY <1>1 DEF Inbound

\* Whatever is pending is whole frames.
LEMMA PendingType == TransportTypes => feed[buf \o down].frames \in ByteFrames /\ Pending \in ByteFrames
<1> SUFFICES ASSUME TransportTypes PROVE feed[buf \o down].frames \in ByteFrames /\ Pending \in ByteFrames
  OBVIOUS
<1>1. buf \o down \in Bytes
  BY ConcatProperties DEF TransportTypes, Bytes
<1>2. feed[buf \o down].frames \in ByteFrames
  BY <1>1, FeedType
<1>3. queue \o feed[buf \o down].frames \in ByteFrames
  BY <1>2, ConcatProperties DEF TransportTypes, ByteFrames
<1> QED
  BY <1>2, <1>3 DEF Pending

\* A frame sent is pending behind the others.
LEMMA PendingGrows ==
  ASSUME TransportTypes, feed[buf \o down].rest = <<>>, NEW p \in Bytes, ~TooLarge(p)
  PROVE  /\ down \o encode_frame(p) \in Bytes /\ feed[buf \o (down \o encode_frame(p))].rest = <<>>
         /\ queue \o feed[buf \o (down \o encode_frame(p))].frames = Append(Pending, p)
<1>1. queue \in ByteFrames /\ buf \in Bytes /\ down \in Bytes
  BY DEF TransportTypes
<1>2. Extended(queue, buf, down, p)
  BY <1>1, SentLast
<1> QED
  BY <1>2 DEF Extended, Pending

\* The server sends a frame that has its place in the stream.
LEMMA WireGrows ==
  ASSUME TransportTypes, Inbound, stage # "failed", NEW p \in Bytes, ~TooLarge(p), down' = down \o encode_frame(p),
         UNCHANGED <<stage, buf, queue>>, Taken' = Taken, WireLen' = WireLen + 1, NEW n, n = WireLen + 1, p = WireAt(n)',
         \A i \in 1 .. WireLen : WireAt(i)' = WireAt(i)
  PROVE  /\ down' \in Bytes
         /\ (Taken + Len(Pending) = WireLen)' /\ (\A i \in 1 .. Len(Pending) : Pending[i] = WireAt(Taken + i))'
         /\ (feed[buf \o down].rest = <<>>)'
<1>1. /\ down' \in Bytes /\ feed[buf \o down'].rest = <<>>
      /\ queue \o feed[buf \o down'].frames = Append(Pending, p)
  <2>1. feed[buf \o down].rest = <<>>
    BY DEF Inbound
  <2> QED
    BY <2>1, PendingGrows
<1>2. Pending' = Append(Pending, p)
  BY <1>1 DEF Pending
<1>3. Pending \in ByteFrames /\ Len(Pending) \in Nat
  BY PendingType DEF ByteFrames
<1>4. Len(Pending') = Len(Pending) + 1 /\ \A i \in 1 .. Len(Pending) + 1 : Pending'[i] = IF i <= Len(Pending) THEN Pending[i] ELSE p
  BY <1>2, <1>3 DEF ByteFrames
<1>5. Taken \in Nat /\ Taken + Len(Pending) = WireLen /\ \A i \in 1 .. Len(Pending) : Pending[i] = WireAt(Taken + i)
  BY DEF Inbound, Taken, TransportTypes
<1>6. ASSUME NEW i \in 1 .. Len(Pending') PROVE Pending'[i] = WireAt(Taken + i)'
  <2>1. CASE i <= Len(Pending)
    <3>1. Taken + i \in 1 .. WireLen /\ i \in 1 .. Len(Pending)
      BY <1>3, <1>4, <1>5, <2>1
    <3>2. WireAt(Taken + i)' = WireAt(Taken + i)
      BY <1>5, <3>1
    <3> QED
      BY <1>4, <1>5, <2>1, <3>1, <3>2
  <2>2. CASE ~(i <= Len(Pending))
    <3>1. Taken + i = n
      BY <1>3, <1>4, <1>5, <2>2
    <3>2. WireAt(Taken + i)' = WireAt(n)'
      BY <3>1 DEF WireAt
    <3> QED
      BY <1>4, <2>2, <3>2
  <2> QED
    BY <2>1, <2>2
<1> QED
  BY <1>1, <1>3, <1>4, <1>5, <1>6

\* The client takes a frame.
LEMMA WireTaken ==
  ASSUME TransportTypes, Inbound, stage # "failed", queue # <<>>, queue' = Tail(queue),
         UNCHANGED <<down, buf, peer, downSent>>, Taken' = Taken + 1, stage' # "failed"
  PROVE  Inbound' /\ queue' \in ByteFrames /\ Head(queue) = WireAt(Taken + 1) /\ WireLen >= Taken + 1
<1> DEFINE f == feed[buf \o down].frames
<1>1. f \in ByteFrames /\ queue \in ByteFrames
  BY PendingType DEF TransportTypes
<1>2. Pending = queue \o f /\ Pending' = Tail(queue) \o f
  BY DEF Pending
<1> HIDE DEF f
<1>3. /\ Tail(queue) \in ByteFrames /\ Pending[1] = Head(queue)
      /\ Len(Pending) \in Nat \ {0} /\ Len(Pending') = Len(Pending) - 1
      /\ \A i \in 1 .. Len(Pending') : Pending'[i] = Pending[i + 1]
  BY <1>1, <1>2, FirstTaken
<1>4. Taken \in Nat /\ Taken + Len(Pending) = WireLen /\ \A i \in 1 .. Len(Pending) : Pending[i] = WireAt(Taken + i)
  BY DEF Inbound, Taken, TransportTypes
<1>5. WireLen' = WireLen /\ \A i : WireAt(i)' = WireAt(i)
  BY DEF WireLen, WireAt
<1>6. ASSUME NEW i \in 1 .. Len(Pending') PROVE Pending'[i] = WireAt(Taken' + i)
  <2>1. i + 1 \in 1 .. Len(Pending) /\ Taken + (i + 1) = Taken' + i
    BY <1>3, <1>4
  <2> QED
    BY <1>3, <1>4, <2>1
<1>7. Taken' + Len(Pending') = WireLen'
  BY <1>3, <1>4, <1>5
<1>8. Inbound'
  <2>1. \A i \in 1 .. Len(Pending') : Pending'[i] = WireAt(Taken + i)'
    <3> TAKE i \in 1 .. Len(Pending')
    <3>1. WireAt(Taken + i)' = WireAt(Taken' + i)
      BY DEF WireAt
    <3> QED
      BY <1>6, <3>1
  <2> QED
    BY <1>7, <2>1 DEF Inbound
<1>9. Head(queue) = WireAt(Taken + 1) /\ WireLen >= Taken + 1
  BY <1>3, <1>4
<1> QED
  BY <1>3, <1>8, <1>9

\* The invariant holds before the handshake.
LEMMA TransportInitInv == TransportInit => TransportInv
<1> SUFFICES ASSUME TransportInit PROVE TransportInv
  OBVIOUS
<1>1. <<>> \in Bytes /\ ~HasFrame(<<>>) /\ <<>> \in ByteFrames /\ <<>> \o <<>> = <<>>
  BY DEF Bytes, ByteFrames, HasFrame, FRAME_LEN_BYTES
<1>2. feed[<<>>].frames = <<>> /\ feed[<<>>].rest = <<>>
  BY <1>1, FeedOf
<1>3. TransportTypes
  <2>1. <<>> \in Seq(Nodes) /\ <<>> \in Seq({Arrives(n) : n \in Nodes}) /\ Len(<<>>) = 0
    OBVIOUS
  <2>2. 0 \in 0 .. Len(<<>>) /\ 0 \in Nat
    BY <2>1
  <2> QED
    BY <1>1, <2>1, <2>2 DEF TransportTypes, TransportInit
<1>4. KeysAgree
  BY DEF KeysAgree, TransportInit, NoOffer
<1>5. Counted
  BY DEF Counted, TransportInit
<1>6. Outbound
  BY DEF Outbound, TransportInit
<1>7. Inbound
  <2>1. Pending = <<>> /\ feed[buf \o down].rest = <<>>
    BY <1>1, <1>2 DEF Pending, TransportInit
  <2>2. Taken = 0 /\ WireLen = 0 /\ stage # "failed" /\ Len(downSent) = 0
    BY DEF Taken, WireLen, TransportInit
  <2> QED
    BY <2>1, <2>2 DEF Inbound
<1> QED
  BY <1>3, <1>4, <1>5, <1>6, <1>7 DEF TransportInv

\* The client says hello: the header goes first.
LEMMA HelloInv == TransportInv /\ SendHello => TransportInv'
<1> SUFFICES ASSUME TransportInv, SendHello PROVE TransportInv'
  OBVIOUS
<1> USE DEF TransportInv
<1>1. /\ up' \in Bytes /\ headerSent' = TRUE /\ Len(up') >= 4 /\ feed[Stream'].rest = <<>>
      /\ PeerReads' = Append(PeerReads, Hello) /\ PeerReads = <<>>
  <2>1. Hello \in Bytes /\ ~TooLarge(Hello) /\ Send(Hello) /\ ~headerSent
    BY SmallFrames DEF SendHello, Counted
  <2> QED
    BY <2>1, SendWrites
<1>2. /\ stage = "connected" /\ stage' = "hello"
      /\ UNCHANGED <<peer, offer, finish, keys, wctr, upSent, intact, down, pctr, buf, queue, rctr, handled, downSent, socket>>
  BY DEF SendHello, inVars
<1>3. TransportTypes'
  BY <1>1, <1>2 DEF TransportTypes
<1>4. KeysAgree'
  BY <1>2 DEF KeysAgree
<1>5. Counted'
  BY <1>1, <1>2 DEF Counted
<1>6. Outbound'
  <2>1. PeerReads' = <<Hello>>
    BY <1>1
  <2>2. Len(WA_HEADER) = 4
    BY DEF WA_HEADER
  <2> QED
    BY <1>1, <1>2, <2>1, <2>2 DEF Outbound
<1>7. Inbound'
  <2>1. Taken' = Taken
    BY <1>2 DEF Taken
  <2> QED
    BY <1>2, <2>1, InKept
<1> QED
  BY <1>3, <1>4, <1>5, <1>6, <1>7

\* The server answers: the first frame of its stream.
LEMMA AnswerInv == TransportInv /\ PeerAnswers => TransportInv'
<1> SUFFICES ASSUME TransportInv, PeerAnswers PROVE TransportInv'
  OBVIOUS
<1> USE DEF TransportInv
<1>1. /\ socket = "up" /\ peer = "wait" /\ peer' = "answered" /\ down' = down \o encode_frame(Answer)
      /\ UNCHANGED <<stage, finish, keys, headerSent, wctr, up, upSent, intact, pctr, buf, queue, rctr, handled, downSent, socket>>
  BY DEF PeerAnswers, outVars
<1>2. offer'.static = NoOffer.static /\ offer'.cert = NoOffer.cert
  <2>1. PICK eph \in {"se", "none", "short"}, chain \in {"good", "unsigned", "other key"} :
          offer' = [NoOffer EXCEPT !.eph = eph, !.chain = chain]
    BY DEF PeerAnswers
  <2>2. DOMAIN NoOffer = {"eph", "static", "cert", "chain"}
    BY DEF NoOffer
  <2> QED
    BY <2>1, <2>2 DEF NoOffer
<1>3. stage # "failed" /\ downSent = <<>>
  BY <1>1 DEF Counted
<1>4. /\ down' \in Bytes
      /\ (Taken + Len(Pending) = WireLen)' /\ (\A i \in 1 .. Len(Pending) : Pending[i] = WireAt(Taken + i))'
      /\ (feed[buf \o down].rest = <<>>)'
  <2>1. Answer \in Bytes /\ ~TooLarge(Answer)
    BY SmallFrames
  <2>2. Taken' = Taken
    BY <1>1 DEF Taken
  <2>3. WireLen = 0 /\ WireLen' = 1 /\ \A i \in 1 .. WireLen : WireAt(i)' = WireAt(i)
    BY <1>1, <1>3 DEF WireLen
  <2>4. WireAt(1)' = Answer
    BY DEF WireAt
  <2>5. WireLen' = WireLen + 1 /\ 1 = WireLen + 1
    BY <2>3
  <2> QED
    BY <1>1, <1>3, <2>1, <2>2, <2>3, <2>4, <2>5, WireGrows
<1>5. TransportTypes'
  BY <1>1, <1>4 DEF TransportTypes
<1>6. KeysAgree'
  BY <1>1, <1>2 DEF KeysAgree, NoOffer
<1>7. Counted'
  BY <1>1 DEF Counted
<1>8. Outbound'
  BY <1>1, OutKept
<1>9. Inbound'
  BY <1>1, <1>3, <1>4 DEF Inbound
<1> QED
  BY <1>5, <1>6, <1>7, <1>8, <1>9

\* The client takes the answer and finishes: it has the server's keys.
LEMMA EndInv == TransportInv /\ EndHandshake => TransportInv'
<1> SUFFICES ASSUME TransportInv, EndHandshake PROVE TransportInv'
  OBVIOUS
<1> USE DEF TransportInv
<1>1. /\ socket = "up" /\ stage = "hello" /\ queue # <<>> /\ queue' = Tail(queue) /\ Send(Finish) /\ stage' = "open"
      /\ UNCHANGED <<peer, offer, wctr, upSent, intact, down, pctr, buf, rctr, handled, downSent, socket>>
  BY DEF EndHandshake
<1>2. /\ up' \in Bytes /\ headerSent' = TRUE /\ Len(up') >= 4 /\ feed[Stream'].rest = <<>>
      /\ PeerReads \in ByteFrames /\ PeerReads' = Append(PeerReads, Finish)
  <2>1. Finish \in Bytes /\ ~TooLarge(Finish)
    BY SmallFrames
  <2> QED
    BY <1>1, <2>1, SendWrites
<1>3. upSent = <<>> /\ handled = <<>> /\ rctr = 0 /\ intact = 0 /\ headerSent
  BY <1>1 DEF Counted, TransportTypes
<1>4. Inbound' /\ queue' \in ByteFrames
  <2>1. Taken' = Taken + 1
    BY <1>1, <1>3 DEF Taken
  <2> QED
    BY <1>1, <2>1, WireTaken
<1>5. TransportTypes'
  BY <1>1, <1>2, <1>4 DEF TransportTypes
<1>6. KeysAgree'
  <2>1. /\ finish' = <<StaticBox, PayloadBox>> /\ keys' = finished(crypt(AfterOwnStatic, PayloadBox))
        /\ offer.static = PeerBox(4) /\ offer.cert = PeerBox(6)
    BY DEF EndHandshake, KeysAgree
  <2>2. /\ StaticBox = PeerBox(7) /\ PayloadBox = PeerBox(9)
        /\ finished(crypt(AfterOwnStatic, PayloadBox)).write = PeerKeys.read
        /\ finished(crypt(AfterOwnStatic, PayloadBox)).read = PeerKeys.write
    BY <2>1, SameSecrets
  <2> QED
    BY <1>1, <2>1, <2>2 DEF KeysAgree
<1>7. Counted'
  BY <1>1, <1>2, <1>3 DEF Counted
<1>8. Outbound'
  <2>1. PeerReads = <<Hello>>
    BY <1>1 DEF Outbound
  <2>2. PeerReads \in ByteFrames /\ Len(PeerReads) = 1 /\ PeerReads[1] = Hello
    BY <1>2, <2>1
  <2>3. Len(PeerReads') = 2 /\ PeerReads'[1] = Hello /\ PeerReads'[2] = Finish
    <3>1. /\ Len(PeerReads') = Len(PeerReads) + 1 /\ \A i \in 1 .. Len(PeerReads) : PeerReads'[i] = PeerReads[i]
          /\ PeerReads'[Len(PeerReads) + 1] = Finish
      BY <1>2 DEF ByteFrames
    <3> QED
      BY <2>2, <3>1
  <2>4. Len(WA_HEADER) = 4
    BY DEF WA_HEADER
  <2> QED
    BY <1>1, <1>2, <1>3, <2>3, <2>4 DEF Outbound
<1> QED
  BY <1>4, <1>5, <1>6, <1>7, <1>8

\* The client gives up: nothing is queued from then on.
LEMMA FailInv == TransportInv /\ FailHandshake => TransportInv'
<1> SUFFICES ASSUME TransportInv, FailHandshake PROVE TransportInv'
  OBVIOUS
<1> USE DEF TransportInv
<1>1. /\ stage = "hello" /\ stage' = "failed" /\ socket' = "down" /\ queue' = <<>>
      /\ UNCHANGED <<peer, offer, finish, keys, headerSent, wctr, up, upSent, intact, down, pctr, buf, rctr, handled, downSent>>
  BY DEF FailHandshake, outVars
<1>2. TransportTypes'
  <2>1. <<>> \in ByteFrames
    BY DEF ByteFrames
  <2> QED
    BY <1>1, <2>1 DEF TransportTypes
<1>3. KeysAgree'
  BY <1>1 DEF KeysAgree
<1>4. Counted'
  BY <1>1 DEF Counted
<1>5. Outbound'
  <2>1. PeerReads' = PeerReads /\ Stream' = Stream
    BY <1>1 DEF PeerReads, Stream
  <2> QED
    BY <1>1, <2>1 DEF Outbound
<1>6. Inbound'
  BY <1>1 DEF Inbound
<1> QED
  BY <1>2, <1>3, <1>4, <1>5, <1>6

\* The server takes the Finish, and never refuses it.
LEMMA OpensInv == TransportInv /\ PeerOpens => TransportInv' /\ peer' = "open"
<1> SUFFICES ASSUME TransportInv, PeerOpens PROVE TransportInv' /\ peer' = "open"
  OBVIOUS
<1> USE DEF TransportInv
<1>1. /\ socket = "up" /\ peer = "answered" /\ Len(PeerReads) >= 2
      /\ UNCHANGED <<stage, offer, finish, keys, headerSent, wctr, up, upSent, intact, down, pctr, buf, queue, rctr, handled, downSent, socket>>
  BY DEF PeerOpens, outVars, inVars
<1>2. stage = "open"
  <2>1. CASE stage \in {"hello", "failed"}
    <3>1. PeerReads = <<Hello>>
      BY <2>1 DEF Outbound
    <3>2. Len(<<Hello>>) = 1
      OBVIOUS
    <3> QED
      BY <1>1, <3>1, <3>2
  <2>2. CASE stage = "connected"
    <3>1. up = <<>>
      BY <2>2 DEF Outbound, Counted
    <3>2. PeerReads = <<>>
      BY <3>1 DEF PeerReads, WA_HEADER
    <3> QED
      BY <1>1, <3>2
  <2> QED
    BY <2>1, <2>2 DEF TransportTypes
<1>3. peer' = "open"
  BY <1>2 DEF PeerOpens, KeysAgree
<1>4. TransportTypes'
  BY <1>1, <1>3 DEF TransportTypes
<1>5. KeysAgree'
  BY <1>1 DEF KeysAgree
<1>6. Counted'
  BY <1>1, <1>3 DEF Counted
<1>7. Outbound'
  BY <1>1, OutKept
<1>8. Inbound'
  <2>1. Taken' = Taken
    BY <1>1 DEF Taken
  <2> QED
    BY <1>1, <1>3, <2>1, InKept
<1> QED
  BY <1>3, <1>4, <1>5, <1>6, <1>7, <1>8

\* The client sends a node, or moves its counter past a frame too large.
LEMMA SendNodeInv ==
  ASSUME TransportInv, CodecRoundTrips, NEW n \in Nodes, SendNode(n)
  PROVE  TransportInv'
<1> USE DEF TransportInv
<1> DEFINE p == Sealed(keys.write, wctr, encode_node(n))
<1>1. /\ stage = "open" /\ wctr' = wctr + 1 /\ upSent' = Append(upSent, n)
      /\ IF TooLarge(p) THEN UNCHANGED <<up, headerSent, intact>>
         ELSE Send(p) /\ intact' = IF intact = Len(upSent) THEN intact + 1 ELSE intact
      /\ UNCHANGED <<stage, peer, offer, finish, keys, down, pctr, buf, queue, rctr, handled, downSent, socket>>
  BY DEF SendNode, handshakeVars, inVars
<1>2. /\ upSent \in Seq(Nodes) /\ Len(upSent) \in Nat /\ upSent' \in Seq(Nodes) /\ Len(upSent') = Len(upSent) + 1
      /\ \A i \in 1 .. Len(upSent) : upSent'[i] = upSent[i]
      /\ upSent'[Len(upSent) + 1] = n
      /\ intact \in 0 .. Len(upSent) /\ wctr = Len(upSent) /\ headerSent
  BY <1>1 DEF TransportTypes, Counted
<1>3. p = Sealed(PeerKeys.read, wctr, encode_node(n)) /\ p \in Bytes
  <2>1. encode_node(n) \in Bytes /\ wctr \in Nat /\ keys.write = PeerKeys.read
    BY <1>1, <1>2 DEF CodecRoundTrips, Bytes, KeysAgree
  <2> QED
    BY <2>1, SealedIs
<1> HIDE DEF p
<1>4. Len(WA_HEADER) = 4
  BY DEF WA_HEADER
<1>5. CASE TooLarge(p)
  <2>1. UNCHANGED <<up, headerSent, intact>>
    BY <1>1, <1>5
  <2>2. TransportTypes'
    BY <1>1, <1>2, <2>1 DEF TransportTypes
  <2>3. Outbound'
    <3>1. PeerReads' = PeerReads /\ Stream' = Stream
      BY <2>1 DEF PeerReads, Stream
    <3>2. \A i \in 1 .. intact : upSent'[i] = upSent[i]
      BY <1>2
    <3>3. intact' # Len(upSent')
      BY <1>2, <2>1
    <3> QED
      BY <1>1, <2>1, <3>1, <3>2, <3>3 DEF Outbound
  <2> QED
    BY <1>1, <1>2, <2>1, <2>2, <2>3, InKept DEF KeysAgree, Counted, Taken
<1>6. CASE ~TooLarge(p)
  <2>1. Send(p) /\ intact' = IF intact = Len(upSent) THEN intact + 1 ELSE intact
    BY <1>1, <1>6
  <2>2. /\ up' \in Bytes /\ headerSent' = TRUE /\ Len(up') >= 4 /\ feed[Stream'].rest = <<>>
        /\ PeerReads \in ByteFrames /\ PeerReads' = Append(PeerReads, p)
    BY <1>3, <1>6, <2>1, SendWrites
  <2>3. TransportTypes'
    <3>1. intact' \in 0 .. Len(upSent')
      BY <1>2, <2>1
    <3> QED
      BY <1>1, <1>2, <2>2, <3>1 DEF TransportTypes
  <2>4. Outbound'
    <3>1. /\ Len(PeerReads) \in Nat /\ Len(PeerReads') = Len(PeerReads) + 1
          /\ \A i \in 1 .. Len(PeerReads) : PeerReads'[i] = PeerReads[i]
          /\ PeerReads'[Len(PeerReads) + 1] = p
      BY <2>2 DEF ByteFrames
    <3>2. /\ Len(PeerReads) >= 2 + intact /\ PeerReads[1] = Hello /\ PeerReads[2] = Finish
          /\ \A i \in 1 .. intact : PeerReads[i + 2] = Sealed(PeerKeys.read, i - 1, encode_node(upSent[i]))
          /\ intact = Len(upSent) => Len(PeerReads) = 2 + intact
      BY <1>1 DEF Outbound
    <3>3. PeerReads'[1] = Hello /\ PeerReads'[2] = Finish
      <4>1. 1 \in 1 .. Len(PeerReads) /\ 2 \in 1 .. Len(PeerReads)
        BY <1>2, <3>1, <3>2
      <4> QED
        BY <3>1, <3>2, <4>1
    <3>4. Len(PeerReads') >= 2 + intact' /\ (intact' = Len(upSent') => Len(PeerReads') = 2 + intact')
      BY <1>2, <2>1, <3>1, <3>2
    <3>5. ASSUME NEW i \in 1 .. intact'
          PROVE  PeerReads'[i + 2] = Sealed(PeerKeys.read, i - 1, encode_node(upSent'[i]))
      <4>1. CASE i \in 1 .. intact
        <5>1. i + 2 \in 1 .. Len(PeerReads) /\ i \in 1 .. Len(upSent)
          BY <1>2, <3>1, <3>2, <4>1
        <5> QED
          BY <1>2, <3>1, <3>2, <4>1, <5>1
      <4>2. CASE i \notin 1 .. intact
        <5>1. i = Len(upSent) + 1 /\ i + 2 = Len(PeerReads) + 1 /\ i - 1 = wctr
          BY <1>2, <2>1, <3>1, <3>2, <4>2
        <5> QED
          BY <1>2, <1>3, <3>1, <5>1
      <4> QED
        BY <4>1, <4>2
    <3> QED
      BY <1>1, <1>4, <2>2, <3>3, <3>4, <3>5 DEF Outbound
  <2> QED
    BY <1>1, <1>2, <2>2, <2>3, <2>4, InKept DEF KeysAgree, Counted, Taken
<1> QED
  BY <1>5, <1>6

\* The server sends a node.
LEMMA PeerSendsInv ==
  ASSUME TransportInv, CodecRoundTrips, NEW n \in Nodes, PeerSends(n)
  PROVE  TransportInv' /\ downSent' = Append(downSent, n)
<1> USE DEF TransportInv
<1> DEFINE p == Sealed(PeerKeys.write, pctr, encode_node(n))
<1>1. /\ socket = "up" /\ peer = "open" /\ ~TooLarge(p)
      /\ down' = down \o encode_frame(p) /\ pctr' = pctr + 1 /\ downSent' = Append(downSent, n)
      /\ UNCHANGED <<stage, peer, offer, finish, keys, headerSent, wctr, up, upSent, intact, buf, queue, rctr, handled, socket>>
  BY DEF PeerSends, handshakeVars, outVars
<1>2. /\ downSent \in Seq(Nodes) /\ Len(downSent) \in Nat /\ downSent' \in Seq(Nodes) /\ Len(downSent') = Len(downSent) + 1
      /\ \A i \in 1 .. Len(downSent) : downSent'[i] = downSent[i]
      /\ downSent'[Len(downSent) + 1] = n
      /\ pctr = Len(downSent) /\ pctr \in Nat /\ stage # "failed"
  BY <1>1 DEF TransportTypes, Counted
<1>3. p \in Bytes
  <2>1. encode_node(n) \in Bytes
    BY DEF CodecRoundTrips, Bytes
  <2> QED
    BY <1>2, <2>1, SealedIs
<1> HIDE DEF p
<1>4. /\ down' \in Bytes
      /\ (Taken + Len(Pending) = WireLen)' /\ (\A i \in 1 .. Len(Pending) : Pending[i] = WireAt(Taken + i))'
      /\ (feed[buf \o down].rest = <<>>)'
  <2>1. Taken' = Taken
    BY <1>1 DEF Taken
  <2>2. WireLen = 1 + Len(downSent) /\ WireLen' = 1 + Len(downSent')
    BY <1>1 DEF WireLen
  <2>3. ASSUME NEW i \in 1 .. WireLen PROVE WireAt(i)' = WireAt(i)
    <3>1. i = 1 \/ i - 1 \in 1 .. Len(downSent)
      BY <1>2, <2>2, <2>3
    <3> QED
      BY <1>2, <3>1 DEF WireAt
  <2> DEFINE m == Len(downSent) + 2
  <2>4. m = WireLen + 1 /\ WireLen' = WireLen + 1
    BY <1>2, <2>2
  <2>5. p = Sealed(PeerKeys.write, m - 2, encode_node(downSent'[m - 1]))
    <3>1. m - 2 = pctr /\ m - 1 = Len(downSent) + 1
      BY <1>2
    <3> HIDE DEF m
    <3> QED
      BY <1>2, <3>1 DEF p
  <2>6. \A k : k # 1 => WireAt(k)' = Sealed(PeerKeys.write, k - 2, encode_node(downSent'[k - 1]))
    BY DEF WireAt
  <2>7. \A k : k = m => p = WireAt(k)'
    <3>1. m # 1
      BY <1>2
    <3> HIDE DEF m
    <3> QED
      BY <2>5, <2>6, <3>1
  <2>8. PICK k : k = m
    OBVIOUS
  <2>9. k = WireLen + 1 /\ p = WireAt(k)'
    BY <2>4, <2>7, <2>8
  <2> HIDE DEF m
  <2>10. UNCHANGED <<stage, buf, queue>>
    BY <1>1
  <2> QED
    BY <1>1, <1>2, <1>3, <2>1, <2>3, <2>4, <2>9, <2>10, WireGrows
<1>5. TransportTypes'
  BY <1>1, <1>2, <1>4 DEF TransportTypes
<1>6. KeysAgree' /\ Counted'
  BY <1>1, <1>2 DEF KeysAgree, Counted
<1>7. Outbound'
  BY <1>1, OutKept
<1>8. Inbound'
  <2>1. ASSUME NEW i \in 1 .. Len(downSent') PROVE ~TooLarge(Sealed(PeerKeys.write, i - 1, encode_node(downSent'[i])))
    <3>1. CASE i \in 1 .. Len(downSent)
      BY <1>2, <3>1 DEF Inbound
    <3>2. CASE i \notin 1 .. Len(downSent)
      <4>1. i = Len(downSent) + 1 /\ i - 1 = pctr
        BY <1>2, <3>2
      <4> QED
        BY <1>1, <1>2, <4>1 DEF p
    <3> QED
      BY <3>1, <3>2
  <2> QED
    BY <1>1, <1>2, <1>4, <2>1 DEF Inbound
<1> QED
  BY <1>1, <1>5, <1>6, <1>7, <1>8

\* What the read pump moves is pending as before.
LEMMA PumpKept ==
  ASSUME TransportTypes, NEW k \in 0 .. Len(down)
  PROVE  LET r == feed[buf \o SubSeq(down, 1, k)]
             e == SubSeq(down, k + 1, Len(down))
         IN  /\ e \in Bytes /\ r.rest \in Bytes /\ queue \o r.frames \in ByteFrames
             /\ (queue \o r.frames) \o feed[r.rest \o e].frames = queue \o feed[buf \o down].frames
             /\ feed[r.rest \o e].rest = feed[buf \o down].rest
<1>1. down \in Bytes /\ buf \in Bytes /\ queue \in ByteFrames
  BY DEF TransportTypes
<1> DEFINE c == SubSeq(down, 1, k)
           e == SubSeq(down, k + 1, Len(down))
<1>2. c \in Bytes /\ e \in Bytes /\ c \o e = down
  BY <1>1, CutInTwo
<1> HIDE DEF c, e
<1>3. /\ feed[buf \o c].rest \in Bytes /\ queue \o feed[buf \o c].frames \in ByteFrames
      /\ (queue \o feed[buf \o c].frames) \o feed[feed[buf \o c].rest \o e].frames = queue \o feed[buf \o (c \o e)].frames
      /\ feed[feed[buf \o c].rest \o e].rest = feed[buf \o (c \o e)].rest
  <2>1. Moved(queue, buf, c, e)
    BY <1>1, <1>2, PumpKeeps
  <2> QED
    BY <2>1 DEF Moved
<1> QED
  BY <1>2, <1>3 DEF c, e

\* Bytes reach the parser.
LEMMA PumpInv ==
  ASSUME TransportInv, NEW k \in Chunks \cup {Len(down)}, ReadPump(k)
  PROVE  TransportInv'
<1> USE DEF TransportInv
<1>1. /\ k <= Len(down) /\ down' = SubSeq(down, k + 1, Len(down)) /\ socket = "up"
      /\ queue' = queue \o feed[buf \o SubSeq(down, 1, k)].frames /\ buf' = feed[buf \o SubSeq(down, 1, k)].rest
      /\ UNCHANGED <<stage, peer, offer, finish, keys, headerSent, wctr, up, upSent, intact, pctr, rctr, handled, downSent, socket>>
  BY DEF ReadPump, handshakeVars, outVars
<1>2. down \in Bytes /\ buf \in Bytes /\ queue \in ByteFrames /\ Len(down) \in Nat
  BY DEF TransportTypes, Bytes
<1>3. k \in 0 .. Len(down)
  BY <1>1, <1>2, TransportAssumption
<1>4. /\ down' \in Bytes /\ buf' \in Bytes /\ queue' \in ByteFrames
      /\ queue' \o feed[buf' \o down'].frames = queue \o feed[buf \o down].frames
      /\ feed[buf' \o down'].rest = feed[buf \o down].rest
  BY <1>1, <1>3, PumpKept
<1>5. TransportTypes'
  BY <1>1, <1>4 DEF TransportTypes
<1>6. KeysAgree' /\ Counted'
  BY <1>1 DEF KeysAgree, Counted
<1>7. Outbound'
  BY <1>1, OutKept
<1>8. Inbound'
  <2>1. Pending' = Pending /\ Taken' = Taken /\ WireLen' = WireLen /\ \A i : WireAt(i)' = WireAt(i)
    BY <1>1, <1>4 DEF Pending, Taken, WireLen, WireAt
  <2>2. stage # "failed"
    BY <1>1 DEF Counted
  <2> QED
    BY <1>1, <1>4, <2>1, <2>2 DEF Inbound
<1> QED
  BY <1>5, <1>6, <1>7, <1>8

\* The reader takes a frame: it opens, and decodes, and is the next node sent.
LEMMA ReadInv ==
  ASSUME TransportInv, CodecRoundTrips, Read
  PROVE  /\ TransportInv' /\ UNCHANGED <<downSent, socket>>
         /\ Len(handled) < Len(downSent) /\ handled' = Append(handled, Arrives(downSent[Len(handled) + 1]))
<1> USE DEF TransportInv
<1>1. /\ stage = "open" /\ queue # <<>> /\ queue' = Tail(queue)
      /\ IF decrypt_frame(Head(queue))
           THEN /\ rctr' = rctr + 1
                /\ handled' = IF decode_node(Tail(Head(queue))) = Unread THEN handled ELSE Append(handled, decode_node(Tail(Head(queue))))
           ELSE UNCHANGED <<rctr, handled>>
      /\ UNCHANGED <<stage, peer, offer, finish, keys, headerSent, wctr, up, upSent, intact, down, pctr, buf, downSent, socket>>
  BY DEF Read, handshakeVars, outVars
<1>2. Taken = 1 + rctr /\ rctr \in Nat /\ rctr = Len(handled)
  BY <1>1 DEF Taken, TransportTypes, Counted
<1> DEFINE x == downSent[rctr + 1]
<1>3. Head(queue) = WireAt(2 + rctr) /\ WireLen >= 2 + rctr
  <2>2. Taken + 1 = 2 + rctr
    BY <1>2
  <2>3. /\ queue \in ByteFrames /\ feed[buf \o down].frames \in ByteFrames
    BY PendingType DEF TransportTypes
  <2>4. Pending[1] = Head(queue) /\ Len(Pending) \in Nat \ {0}
    BY <1>1, <2>3, FirstTaken DEF Pending
  <2>5. Taken + Len(Pending) = WireLen /\ Pending[1] = WireAt(Taken + 1)
    BY <1>1, <2>4 DEF Inbound
  <2> QED
    BY <1>2, <2>2, <2>4, <2>5
<1>4. Len(downSent) \in Nat /\ rctr + 1 \in 1 .. Len(downSent) /\ x \in Nodes
  <2>1. WireLen <= 1 + Len(downSent) /\ Len(downSent) \in Nat
    BY DEF WireLen, TransportTypes
  <2>2. rctr + 1 \in 1 .. Len(downSent)
    BY <1>2, <1>3, <2>1 DEF WireLen
  <2> QED
    BY <2>1, <2>2 DEF TransportTypes
<1>5. Head(queue) = Sealed(PeerKeys.write, rctr, encode_node(x))
  <2>1. (2 + rctr) - 2 = rctr /\ (2 + rctr) - 1 = rctr + 1 /\ 2 + rctr # 1
    BY <1>2
  <2> QED
    BY <1>3, <2>1 DEF WireAt
<1> HIDE DEF x
<1>6. decrypt_frame(Head(queue)) /\ Tail(Head(queue)) = encode_node(x)
  <2>1. encode_node(x) \in Bytes /\ keys.read = PeerKeys.write
    BY <1>1, <1>4 DEF CodecRoundTrips, Bytes, KeysAgree
  <2> QED
    <3> DEFINE s == Sealed(PeerKeys.write, rctr, encode_node(x))
    <3>1. s[1] = KeyNo(PeerKeys.write) + rctr /\ Tail(s) = encode_node(x)
      BY <1>2, <2>1, SealedIs
    <3>2. Head(queue) = s
      BY <1>5
    <3> HIDE DEF s
    <3> QED
      BY <2>1, <3>1, <3>2 DEF decrypt_frame
<1>7. rctr' = rctr + 1 /\ handled' = Append(handled, Arrives(x))
  BY <1>1, <1>4, <1>6 DEF CodecRoundTrips
<1>8. Inbound' /\ queue' \in ByteFrames
  <2>1. Taken' = Taken + 1
    BY <1>1, <1>2, <1>7 DEF Taken
  <2> QED
    BY <1>1, <2>1, WireTaken
<1>9. /\ handled' \in Seq({Arrives(m) : m \in Nodes}) /\ Len(handled') = Len(handled) + 1
  <2>1. handled \in Seq({Arrives(m) : m \in Nodes}) /\ Arrives(x) \in {Arrives(m) : m \in Nodes}
    BY <1>4 DEF TransportTypes
  <2> DEFINE S == {Arrives(m) : m \in Nodes}
  <2> HIDE DEF S
  <2>2. handled \in Seq(S) /\ Arrives(x) \in S
    BY <2>1 DEF S
  <2>3. Append(handled, Arrives(x)) \in Seq(S) /\ Len(Append(handled, Arrives(x))) = Len(handled) + 1
    BY <2>2
  <2> QED
    BY <1>7, <2>3 DEF S
<1>10. TransportTypes'
  BY <1>1, <1>2, <1>7, <1>8, <1>9 DEF TransportTypes
<1>11. KeysAgree' /\ Counted'
  BY <1>1, <1>2, <1>7, <1>9 DEF KeysAgree, Counted
<1>12. Outbound'
  BY <1>1, OutKept
<1>13. Len(handled) < Len(downSent) /\ x = downSent[Len(handled) + 1]
  BY <1>2, <1>4 DEF x
<1> QED
  BY <1>1, <1>7, <1>8, <1>10, <1>11, <1>12, <1>13

\* A step that leaves all but the socket, which goes down.
LEMMA DisconnectInv ==
  ASSUME TransportInv, UNCHANGED <<handshakeVars, outVars, inVars>>, socket' \in {socket, "down"}
  PROVE  TransportInv'
<1> USE DEF TransportInv
<1>1. UNCHANGED <<stage, peer, offer, finish, keys, headerSent, wctr, up, upSent, intact, down, pctr, buf, queue, rctr, handled, downSent>>
  BY DEF handshakeVars, outVars, inVars
<1>2. TransportTypes'
  BY <1>1 DEF TransportTypes
<1>3. KeysAgree' /\ Counted'
  BY <1>1 DEF KeysAgree, Counted
<1>4. Outbound'
  BY <1>1, OutKept
<1>5. Inbound'
  BY <1>1, InKept DEF Taken
<1> QED
  BY <1>2, <1>3, <1>4, <1>5

\* Every step keeps the invariant.
LEMMA TransportStep ==
  ASSUME TransportInv, CodecRoundTrips, [TransportNext]_transportVars
  PROVE  TransportInv'
<1>1. CASE SendHello
  BY <1>1, HelloInv
<1>2. CASE PeerAnswers
  BY <1>2, AnswerInv
<1>3. CASE EndHandshake
  BY <1>3, EndInv
<1>4. CASE FailHandshake
  BY <1>4, FailInv
<1>5. CASE PeerOpens
  BY <1>5, OpensInv
<1>6. CASE \E n \in Nodes : SendNode(n) \/ PeerSends(n)
  BY <1>6, SendNodeInv, PeerSendsInv
<1>7. CASE \E k \in Chunks \cup {Len(down)} : ReadPump(k)
  BY <1>7, PumpInv
<1>8. CASE Read
  BY <1>8, ReadInv
<1>9. CASE Disconnect
  BY <1>9, DisconnectInv DEF Disconnect
<1>10. CASE UNCHANGED transportVars
  BY <1>10, DisconnectInv DEF transportVars
<1> QED
  BY <1>1, <1>2, <1>3, <1>4, <1>5, <1>6, <1>7, <1>8, <1>9, <1>10 DEF TransportNext

\* With a codec that reads what it writes, the invariant holds throughout.
THEOREM TransportInvariance == CodecRoundTrips => (TransportSpec => []TransportInv)
<1> SUFFICES ASSUME CodecRoundTrips PROVE TransportSpec => []TransportInv
  OBVIOUS
<1>1. TransportInit => TransportInv
  BY TransportInitInv
<1>2. TransportInv /\ [TransportNext]_transportVars => TransportInv'
  BY TransportStep
<1> QED
  BY <1>1, <1>2, PTL DEF TransportSpec

\* The type invariant of the connection (FrameSocket, NoiseSocket, FrameParser);
\* a frame the parser has cut is one that the sender could write.
THEOREM TransportTypeCorrect == CodecRoundTrips => (TransportSpec => []TransportTypeOK)
<1> SUFFICES ASSUME CodecRoundTrips PROVE TransportSpec => []TransportTypeOK
  OBVIOUS
<1>1. TransportInv => TransportTypeOK
  <2> SUFFICES ASSUME TransportInv PROVE TransportTypeOK
    OBVIOUS
  <2> USE DEF TransportInv
  <2>1. \A s \in {up, down, buf} : \A i \in DOMAIN s : s[i] \in Nat
    BY DEF TransportTypes, Bytes
  <2>2. ASSUME NEW i \in DOMAIN queue PROVE Len(queue[i]) < FRAME_MAX_SIZE
    <3> DEFINE f == feed[buf \o down].frames
    <3>1. queue \in ByteFrames /\ f \in ByteFrames
      BY PendingType DEF TransportTypes
    <3>2. i \in 1 .. Len(queue) /\ Len(queue) \in Nat /\ queue # <<>> /\ queue[i] \in Bytes
      BY <3>1, <2>2 DEF ByteFrames
    <3>3. stage # "failed"
      BY <3>2 DEF Inbound
    <3> HIDE DEF f
    <3>4. Len(queue \o f) = Len(queue) + Len(f) /\ Len(f) \in Nat /\ (queue \o f)[i] = queue[i]
      BY <3>1, <3>2, ConcatProperties DEF ByteFrames
    <3>5. i \in 1 .. Len(Pending) /\ queue[i] = Pending[i]
      BY <3>2, <3>4 DEF Pending, f
    <3>6. /\ Taken \in Nat /\ Taken + Len(Pending) = WireLen /\ Len(Pending) \in Nat
          /\ Pending[i] = WireAt(Taken + i)
      BY <3>2, <3>3, <3>5, PendingType DEF Inbound, Taken, TransportTypes, ByteFrames
    <3>7. ASSUME NEW j \in 1 .. WireLen PROVE ~TooLarge(WireAt(j))
      <4>1. CASE j = 1
        BY <4>1, SmallFrames DEF WireAt
      <4>2. CASE j # 1
        <5>1. j - 1 \in 1 .. Len(downSent) /\ (j - 1) - 1 = j - 2
          BY <4>2 DEF WireLen, TransportTypes
        <5>2. ~TooLarge(Sealed(PeerKeys.write, (j - 1) - 1, encode_node(downSent[j - 1])))
          BY <5>1 DEF Inbound
        <5> QED
          BY <4>2, <5>1, <5>2 DEF WireAt
      <4> QED
        BY <4>1, <4>2
    <3>8. Taken + i \in 1 .. WireLen
      BY <3>2, <3>5, <3>6
    <3>9. ~TooLarge(queue[i])
      BY <3>5, <3>6, <3>7, <3>8
    <3>10. FRAME_MAX_SIZE \in Nat
      <4>1. LenRadix * LenRadix \in Nat
        BY TransportAssumption
      <4> QED
        BY <4>1, TransportAssumption DEF FRAME_MAX_SIZE
    <3> QED
      BY <3>2, <3>9, <3>10 DEF TooLarge, Bytes
  <2> QED
    BY <2>1, <2>2 DEF TransportTypes, TransportTypeOK
<1> QED
  BY <1>1, TransportInvariance, PTL

\* Whatever goes out under the client's counter is opened under the server's:
\* a node that follows no frame too large arrives as it was sent, and no
\* handshake the client completes is refused (NoiseSocket, do_handshake).
THEOREM OutgoingIsReadable == CodecRoundTrips => (TransportSpec => []OutgoingReadable)
<1> SUFFICES ASSUME CodecRoundTrips PROVE TransportSpec => []OutgoingReadable
  OBVIOUS
<1>1. TransportInv => OutgoingReadable
  <2> SUFFICES ASSUME TransportInv PROVE OutgoingReadable
    OBVIOUS
  <2> USE DEF TransportInv
  <2>1. peer # "refused"
    BY DEF TransportTypes
  <2>2. ASSUME stage = "open"
        PROVE  LET frames == Opened(SubSeq(PeerReads, 3, Len(PeerReads)))
               IN  Len(frames) >= intact /\ \A i \in 1 .. intact : frames[i] = Arrives(upSent[i])
    <3> DEFINE P == PeerReads
               s == SubSeq(P, 3, Len(P))
               frames == Opened(s)
    <3>1. P \in ByteFrames /\ Len(P) \in Nat /\ Len(P) >= 2 + intact /\ intact \in Nat /\ intact <= Len(upSent) /\ Len(upSent) \in Nat
      <4>1. up \in Bytes /\ Len(WA_HEADER) = 4
        BY DEF TransportTypes, WA_HEADER
      <4>2. PeerReads \in ByteFrames
        <5>1. SubSeq(up, 5, Len(up)) \in Bytes
          BY <4>1 DEF Bytes
        <5>2. <<>> \in ByteFrames
          BY DEF ByteFrames
        <5> QED
          BY <4>1, <5>1, <5>2, FeedType DEF PeerReads
      <4> QED
        BY <2>2, <4>2 DEF Outbound, TransportTypes, ByteFrames
    <3> HIDE DEF P
    <3>2. s \in ByteFrames /\ Len(s) = Len(P) - 2 /\ \A i \in 1 .. Len(P) - 2 : s[i] = P[2 + i]
      <4>1. Len(P) >= 2
        BY <3>1
      <4> QED
        BY <3>1, <4>1, BehindHandshake
    <3> HIDE DEF s
    <3>3. DOMAIN s = 1 .. Len(s) /\ Len(s) \in Nat
      BY <3>2 DEF ByteFrames
    <3>4. Len(frames) = Len(s)
      BY <3>3 DEF Opened
    <3>5. ASSUME NEW i \in 1 .. intact PROVE frames[i] = Arrives(upSent[i])
      <4>1. i \in DOMAIN s /\ s[i] = P[i + 2] /\ 2 + i = i + 2 /\ upSent[i] \in Nodes /\ i - 1 \in Nat
        BY <3>1, <3>2, <3>3 DEF TransportTypes
      <4>2. P[i + 2] = Sealed(PeerKeys.read, i - 1, encode_node(upSent[i]))
        BY <2>2 DEF Outbound, P
      <4>3. encode_node(upSent[i]) \in Bytes /\ decode_node(encode_node(upSent[i])) = Arrives(upSent[i])
        BY <4>1 DEF CodecRoundTrips, Bytes
      <4>4. Head(s[i]) = KeyNo(PeerKeys.read) + (i - 1) /\ Tail(s[i]) = encode_node(upSent[i])
        <5> DEFINE x == Sealed(PeerKeys.read, i - 1, encode_node(upSent[i]))
        <5>1. Head(x) = KeyNo(PeerKeys.read) + (i - 1) /\ Tail(x) = encode_node(upSent[i])
          BY <4>1, <4>3, SealedIs
        <5>2. s[i] = x
          BY <4>1, <4>2
        <5> HIDE DEF x
        <5> QED
          BY <5>1, <5>2
      <4>5. KeyNo(PeerKeys.read) + (i - 1) = KeyNo(PeerKeys.read) + i - 1
        BY KeyNumbers
      <4> QED
        BY <4>1, <4>3, <4>4, <4>5 DEF Opened
    <3>6. Len(frames) >= intact
      BY <3>1, <3>2, <3>4
    <3> HIDE DEF frames
    <3> QED
      BY <3>5, <3>6 DEF frames, s, P
  <2> QED
    BY <2>1, <2>2 DEF OutgoingReadable
<1> QED
  BY <1>1, TransportInvariance, PTL

\* The connection implements the reliable channel: its reader takes what the
\* server has sent, in order, each node once and as the codec's reference says,
\* wherever the network cuts the bytes and whatever frames the client sends.
THEOREM ImplementsReliableChannel == CodecRoundTrips => (TransportSpec => Channel!Spec)
<1> SUFFICES ASSUME CodecRoundTrips PROVE TransportSpec => Channel!Spec
  OBVIOUS
<1>1. TransportInit => Channel!Init
  BY DEF TransportInit, Channel!Init
<1>2. TransportInv /\ [TransportNext]_transportVars => [Channel!Next]_Channel!vars
  <2> SUFFICES ASSUME TransportInv, [TransportNext]_transportVars PROVE [Channel!Next]_Channel!vars
    OBVIOUS
  <2>1. ASSUME UNCHANGED <<downSent, handled, socket>> PROVE [Channel!Next]_Channel!vars
    BY <2>1 DEF Channel!vars
  <2>2. ASSUME UNCHANGED <<downSent, handled>>, socket = "up", socket' = "down" PROVE Channel!End
    BY <2>2 DEF Channel!End
  <2>3. CASE SendHello
    BY <2>1, <2>3 DEF SendHello, inVars
  <2>4. CASE PeerAnswers
    BY <2>1, <2>4 DEF PeerAnswers
  <2>5. CASE EndHandshake
    BY <2>1, <2>5 DEF EndHandshake
  <2>6. CASE FailHandshake
    <3>1. UNCHANGED <<downSent, handled>> /\ socket' = "down"
      BY <2>6 DEF FailHandshake
    <3>2. socket \in {"up", "down"}
      BY DEF TransportInv, TransportTypes
    <3> QED
      BY <2>1, <2>2, <3>1, <3>2 DEF Channel!Next
  <2>7. CASE PeerOpens
    BY <2>1, <2>7 DEF PeerOpens, inVars
  <2>8. ASSUME NEW n \in Nodes, SendNode(n) PROVE [Channel!Next]_Channel!vars
    BY <2>1, <2>8 DEF SendNode, inVars
  <2>9. ASSUME NEW n \in Nodes, PeerSends(n) PROVE [Channel!Next]_Channel!vars
    <3>1. socket = "up" /\ Len(upSent) + Len(downSent) < MaxSends /\ downSent' = Append(downSent, n) /\ UNCHANGED <<handled, socket>>
      BY <2>9 DEF PeerSends, Sends
    <3>2. Len(downSent) < MaxSends
      <4>1. Len(upSent) \in Nat /\ Len(downSent) \in Nat
        BY DEF TransportInv, TransportTypes
      <4> QED
        BY <3>1, <4>1, TransportAssumption
    <3>3. Channel!Send(n)
      BY <3>1, <3>2 DEF Channel!Send
    <3> QED
      BY <3>3 DEF Channel!Next
  <2>10. ASSUME NEW k, ReadPump(k) PROVE [Channel!Next]_Channel!vars
    BY <2>1, <2>10 DEF ReadPump
  <2>11. CASE Read
    <3>1. /\ UNCHANGED <<downSent, socket>> /\ Len(handled) < Len(downSent)
          /\ handled' = Append(handled, Arrives(downSent[Len(handled) + 1]))
      BY <2>11, ReadInv
    <3>2. Channel!Take
      BY <3>1 DEF Channel!Take
    <3> QED
      BY <3>2 DEF Channel!Next
  <2>12. CASE Disconnect
    BY <2>2, <2>12 DEF Disconnect, inVars, Channel!Next
  <2>13. CASE UNCHANGED transportVars
    BY <2>1, <2>13 DEF transportVars, inVars
  <2> QED
    BY <2>3, <2>4, <2>5, <2>6, <2>7, <2>8, <2>9, <2>10, <2>11, <2>12, <2>13 DEF TransportNext
<1> QED
  BY <1>1, <1>2, TransportInvariance, PTL DEF TransportSpec, Channel!Spec

(***************************************************************************)
(* The reader above it: WaSession.                                         *)
(***************************************************************************)
\* Frames that wait for the reader.
Frames       == ({"mail"} \X Messages) \cup {<<"eof", 0>>}
IncomingType == incoming \in Seq(Frames)

\* A connection that is gone carries nothing.
Severed == /\ pc = "off" => link = "down"
           /\ link = "down" => sent = {} /\ acks = {}

\* What the reader is doing follows from the kind of the stanza in hand.
StepFits ==
  /\ pc = "pk" => Kind[cur] \in {"direct", "skdm", "history", "bad"}
  /\ pc = "skdm" => Kind[cur] = "skdm"
  /\ pc = "sk" => Kind[cur] \in {"group", "skdm"}
  /\ pc = "keep" => cur \in Content
  /\ pc = "receipt" => Kind[cur] \notin {"notice", "ping"}
  /\ pc = "extra" => Kind[cur] = "history"
  /\ hist => Kind[cur] = "history" /\ kept[cur] = 1

\* What is cached came out of a ratchet that will not open it again.
Part(m) == IF Kind[m] \in {"skdm", "group"} THEN "sk" ELSE "pk"
CachedOnce ==
  /\ \A m \in Messages : kept[m] <= 1 /\ (kept[m] = 1 => <<m, Part(m)>> \in consumed)
  /\ pc = "keep" => kept[cur] = 0 /\ <<cur, Part(cur)>> \in consumed

\* What a ratchet has consumed is cached, lost to a fault, or in hand; the
\* same for a sender key.
Settled(m) ==
  \/ kept[m] > 0
  \/ m \in torn
  \/ Kind[m] = "group" /\ (Skdm[m] \in torn \/ Skdm[m] > m)
Met(m) == <<m, "pk">> \in consumed
ConsumedIsSettled ==
  /\ \A m \in Content : <<m, Part(m)>> \in consumed => Settled(m) \/ (pc = "keep" /\ cur = m)
  /\ \A m \in Messages : Kind[m] = "skdm" /\ Met(m) => m \in installed \/ m \in torn \/ (pc = "skdm" /\ cur = m)
  /\ pc \in Busy \ {"pk"} /\ Kind[cur] = "skdm" => Met(cur)

\* Sender keys are met in the order in which the server sends them: before
\* any message that follows them is taken in hand.
InTurn(n)    == Met(n) \/ (pc = "pk" /\ cur = n)
Queued(n, k) == \E i \in 1 .. k : incoming[i] = <<"mail", n>>
KeyFirst(n)  ==
  /\ pc \in Busy /\ n < cur => Met(n)
  /\ \A j \in 1 .. Len(incoming) :
       incoming[j][1] = "mail" /\ n < incoming[j][2] => InTurn(n) \/ Queued(n, j - 1)
  /\ n \in sent => InTurn(n) \/ Queued(n, Len(incoming))
KeysComeFirst == \A n \in Messages : Kind[n] = "skdm" => KeyFirst(n)

\* The server forgets what has been settled.
AckedIsSettled ==
  /\ pc \in {"ack", "receipt", "extra"} /\ cur \in Content => Settled(cur)
  /\ \A m \in Content : (m \notin server \/ m \in acks) => Settled(m) /\ (Kind[m] = "skdm" => Met(m))

IInv == /\ TypeOK /\ IncomingType /\ Severed /\ StepFits /\ CachedOnce /\ ConsumedIsSettled
        /\ KeysComeFirst /\ AckedIsSettled /\ HistReceiptMeansSaved

\* The invariant holds before the first connection.
LEMMA InitInv == Init => IInv
<1> SUFFICES ASSUME Init PROVE IInv
  OBVIOUS
<1> USE SessionAssumption
<1>1. TypeOK
  <2>1. pc = "off" /\ cur = 0 /\ hist = FALSE /\ pc \notin Busy
    BY DEF Init, Busy
  <2>2. kept \in [Messages -> Nat] /\ faults \in 0 .. MaxFaults
    BY DEF Init
  <2> QED
    BY <2>1, <2>2 DEF Init, TypeOK
<1>2. Severed /\ StepFits
  BY DEF Init, Severed, StepFits
<1>4. CachedOnce /\ ConsumedIsSettled
  BY DEF Init, CachedOnce, ConsumedIsSettled, Busy, Met
<1>5. Len(incoming) = 0
  BY DEF Init
<1>6. KeysComeFirst
  BY <1>5 DEF Init, KeysComeFirst, KeyFirst, Busy
<1>7. AckedIsSettled /\ HistReceiptMeansSaved
  BY DEF Init, AckedIsSettled, HistReceiptMeansSaved, Content
<1>3. IncomingType
  BY DEF Init, IncomingType
<1> QED
  BY <1>1, <1>2, <1>3, <1>4, <1>6, <1>7 DEF IInv

\* A frame that arrives behind the others leaves the sender keys in turn.
LEMMA KeysAppended ==
  ASSUME IncomingType, NEW f \in Frames, incoming' = Append(incoming, f), UNCHANGED <<pc, cur, consumed>>,
         NEW n \in Messages, KeyFirst(n),
         n \in sent' => n \in sent \/ f = <<"mail", n>>,
         f[1] = "mail" /\ n < f[2] => InTurn(n) \/ Queued(n, Len(incoming))
  PROVE  KeyFirst(n)'
<1>1. /\ Len(incoming) \in Nat /\ Len(incoming') = Len(incoming) + 1 /\ incoming'[Len(incoming) + 1] = f
      /\ \A i \in 1 .. Len(incoming) : incoming'[i] = incoming[i]
  BY DEF IncomingType
<1>2. ASSUME NEW k \in 0 .. Len(incoming), Queued(n, k) PROVE \A l \in k .. Len(incoming') : Queued(n, l)'
  <2>1. PICK i \in 1 .. k : incoming[i] = <<"mail", n>>
    BY <1>2 DEF Queued
  <2>2. i \in 1 .. Len(incoming) /\ incoming'[i] = <<"mail", n>>
    BY <1>1, <2>1
  <2> QED
    BY <2>2, <2>1, <1>1 DEF Queued
<1>3. (InTurn(n) => InTurn(n)') /\ (Met(n) => Met(n)')
  BY DEF InTurn, Met
<1>4. ASSUME NEW j \in 1 .. Len(incoming'), incoming'[j][1] = "mail", n < incoming'[j][2]
      PROVE  InTurn(n)' \/ Queued(n, j - 1)'
  <2>1. j - 1 \in 0 .. Len(incoming) /\ j - 1 \in j - 1 .. Len(incoming')
    BY <1>1
  <2>2. InTurn(n) \/ Queued(n, j - 1)
    BY <1>1, <1>4 DEF KeyFirst
  <2> QED
    BY <1>2, <1>3, <2>1, <2>2
<1>5. n \in sent' => InTurn(n)' \/ Queued(n, Len(incoming))'
  <2>1. CASE f = <<"mail", n>>
    BY <1>1, <2>1 DEF Queued
  <2>2. CASE n \in sent
    <3>1. Len(incoming) \in 0 .. Len(incoming) /\ Len(incoming') \in Len(incoming) .. Len(incoming')
      BY <1>1
    <3> QED
      BY <1>2, <1>3, <2>2, <3>1 DEF KeyFirst
  <2> QED
    BY <2>1, <2>2
<1> QED
  BY <1>3, <1>4, <1>5 DEF KeyFirst

\* Taking the first frame in hand leaves the sender keys in turn.
LEMMA KeysTaken ==
  ASSUME IncomingType, incoming # <<>>, incoming' = Tail(incoming), UNCHANGED <<consumed, sent>>,
         NEW n \in Messages, KeyFirst(n), InTurn(n) => InTurn(n)',
         incoming[1] = <<"mail", n>> => InTurn(n)',
         pc \notin Busy, pc' \in Busy => incoming[1][1] = "mail" /\ cur' = incoming[1][2]
  PROVE  KeyFirst(n)'
<1>1. /\ Len(incoming) \in Nat \ {0} /\ Len(incoming') = Len(incoming) - 1
      /\ \A i \in 1 .. Len(incoming) : i # 1 => incoming'[i - 1] = incoming[i]
  BY DEF IncomingType
<1>2. ASSUME NEW k \in 1 .. Len(incoming), Queued(n, k) PROVE InTurn(n)' \/ Queued(n, k - 1)'
  <2>1. PICK i \in 1 .. k : incoming[i] = <<"mail", n>>
    BY <1>2 DEF Queued
  <2>2. CASE i # 1
    <3>1. i \in 1 .. Len(incoming) /\ i - 1 \in 1 .. k - 1
      BY <1>1, <2>1, <2>2
    <3>2. incoming'[i - 1] = <<"mail", n>>
      BY <1>1, <2>1, <2>2, <3>1
    <3> QED
      BY <3>1, <3>2 DEF Queued
  <2> QED
    BY <2>1, <2>2
<1>3. ASSUME NEW j \in 1 .. Len(incoming'), incoming'[j][1] = "mail", n < incoming'[j][2]
      PROVE  InTurn(n)' \/ Queued(n, j - 1)'
  <2>1. j \in 1 .. Len(incoming) /\ j + 1 \in 1 .. Len(incoming) /\ j + 1 # 1 /\ (j + 1) - 1 = j
    BY <1>1
  <2>2. incoming'[j] = incoming[j + 1]
    BY <1>1, <2>1
  <2>3. InTurn(n) \/ Queued(n, j)
    BY <1>3, <2>1, <2>2 DEF KeyFirst
  <2> QED
    BY <1>2, <2>1, <2>3
<1>4. pc' \in Busy /\ n < cur' => Met(n)'
  <2>1. 1 \in 1 .. Len(incoming) /\ ~Queued(n, 1 - 1)
    BY <1>1 DEF Queued
  <2>2. InTurn(n) => Met(n)'
    BY DEF InTurn, Met, Busy
  <2> QED
    BY <2>1, <2>2 DEF KeyFirst
<1>5. n \in sent' => InTurn(n)' \/ Queued(n, Len(incoming))'
  <2>1. Len(incoming) \in 1 .. Len(incoming) /\ Len(incoming') = Len(incoming) - 1
    BY <1>1
  <2> QED
    BY <1>2, <2>1 DEF KeyFirst
<1> QED
  BY <1>3, <1>4, <1>5 DEF KeyFirst

\* The first frame is a stanza of the server or the end of the stream.
LEMMA HeadOf ==
  ASSUME IncomingType, incoming # <<>>
  PROVE  incoming[1] \in Frames /\ (incoming[1][1] = "mail" => incoming[1][2] \in Messages)
<1>1. incoming[1] \in Frames
  BY DEF IncomingType
<1> QED
  BY <1>1 DEF Frames

\* Every step of the server, the reader and the session keeps it.
LEMMA StepInv == IInv /\ [Next]_vars => IInv'
<1> SUFFICES ASSUME IInv, [Next]_vars PROVE IInv'
  OBVIOUS
<1> USE SessionAssumption DEF IInv, TypeOK, Busy, Content, vars, serverVars, socketVars,
        readerVars, diskVars, historyVars
<1>1. ASSUME Connect PROVE IInv'
  <2>1. TypeOK'
    BY <1>1 DEF Connect, StepFits, IncomingType
  <2>2. IncomingType'
    BY <1>1 DEF Connect, IncomingType
  <2>3. Severed' /\ StepFits'
    BY <1>1 DEF Connect, Severed, StepFits, CachedOnce
  <2>4. CachedOnce'
    BY <1>1 DEF Connect, StepFits, CachedOnce, Part
  <2>5. ConsumedIsSettled'
    BY <1>1 DEF Connect, StepFits, CachedOnce, ConsumedIsSettled, Part, Settled, Met
  <2>6. KeysComeFirst'
    <3>1. /\ Len(incoming') = 0 /\ sent' = {} /\ pc' \notin Busy
      BY <1>1 DEF Connect, Severed
    <3> QED
      BY <3>1 DEF KeysComeFirst, KeyFirst
  <2>7. AckedIsSettled'
    BY <1>1 DEF Connect, AckedIsSettled, Settled, Met
  <2>8. HistReceiptMeansSaved'
    BY <1>1 DEF Connect, StepFits, CachedOnce, HistReceiptMeansSaved
  <2> QED
    BY <2>1, <2>2, <2>3, <2>4, <2>5, <2>6, <2>7, <2>8
<1>2. ASSUME NEW m \in Messages, Deliver(m) PROVE IInv'
  <2>1. TypeOK'
    BY <1>2 DEF Deliver, Receive, StepFits, IncomingType
  <2>2. IncomingType'
    BY <1>2 DEF Deliver, Receive, IncomingType, Frames
  <2>3. Severed' /\ StepFits'
    BY <1>2 DEF Deliver, Receive, Severed, StepFits, CachedOnce
  <2>4. CachedOnce'
    BY <1>2 DEF Deliver, Receive, StepFits, CachedOnce, Part
  <2>5. ConsumedIsSettled'
    BY <1>2 DEF Deliver, ConsumedIsSettled, Settled, Met
  <2>6. KeysComeFirst'
    <3> SUFFICES ASSUME NEW n \in Messages, Kind[n] = "skdm" PROVE KeyFirst(n)'
      BY DEF KeysComeFirst
    <3>1. n < m => InTurn(n) \/ Queued(n, Len(incoming))
      BY <1>2 DEF Deliver, Messages, AckedIsSettled, KeysComeFirst, KeyFirst, InTurn
    <3>2. <<"mail", m>> \in Frames /\ incoming' = Append(incoming, <<"mail", m>>) /\ sent' = sent \cup {m}
          /\ UNCHANGED <<pc, cur, consumed>> /\ KeyFirst(n)
      BY <1>2 DEF Deliver, Receive, Frames, KeysComeFirst
    <3> QED
      BY <3>1, <3>2, KeysAppended
  <2>7. AckedIsSettled'
    BY <1>2 DEF Deliver, AckedIsSettled, Settled, Met
  <2>8. HistReceiptMeansSaved'
    BY <1>2 DEF Deliver, Receive, StepFits, CachedOnce, HistReceiptMeansSaved
  <2> QED
    BY <2>1, <2>2, <2>3, <2>4, <2>5, <2>6, <2>7, <2>8
<1>3. ASSUME NEW m \in Messages, ServerAck(m) PROVE IInv'
  <2>1. TypeOK'
    BY <1>3 DEF ServerAck, StepFits, IncomingType
  <2>2. IncomingType'
    BY <1>3 DEF ServerAck, IncomingType
  <2>3. Severed' /\ StepFits'
    BY <1>3 DEF ServerAck, Severed, StepFits, CachedOnce
  <2>4. CachedOnce'
    BY <1>3 DEF ServerAck, StepFits, CachedOnce, Part
  <2>5. ConsumedIsSettled'
    BY <1>3 DEF ServerAck, StepFits, CachedOnce, ConsumedIsSettled, Part, Settled, Met
  <2>6. KeysComeFirst'
    BY <1>3 DEF ServerAck, KeysComeFirst, KeyFirst, InTurn, Queued, Met
  <2>7. AckedIsSettled'
    BY <1>3 DEF ServerAck, AckedIsSettled, Settled, Met
  <2>8. HistReceiptMeansSaved'
    BY <1>3 DEF ServerAck, StepFits, CachedOnce, HistReceiptMeansSaved
  <2> QED
    BY <2>1, <2>2, <2>3, <2>4, <2>5, <2>6, <2>7, <2>8
<1>4. ASSUME LoseLink PROVE IInv'
  <2>1. TypeOK'
    BY <1>4 DEF LoseLink, Fault, Hangup, Pings, StepFits, IncomingType
  <2>2. IncomingType'
    BY <1>4 DEF LoseLink, Fault, Hangup, Pings, IncomingType, Frames
  <2>3. Severed' /\ StepFits'
    BY <1>4 DEF LoseLink, Fault, Hangup, Pings, Severed, StepFits, CachedOnce
  <2>4. CachedOnce'
    BY <1>4 DEF LoseLink, Fault, Hangup, Pings, StepFits, CachedOnce, Part
  <2>5. ConsumedIsSettled'
    BY <1>4 DEF LoseLink, ConsumedIsSettled, Settled, Met
  <2>6. KeysComeFirst'
    <3> SUFFICES ASSUME NEW n \in Messages, Kind[n] = "skdm" PROVE KeyFirst(n)'
      BY DEF KeysComeFirst
    <3>1. <<"eof", 0>> \in Frames /\ incoming' = Append(incoming, <<"eof", 0>>) /\ sent' = {}
          /\ UNCHANGED <<pc, cur, consumed>> /\ KeyFirst(n)
      BY <1>4 DEF LoseLink, Hangup, Frames, KeysComeFirst
    <3> QED
      BY <3>1, KeysAppended
  <2>7. AckedIsSettled'
    BY <1>4 DEF LoseLink, Hangup, Pings, AckedIsSettled, Settled, Met
  <2>8. HistReceiptMeansSaved'
    BY <1>4 DEF LoseLink, Fault, Hangup, Pings, StepFits, CachedOnce, HistReceiptMeansSaved
  <2> QED
    BY <2>1, <2>2, <2>3, <2>4, <2>5, <2>6, <2>7, <2>8
<1>5. ASSUME HandleMail PROVE IInv'
  <2>1. TypeOK'
    <3>1. cur' \in Messages /\ pc' \in Busy /\ hist' = FALSE /\ link' = link
      BY <1>5, HeadOf DEF HandleMail, Reads, Consume, FirstStep
    <3> QED
      BY <1>5, <3>1 DEF HandleMail
  <2>2. IncomingType'
    BY <1>5 DEF HandleMail, Reads, Consume, FirstStep, Frames, IncomingType
  <2>3. Severed' /\ StepFits'
    <3>1. cur' \in Messages /\ pc' = FirstStep(cur') /\ pc = "idle" /\ hist' = FALSE /\ link' = link
          /\ UNCHANGED <<sent, acks, kept>>
      BY <1>5, HeadOf DEF HandleMail, Reads, Consume
    <3> QED
      BY <3>1 DEF FirstStep, Severed, StepFits, Kinds
  <2>4. CachedOnce'
    BY <1>5 DEF HandleMail, FirstStep, CachedOnce
  <2>5. ConsumedIsSettled'
    BY <1>5 DEF HandleMail, Reads, FirstStep, ConsumedIsSettled, Settled, Met
  <2>6. KeysComeFirst'
    <3> SUFFICES ASSUME NEW n \in Messages, Kind[n] = "skdm" PROVE KeyFirst(n)'
      BY DEF KeysComeFirst
    <3>1. /\ incoming' = Tail(incoming) /\ cur' = incoming[1][2] /\ UNCHANGED <<consumed, sent>>
          /\ pc \notin Busy /\ incoming # <<>> /\ incoming[1][1] = "mail" /\ KeyFirst(n)
      BY <1>5 DEF HandleMail, Reads, Consume, KeysComeFirst
    <3>2. incoming[1] = <<"mail", n>> => InTurn(n)'
      BY <1>5, <3>1 DEF HandleMail, FirstStep, InTurn
    <3>3. InTurn(n) => InTurn(n)'
      BY <3>1 DEF InTurn, Met
    <3> QED
      BY <3>1, <3>2, <3>3, KeysTaken
  <2>7. AckedIsSettled'
    BY <1>5 DEF HandleMail, FirstStep, AckedIsSettled, Settled, Met
  <2>8. HistReceiptMeansSaved'
    BY <1>5 DEF HandleMail, HistReceiptMeansSaved
  <2> QED
    BY <2>1, <2>2, <2>3, <2>4, <2>5, <2>6, <2>7, <2>8
<1>6. ASSUME HandleEof PROVE IInv'
  <2>1. TypeOK'
    BY <1>6 DEF HandleEof, Reads, Consume, Frames, StepFits, IncomingType
  <2>2. IncomingType'
    BY <1>6 DEF HandleEof, Reads, Consume, Frames, IncomingType
  <2>3. Severed' /\ StepFits'
    BY <1>6 DEF HandleEof, Reads, Consume, Frames, Severed, StepFits, CachedOnce
  <2>4. CachedOnce'
    BY <1>6 DEF HandleEof, Reads, Consume, Frames, StepFits, CachedOnce, Part
  <2>5. ConsumedIsSettled'
    BY <1>6 DEF HandleEof, Reads, ConsumedIsSettled, Settled, Met
  <2>6. KeysComeFirst'
    <3> SUFFICES ASSUME NEW n \in Messages, Kind[n] = "skdm" PROVE KeyFirst(n)'
      BY DEF KeysComeFirst
    <3>1. /\ incoming' = Tail(incoming) /\ UNCHANGED <<consumed, sent>> /\ pc \notin Busy /\ pc' \notin Busy
          /\ incoming # <<>> /\ incoming[1] # <<"mail", n>> /\ KeyFirst(n)
      BY <1>6 DEF HandleEof, Reads, Consume, KeysComeFirst
    <3>2. InTurn(n) => InTurn(n)'
      BY <3>1 DEF InTurn, Met
    <3> QED
      BY <3>1, <3>2, KeysTaken
  <2>7. AckedIsSettled'
    BY <1>6 DEF HandleEof, AckedIsSettled, Settled, Met
  <2>8. HistReceiptMeansSaved'
    BY <1>6 DEF HandleEof, Reads, Consume, Frames, StepFits, CachedOnce, HistReceiptMeansSaved
  <2> QED
    BY <2>1, <2>2, <2>3, <2>4, <2>5, <2>6, <2>7, <2>8
<1>7. ASSUME DecryptPk PROVE IInv'
  <2>1. TypeOK'
    BY <1>7 DEF DecryptPk, PersistRatchet, Step, StepFits, IncomingType
  <2>2. IncomingType'
    BY <1>7 DEF DecryptPk, PersistRatchet, Step, IncomingType
  <2>3. Severed' /\ StepFits'
    BY <1>7 DEF DecryptPk, PersistRatchet, Step, Severed, StepFits, CachedOnce
  <2>4. CachedOnce'
    BY <1>7 DEF DecryptPk, PersistRatchet, Step, StepFits, CachedOnce, Part
  <2>5. ConsumedIsSettled'
    BY <1>7 DEF DecryptPk, PersistRatchet, Step, ConsumedIsSettled, Part, Settled, Met
  <2>6. KeysComeFirst'
    BY <1>7 DEF DecryptPk, PersistRatchet, Step, KeysComeFirst, KeyFirst, InTurn, Queued, Met
  <2>7. AckedIsSettled'
    BY <1>7 DEF DecryptPk, PersistRatchet, Step, AckedIsSettled, Settled, Met
  <2>8. HistReceiptMeansSaved'
    BY <1>7 DEF DecryptPk, PersistRatchet, Step, StepFits, CachedOnce, HistReceiptMeansSaved
  <2> QED
    BY <2>1, <2>2, <2>3, <2>4, <2>5, <2>6, <2>7, <2>8
<1>8. ASSUME DecryptPkFails PROVE IInv'
  <2>1. TypeOK'
    BY <1>8 DEF DecryptPkFails, Step, AfterBadPk, StepFits, IncomingType
  <2>2. IncomingType'
    BY <1>8 DEF DecryptPkFails, Step, AfterBadPk, IncomingType
  <2>3. Severed' /\ StepFits'
    BY <1>8 DEF DecryptPkFails, Step, AfterBadPk, Severed, StepFits, CachedOnce
  <2>4. CachedOnce'
    BY <1>8 DEF DecryptPkFails, Step, AfterBadPk, StepFits, CachedOnce, Part
  <2>5. ConsumedIsSettled'
    BY <1>8 DEF DecryptPkFails, Step, ConsumedIsSettled, Settled, Met
  <2>6. KeysComeFirst'
    BY <1>8 DEF DecryptPkFails, Step, KeysComeFirst, KeyFirst, InTurn, Queued, Met
  <2>7. AckedIsSettled'
    BY <1>8 DEF DecryptPkFails, Step, AfterBadPk, StepFits, ConsumedIsSettled, AckedIsSettled,
       Settled, Met,
      Part
  <2>8. HistReceiptMeansSaved'
    BY <1>8 DEF DecryptPkFails, Step, AfterBadPk, StepFits, CachedOnce, HistReceiptMeansSaved
  <2> QED
    BY <2>1, <2>2, <2>3, <2>4, <2>5, <2>6, <2>7, <2>8
<1>9. ASSUME InstallSenderKey PROVE IInv'
  <2>1. TypeOK'
    BY <1>9 DEF InstallSenderKey, Step, StepFits, IncomingType
  <2>2. IncomingType'
    BY <1>9 DEF InstallSenderKey, Step, IncomingType
  <2>3. Severed' /\ StepFits'
    BY <1>9 DEF InstallSenderKey, Step, Severed, StepFits, CachedOnce
  <2>4. CachedOnce'
    BY <1>9 DEF InstallSenderKey, Step, StepFits, CachedOnce, Part
  <2>5. ConsumedIsSettled'
    BY <1>9 DEF InstallSenderKey, Step, ConsumedIsSettled, Settled, Met
  <2>6. KeysComeFirst'
    BY <1>9 DEF InstallSenderKey, Step, KeysComeFirst, KeyFirst, InTurn, Queued, Met
  <2>7. AckedIsSettled'
    BY <1>9 DEF InstallSenderKey, Step, AckedIsSettled, Settled, Met
  <2>8. HistReceiptMeansSaved'
    BY <1>9 DEF InstallSenderKey, Step, StepFits, CachedOnce, HistReceiptMeansSaved
  <2> QED
    BY <2>1, <2>2, <2>3, <2>4, <2>5, <2>6, <2>7, <2>8
<1>10. ASSUME DecryptSk PROVE IInv'
  <2>1. TypeOK'
    BY <1>10 DEF DecryptSk, PersistRatchet, Step, Opens, StepFits, IncomingType
  <2>2. IncomingType'
    BY <1>10 DEF DecryptSk, PersistRatchet, Step, Opens, IncomingType
  <2>3. Severed' /\ StepFits'
    BY <1>10 DEF DecryptSk, PersistRatchet, Step, Opens, Severed, StepFits, CachedOnce
  <2>4. CachedOnce'
    BY <1>10 DEF DecryptSk, PersistRatchet, Step, Opens, StepFits, CachedOnce, Part
  <2>5. ConsumedIsSettled'
    BY <1>10 DEF DecryptSk, PersistRatchet, Step, ConsumedIsSettled, Settled, Met
  <2>6. KeysComeFirst'
    BY <1>10 DEF DecryptSk, PersistRatchet, Step, KeysComeFirst, KeyFirst, InTurn, Queued, Met
  <2>7. AckedIsSettled'
    BY <1>10 DEF DecryptSk, PersistRatchet, Step, AckedIsSettled, Settled, Met
  <2>8. HistReceiptMeansSaved'
    BY <1>10 DEF DecryptSk, HistReceiptMeansSaved
  <2> QED
    BY <2>1, <2>2, <2>3, <2>4, <2>5, <2>6, <2>7, <2>8
<1>11. ASSUME DecryptSkFails PROVE IInv'
  <2>1. TypeOK'
    BY <1>11 DEF DecryptSkFails, Step, Opens, StepFits, IncomingType
  <2>2. IncomingType'
    BY <1>11 DEF DecryptSkFails, Step, Opens, IncomingType
  <2>3. Severed' /\ StepFits'
    BY <1>11 DEF DecryptSkFails, Step, Opens, Severed, StepFits, CachedOnce
  <2>4. CachedOnce'
    BY <1>11 DEF DecryptSkFails, Step, Opens, StepFits, CachedOnce, Part
  <2>5. ConsumedIsSettled'
    BY <1>11 DEF DecryptSkFails, Step, ConsumedIsSettled, Settled, Met
  <2>6. KeysComeFirst'
    BY <1>11 DEF DecryptSkFails, Step, KeysComeFirst, KeyFirst, InTurn, Queued, Met
  <2>7. AckedIsSettled'
    <3>1. ASSUME cur \in Content PROVE Settled(cur)
      <4>1. cur \in Messages /\ Kind[cur] \in {"group", "skdm"} /\ Part(cur) = "sk" /\ pc = "sk" /\ ~Opens(cur)
        BY <1>11 DEF DecryptSkFails, StepFits, Part
      <4>2. CASE <<cur, "sk">> \in consumed
        BY <3>1, <4>1, <4>2 DEF ConsumedIsSettled
      <4>3. CASE Skdm[cur] \notin installed
        <5>1. Skdm[cur] \in Messages /\ Kind[Skdm[cur]] = "skdm" /\ (Kind[cur] = "skdm" => Skdm[cur] = cur)
          BY <4>1
        <5>2. Met(Skdm[cur]) => Skdm[cur] \in torn
          BY <4>1, <4>3, <5>1 DEF ConsumedIsSettled
        <5>3. Kind[cur] = "skdm" => Met(cur)
          BY <4>1 DEF ConsumedIsSettled
        <5>4. Kind[cur] = "group" => Met(Skdm[cur]) \/ Skdm[cur] > cur
          BY <4>1, <5>1 DEF KeysComeFirst, KeyFirst, Messages
        <5> QED
          BY <4>1, <5>1, <5>2, <5>3, <5>4 DEF Settled
      <4> QED
        BY <4>1, <4>2, <4>3 DEF Opens
    <3> QED
      BY <1>11, <3>1 DEF DecryptSkFails, Step, AckedIsSettled, Settled, Met
  <2>8. HistReceiptMeansSaved'
    BY <1>11 DEF DecryptSkFails, Step, Opens, StepFits, CachedOnce, HistReceiptMeansSaved
  <2> QED
    BY <2>1, <2>2, <2>3, <2>4, <2>5, <2>6, <2>7, <2>8
<1>12. ASSUME Keep PROVE IInv'
  <2>1. TypeOK'
    BY <1>12 DEF Keep, Step, StepFits, IncomingType
  <2>2. IncomingType'
    BY <1>12 DEF Keep, Step, IncomingType
  <2>3. Severed' /\ StepFits'
    BY <1>12 DEF Keep, Step, Severed, StepFits, CachedOnce
  <2>4. CachedOnce'
    BY <1>12 DEF Keep, Step, StepFits, CachedOnce, Part
  <2>5. ConsumedIsSettled'
    BY <1>12 DEF Keep, Step, ConsumedIsSettled, Settled, Met
  <2>6. KeysComeFirst'
    BY <1>12 DEF Keep, Step, KeysComeFirst, KeyFirst, InTurn, Queued, Met
  <2>7. AckedIsSettled'
    BY <1>12 DEF Keep, Step, AckedIsSettled, Settled, Met
  <2>8. HistReceiptMeansSaved'
    BY <1>12 DEF Keep, Step, StepFits, CachedOnce, HistReceiptMeansSaved
  <2> QED
    BY <2>1, <2>2, <2>3, <2>4, <2>5, <2>6, <2>7, <2>8
<1>13. ASSUME KeepFails PROVE IInv'
  <2>1. TypeOK'
    <3>1. cur \in Messages /\ hist' = FALSE /\ pc' = "ack" /\ cur' = cur /\ torn' = torn \cup {cur}
      BY <1>13 DEF KeepFails, Step, HistWhenUnsaved
    <3>2. faults' \in 0 .. MaxFaults
      BY <1>13 DEF KeepFails, Fault
    <3> QED
      BY <1>13, <3>1, <3>2 DEF KeepFails
  <2>2. IncomingType'
    BY <1>13 DEF KeepFails, Step, Fault, HistWhenUnsaved, IncomingType
  <2>3. Severed' /\ StepFits'
    BY <1>13 DEF KeepFails, Step, Fault, HistWhenUnsaved, Severed, StepFits, CachedOnce
  <2>4. CachedOnce'
    BY <1>13 DEF KeepFails, Step, Fault, HistWhenUnsaved, StepFits, CachedOnce, Part
  <2>5. ConsumedIsSettled'
    BY <1>13 DEF KeepFails, Step, ConsumedIsSettled, Settled, Met
  <2>6. KeysComeFirst'
    BY <1>13 DEF KeepFails, Step, KeysComeFirst, KeyFirst, InTurn, Queued, Met
  <2>7. AckedIsSettled'
    BY <1>13 DEF KeepFails, Step, AckedIsSettled, Settled, Met
  <2>8. HistReceiptMeansSaved'
    BY <1>13 DEF KeepFails, HistReceiptMeansSaved
  <2> QED
    BY <2>1, <2>2, <2>3, <2>4, <2>5, <2>6, <2>7, <2>8
<1>14. ASSUME SendAck PROVE IInv'
  <2>1. TypeOK'
    BY <1>14 DEF SendAck, Step, Finished, StepFits, IncomingType
  <2>2. IncomingType'
    BY <1>14 DEF SendAck, Step, Finished, IncomingType
  <2>3. Severed' /\ StepFits'
    BY <1>14 DEF SendAck, Step, Finished, Severed, StepFits, CachedOnce
  <2>4. CachedOnce'
    BY <1>14 DEF SendAck, Step, Finished, StepFits, CachedOnce, Part
  <2>5. ConsumedIsSettled'
    BY <1>14 DEF SendAck, Step, Finished, ConsumedIsSettled, Settled, Met
  <2>6. KeysComeFirst'
    BY <1>14 DEF SendAck, Step, Finished, KeysComeFirst, KeyFirst, InTurn, Queued, Met
  <2>7. AckedIsSettled'
    BY <1>14 DEF SendAck, Step, Finished, ConsumedIsSettled, AckedIsSettled, Settled, Met
  <2>8. HistReceiptMeansSaved'
    BY <1>14 DEF SendAck, Step, Finished, StepFits, CachedOnce, HistReceiptMeansSaved
  <2> QED
    BY <2>1, <2>2, <2>3, <2>4, <2>5, <2>6, <2>7, <2>8
<1>15. ASSUME SendReceipt PROVE IInv'
  <2>1. TypeOK'
    <3>1. cur \in Messages /\ receipts' \subseteq Messages \X {"delivery", "peer_msg", "hist_sync"}
      BY <1>15 DEF SendReceipt
    <3>2. IF pc' \in Busy THEN cur' \in Messages ELSE cur' = 0 /\ ~hist'
      BY <1>15, <3>1 DEF SendReceipt, Step, Finished
    <3>3. pc' \in {"idle", "extra"} /\ hist' \in BOOLEAN
      BY <1>15 DEF SendReceipt, Step, Finished
    <3> QED
      BY <1>15, <3>1, <3>2, <3>3 DEF SendReceipt
  <2>2. IncomingType'
    BY <1>15 DEF SendReceipt, Step, Finished, IncomingType
  <2>3. Severed' /\ StepFits'
    BY <1>15 DEF SendReceipt, Step, Finished, Severed, StepFits, CachedOnce
  <2>4. CachedOnce'
    BY <1>15 DEF SendReceipt, Step, Finished, StepFits, CachedOnce, Part
  <2>5. ConsumedIsSettled'
    BY <1>15 DEF SendReceipt, Step, Finished, ConsumedIsSettled, Settled, Met
  <2>6. KeysComeFirst'
    BY <1>15 DEF SendReceipt, Step, Finished, StepFits, Severed, ConsumedIsSettled, KeysComeFirst,
       KeyFirst,
      InTurn, Queued, Met, IncomingType
  <2>7. AckedIsSettled'
    BY <1>15 DEF SendReceipt, Step, Finished, AckedIsSettled, Settled, Met
  <2>8. HistReceiptMeansSaved'
    BY <1>15 DEF SendReceipt, Step, Finished, StepFits, CachedOnce, HistReceiptMeansSaved
  <2> QED
    BY <2>1, <2>2, <2>3, <2>4, <2>5, <2>6, <2>7, <2>8
<1>16. ASSUME SendExtra PROVE IInv'
  <2>1. TypeOK'
    <3>1. cur \in Messages /\ receipts' \subseteq Messages \X {"delivery", "peer_msg", "hist_sync"}
      BY <1>16 DEF SendExtra
    <3>2. pc' = "idle" /\ cur' = 0 /\ hist' = FALSE
      BY <1>16 DEF SendExtra, Finished
    <3> QED
      BY <1>16, <3>1, <3>2 DEF SendExtra
  <2>2. IncomingType'
    BY <1>16 DEF SendExtra, Step, Finished, IncomingType
  <2>3. Severed' /\ StepFits'
    BY <1>16 DEF SendExtra, Step, Finished, Severed, StepFits, CachedOnce
  <2>4. CachedOnce'
    BY <1>16 DEF SendExtra, Step, Finished, StepFits, CachedOnce, Part
  <2>5. ConsumedIsSettled'
    BY <1>16 DEF SendExtra, Finished, ConsumedIsSettled, Settled, Met
  <2>6. KeysComeFirst'
    BY <1>16 DEF SendExtra, Finished, KeysComeFirst, KeyFirst, InTurn, Queued, Met
  <2>7. AckedIsSettled'
    BY <1>16 DEF SendExtra, Finished, AckedIsSettled, Settled, Met
  <2>8. HistReceiptMeansSaved'
    BY <1>16 DEF SendExtra, Step, Finished, StepFits, CachedOnce, HistReceiptMeansSaved
  <2> QED
    BY <2>1, <2>2, <2>3, <2>4, <2>5, <2>6, <2>7, <2>8
<1>17. ASSUME SendRaises PROVE IInv'
  <2>1. TypeOK'
    BY <1>17 DEF SendRaises, Finished, StepFits, IncomingType
  <2>2. IncomingType'
    BY <1>17 DEF SendRaises, Finished, IncomingType
  <2>3. Severed' /\ StepFits'
    BY <1>17 DEF SendRaises, Finished, Severed, StepFits, CachedOnce
  <2>4. CachedOnce'
    BY <1>17 DEF SendRaises, Finished, StepFits, CachedOnce, Part
  <2>5. ConsumedIsSettled'
    BY <1>17 DEF SendRaises, Finished, ConsumedIsSettled, Settled, Met
  <2>6. KeysComeFirst'
    BY <1>17 DEF SendRaises, Finished, KeysComeFirst, KeyFirst, InTurn, Queued, Met
  <2>7. AckedIsSettled'
    BY <1>17 DEF SendRaises, Finished, AckedIsSettled, Settled, Met
  <2>8. HistReceiptMeansSaved'
    BY <1>17 DEF SendRaises, Finished, StepFits, CachedOnce, HistReceiptMeansSaved
  <2> QED
    BY <2>1, <2>2, <2>3, <2>4, <2>5, <2>6, <2>7, <2>8
<1>18. ASSUME Stop PROVE IInv'
  <2>1. TypeOK'
    BY <1>18 DEF Stop, AwaitPoint, Hangup, Pings, StepFits, IncomingType
  <2>2. IncomingType'
    BY <1>18 DEF Stop, AwaitPoint, Hangup, Pings, IncomingType
  <2>3. Severed' /\ StepFits'
    BY <1>18 DEF Stop, AwaitPoint, Hangup, Pings, Severed, StepFits, CachedOnce
  <2>4. CachedOnce'
    BY <1>18 DEF Stop, AwaitPoint, Hangup, Pings, StepFits, CachedOnce, Part
  <2>5. ConsumedIsSettled'
    BY <1>18 DEF Stop, AwaitPoint, ConsumedIsSettled, Settled, Met
  <2>6. KeysComeFirst'
    BY <1>18 DEF Stop, Hangup, KeysComeFirst, KeyFirst
  <2>7. AckedIsSettled'
    BY <1>18 DEF Stop, Hangup, Pings, AckedIsSettled, Settled, Met
  <2>8. HistReceiptMeansSaved'
    BY <1>18 DEF Stop, AwaitPoint, Hangup, Pings, StepFits, CachedOnce, HistReceiptMeansSaved
  <2> QED
    BY <2>1, <2>2, <2>3, <2>4, <2>5, <2>6, <2>7, <2>8
<1>19. ASSUME Crash PROVE IInv'
  <2>1. TypeOK'
    <3>1. torn' \subseteq Messages
      BY <1>19 DEF Crash, Window
    <3>2. faults' \in 0 .. MaxFaults
      BY <1>19 DEF Crash, Fault
    <3> QED
      BY <1>19, <3>1, <3>2 DEF Crash, Hangup, Pings
  <2>2. IncomingType'
    BY <1>19 DEF Crash, Window, Fault, Hangup, Pings, IncomingType
  <2>3. Severed' /\ StepFits'
    BY <1>19 DEF Crash, Hangup, Severed, StepFits
  <2>4. CachedOnce'
    BY <1>19 DEF Crash, CachedOnce
  <2>5. ConsumedIsSettled'
    BY <1>19 DEF Crash, Window, ConsumedIsSettled, Settled, Met
  <2>6. KeysComeFirst'
    BY <1>19 DEF Crash, Hangup, KeysComeFirst, KeyFirst
  <2>7. AckedIsSettled'
    BY <1>19 DEF Crash, Hangup, Pings, AckedIsSettled, Settled, Met
  <2>8. HistReceiptMeansSaved'
    BY <1>19 DEF Crash, HistReceiptMeansSaved
  <2> QED
    BY <2>1, <2>2, <2>3, <2>4, <2>5, <2>6, <2>7, <2>8
<1>20. CASE UNCHANGED vars
  <2>1. TypeOK' /\ IncomingType' /\ Severed' /\ StepFits'
    BY <1>20 DEF IncomingType, Severed, StepFits
  <2>2. CachedOnce' /\ ConsumedIsSettled'
    BY <1>20 DEF CachedOnce, ConsumedIsSettled, Settled, Met
  <2>3. KeysComeFirst'
    BY <1>20 DEF KeysComeFirst, KeyFirst, InTurn, Queued, Met
  <2>4. AckedIsSettled' /\ HistReceiptMeansSaved'
    BY <1>20 DEF AckedIsSettled, HistReceiptMeansSaved, Settled, Met
  <2> QED
    BY <2>1, <2>2, <2>3, <2>4
<1> QED
  BY <1>1, <1>2, <1>3, <1>4, <1>5, <1>6, <1>7, <1>8, <1>9, <1>10, <1>11, <1>12, <1>13, <1>14,
     <1>15, <1>16,
    <1>17, <1>18, <1>19, <1>20 DEF Next, Reader

\* The strengthened invariant holds in every reachable state.
THEOREM Invariance == Spec => []IInv
<1>1. Init => IInv
  BY InitInv
<1>2. IInv /\ [Next]_vars => IInv'
  BY StepInv
<1> QED
  BY <1>1, <1>2, PTL DEF Spec

\* Every variable keeps its type; the reader has a stanza in hand exactly in
\* the steps of the message path and of its answers.
THEOREM TypeCorrect == Spec => []TypeOK
<1>1. IInv => TypeOK
  BY DEF IInv
<1> QED
  BY <1>1, Invariance, PTL

\* Whatever the server no longer holds for us is in the cache, or was lost in
\* one of the ways the property names, for any order of stanzas, hangups,
\* crashes and failing writes.
THEOREM AckedIsKept == Spec => []AcknowledgedIsKept
<1>1. IInv => AcknowledgedIsKept
  BY DEF IInv, AckedIsSettled, Settled, AcknowledgedIsKept, Content
<1> QED
  BY <1>1, Invariance, PTL

\* No redelivery makes a second line in messages.jsonl: the ratchet that was
\* saved before the line was written does not open the copy.
THEOREM NothingKeptTwice == Spec => []KeptOnce
<1>1. IInv => KeptOnce
  BY DEF IInv, CachedOnce, KeptOnce
<1> QED
  BY <1>1, Invariance, PTL

\* The phone is told of a history bundle only when its notification is on
\* disk.
THEOREM ToldAfterSaving == Spec => []HistReceiptMeansSaved
<1>1. IInv => HistReceiptMeansSaved
  BY DEF IInv
<1> QED
  BY <1>1, Invariance, PTL
=============================================================================
