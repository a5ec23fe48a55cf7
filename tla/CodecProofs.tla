----------------------------- MODULE CodecProofs -----------------------------
(***************************************************************************)
(* Frames out of octets, for any octets, portions, preface and limit, and  *)
(* frames into octets and back, for any frames.                            *)
(***************************************************************************)
EXTENDS FrameTraffic, TotalsProofs

-----------------------------------------------------------------------------
(***************************************************************************)
(* Parts of sequences that are put together.                               *)
(***************************************************************************)

\* A part of the front.
LEMMA InFront ==
  ASSUME NEW S, NEW s \in Seq(S), NEW t \in Seq(S), NEW a \in Nat \ {0}, NEW b \in Nat, b <= Len(s)
  PROVE  SubSeq(s \o t, a, b) = SubSeq(s, a, b)
<1>1. PICK m \in Nat : m = Len(s) /\ b <= m
  OBVIOUS
<1>2. CASE b < a
  BY <1>2, SubSeqEmpty
<1>3. CASE a <= b
  <2>1. a \in 1..m /\ b \in 1..m
    BY <1>1, <1>3
  <2>2. a \in 1..Len(s) /\ b \in 1..Len(s)
    BY <1>1, <2>1, Zenon
  <2> QED
    BY <2>2, SubSeqOfConcat1
<1> QED
  BY <1>2, <1>3

\* A part of what is behind it.
LEMMA InBack ==
  ASSUME NEW S, NEW s \in Seq(S), NEW t \in Seq(S), NEW a \in Nat \ {0}, NEW b \in Nat, b <= Len(t)
  PROVE  SubSeq(s \o t, Len(s) + a, Len(s) + b) = SubSeq(t, a, b)
<1>1. PICK m \in Nat, n \in Nat : m = Len(s) /\ n = Len(t) /\ b <= n
  OBVIOUS
<1>2. CASE b < a
  <2>1. m + b < m + a /\ m + b \in Int /\ m + a \in Int
    BY <1>1, <1>2
  <2>2. SubSeq(s \o t, m + a, m + b) = <<>> /\ SubSeq(t, a, b) = <<>>
    BY <1>2, <2>1, SubSeqEmpty
  <2> QED
    BY <1>1, <2>2, Zenon
<1>3. CASE a <= b
  <2>1. m + a \in (m + 1)..(m + n) /\ m + b \in (m + 1)..(m + n) /\ (m + a) - m = a /\ (m + b) - m = b
    BY <1>1, <1>3
  <2>2. Len(s) + a \in (Len(s) + 1)..(Len(s) + Len(t)) /\ Len(s) + b \in (Len(s) + 1)..(Len(s) + Len(t))
    BY <1>1, <2>1, Zenon
  <2>3. SubSeq(s \o t, Len(s) + a, Len(s) + b) = SubSeq(t, (Len(s) + a) - Len(s), (Len(s) + b) - Len(s))
    BY <2>2, SubSeqOfConcat2
  <2> QED
    BY <1>1, <2>1, <2>3, Zenon
<1> QED
  BY <1>2, <1>3

\* The rest of two sequences.
LEMMA RestOfJoined ==
  ASSUME NEW S, NEW s \in Seq(S), NEW t \in Seq(S), NEW k \in Nat, k <= Len(s)
  PROVE  From(s \o t, k + 1) = From(s, k + 1) \o t
<1>1. PICK m \in Nat, n \in Nat : m = Len(s) /\ n = Len(t) /\ k <= m /\ k \in 0..m
  OBVIOUS
<1>2. PICK p \in Seq(S), q \in Seq(S) :
        p = SubSeq(s, 1, k) /\ q = SubSeq(s, k + 1, Len(s)) /\ s = p \o q /\ Len(p) = k /\ Len(q) = m - k
  <2>1. k \in 0..Len(s)
    BY <1>1, Zenon
  <2>2. /\ SubSeq(s, 1, k) \in Seq(S) /\ Len(SubSeq(s, 1, k)) = k
        /\ SubSeq(s, k + 1, Len(s)) \in Seq(S) /\ Len(SubSeq(s, k + 1, Len(s))) = Len(s) - k
        /\ s = SubSeq(s, 1, k) \o SubSeq(s, k + 1, Len(s))
    BY <2>1, PartIs, ZenonT(60)
  <2> QED
    BY <1>1, <2>2, Zenon
<1>3. PICK u \in Seq(S) : u = q \o t /\ Len(u) = (m - k) + n /\ s \o t = p \o u
  <2>1. q \o t \in Seq(S) /\ Len(q \o t) = Len(q) + Len(t)
    BY ConcatProperties
  <2>2. (p \o q) \o t = p \o (q \o t)
    BY ConcatAssociative
  <2> QED
    BY <1>1, <1>2, <2>1, <2>2, Zenon
<1>4. PICK x \in Seq(S) : x = s \o t /\ Len(x) = m + n
  <2>1. s \o t \in Seq(S) /\ Len(s \o t) = Len(s) + Len(t)
    BY ConcatProperties
  <2> QED
    BY <1>1, <2>1, Zenon
<1>5. SubSeq(p \o u, Len(p) + 1, Len(p) + Len(u)) = SubSeq(u, 1, Len(u))
  <2>1. Len(u) \in Nat /\ Len(u) <= Len(u) /\ 1 \in Nat \ {0}
    OBVIOUS
  <2> QED
    BY <2>1, InBack, ZenonT(60)
<1>6. SubSeq(u, 1, Len(u)) = u
  BY SubSeqFull
<1>7. k + ((m - k) + n) = m + n
  BY <1>1
<1>8. SubSeq(x, k + 1, Len(x)) = u
  BY <1>2, <1>3, <1>4, <1>5, <1>6, <1>7, Zenon
<1> QED
  BY <1>2, <1>3, <1>4, <1>8, Zenon DEF From

-----------------------------------------------------------------------------
(***************************************************************************)
(* The header of a frame and what is read of a buffer that begins with it. *)
(***************************************************************************)

\* The first frame of a buffer: its header, its size and what is logged of it.
FirstHeader(b) == http2_frame_header_unpack(b)
FirstSize(b) == FirstHeader(b).length + HTTP2_FRAME_HEADER_SIZE
FirstEntry(b) == Entry(FirstHeader(b), b)

\* The loop ends for want of octets, or because the frame is too large.
Waits(b) ==
  \/ Len(b) < HTTP2_FRAME_HEADER_SIZE
  \/ FirstHeader(b).length <= MaxFrameSize /\ FirstSize(b) > Len(b)
TooLarge(b) == Len(b) >= HTTP2_FRAME_HEADER_SIZE /\ FirstHeader(b).length > MaxFrameSize

Entries == {FirstEntry(b) : b \in Seq(Byte)}
LoopState == [buf : Seq(Byte), log : Seq(Entries), stop : BOOLEAN, failed : BOOLEAN]

\* The number that four octets stand for.
Quad(w, x, y, z) == 16777216 * w + 65536 * x + 256 * y + z

\* Two places of four.
LEMMA LastTwo ==
  ASSUME NEW p \in Seq(Byte), Len(p) = 4
  PROVE  SubSeq(p, 3, 4)[1] = p[3] /\ SubSeq(p, 3, 4)[2] = p[4]
<1>1. 3 \in Int /\ 4 \in Int /\ 1 \in 1..(4 - 3 + 1) /\ 2 \in 1..(4 - 3 + 1) /\ 3 + 1 - 1 = 3 /\ 3 + 2 - 1 = 4
  OBVIOUS
<1>2. \A i \in 3..4 : p[i] \in Byte
  <2>1. \A i \in 3..4 : i \in 1..Len(p)
    OBVIOUS
  <2> QED
    BY <2>1, ElementOfSeq
<1>3. \A i \in 1..(4 - 3 + 1) : SubSeq(p, 3, 4)[i] = p[3 + i - 1]
  BY <1>1, <1>2, SubSeqProperties
<1> QED
  BY <1>1, <1>3, Zenon

LEMMA Get32Is ==
  ASSUME NEW p \in Seq(Byte), Len(p) = 4
  PROVE  get_uint32_from_be_stream(p) = Quad(p[1], p[2], p[3], p[4])
<1>1. PICK r : r = SubSeq(p, 3, 4) /\ r[1] = p[3] /\ r[2] = p[4]
  BY LastTwo, Zenon
<1>2. PICK w \in Byte, x \in Byte, y \in Byte, z \in Byte : w = p[1] /\ x = p[2] /\ y = p[3] /\ z = p[4]
  <2>1. 1 \in 1..Len(p) /\ 2 \in 1..Len(p) /\ 3 \in 1..Len(p) /\ 4 \in 1..Len(p)
    OBVIOUS
  <2> QED
    BY <2>1, ElementOfSeq
<1>3. get_uint16_from_be_stream(p) = 256 * w + x
  BY <1>2 DEF get_uint16_from_be_stream
<1>4. get_uint16_from_be_stream(r) = 256 * y + z
  BY <1>1, <1>2 DEF get_uint16_from_be_stream
<1>5. get_uint32_from_be_stream(p) = 65536 * (256 * w + x) + (256 * y + z)
  BY <1>1, <1>3, <1>4 DEF get_uint32_from_be_stream
<1>6. Quad(w, x, y, z) = 65536 * (256 * w + x) + (256 * y + z)
  BY DEF Quad, Byte
<1> QED
  BY <1>2, <1>5, <1>6

\* A length is read from three octets.
LEMMA HeaderIs ==
  ASSUME NEW b \in Seq(Byte), Len(b) >= 9
  PROVE  FirstHeader(b).length = Quad(0, b[1], b[2], b[3]) /\ FirstHeader(b).length \in Nat
<1>1. PICK x \in Byte, y \in Byte, z \in Byte : x = b[1] /\ y = b[2] /\ z = b[3]
  <2>1. 1 \in 1..Len(b) /\ 2 \in 1..Len(b) /\ 3 \in 1..Len(b)
    OBVIOUS
  <2> QED
    BY <2>1, ElementOfSeq
<1>2. PICK p \in Seq(Byte) : p = SubSeq(b, 1, 3) /\ Len(p) = 3 /\ p[1] = x /\ p[2] = y /\ p[3] = z
  <2>1. 3 \in 0..Len(b) /\ 1 \in 1..3 /\ 2 \in 1..3 /\ 3 \in 1..3
    OBVIOUS
  <2>2. SubSeq(b, 1, 3) \in Seq(Byte) /\ Len(SubSeq(b, 1, 3)) = 3 /\ \A i \in 1..3 : SubSeq(b, 1, 3)[i] = b[i]
    BY <2>1, PartIs, Zenon
  <2> QED
    BY <1>1, <2>1, <2>2, Zenon
<1>3. PICK q \in Seq(Byte) : /\ q = <<0>> \o p /\ Len(q) = 4
                             /\ q[1] = 0 /\ q[2] = x /\ q[3] = y /\ q[4] = z
  <2>1. <<0>> \in Seq(Byte) /\ Len(<<0>>) = 1 /\ <<0>>[1] = 0
    BY DEF Byte
  <2>2. PICK o \in Seq(Byte) : o = <<0>> /\ Len(o) = 1 /\ o[1] = 0
    BY <2>1, Zenon
  <2>3. /\ o \o p \in Seq(Byte) /\ Len(o \o p) = Len(o) + Len(p) /\ (\A i \in 1..Len(o) : (o \o p)[i] = o[i])
        /\ \A i \in 1..Len(p) : (o \o p)[Len(o) + i] = p[i]
    BY ConcatByPlace
  <2>4. PICK q \in Seq(Byte) : q = o \o p
    BY <2>3, Zenon
  <2>5. Len(q) = 4 /\ q[1] = 0 /\ q[2] = x /\ q[3] = y /\ q[4] = z
    BY <1>2, <2>2, <2>3, <2>4
  <2> QED
    BY <2>2, <2>4, <2>5, Zenon
<1>4. get_uint32_from_be_stream(q) = Quad(0, x, y, z)
  BY <1>3, Get32Is, Zenon
<1>5. Quad(0, x, y, z) \in Nat
  BY DEF Quad, Byte
<1>6. FirstHeader(b).length = get_uint32_from_be_stream(<<0>> \o SubSeq(b, 1, 3))
  <2>1. PICK v : v = get_uint32_from_be_stream(<<0>> \o SubSeq(b, 1, 3))
    BY Zenon
  <2>2. PICK w : w = GetMasked(SubSeq(b, 6, 9))
    BY Zenon
  <2>3. FirstHeader(b) = [length |-> v, type |-> b[4], flags |-> b[5], stream_id |-> w]
    BY <2>1, <2>2, Zenon DEF FirstHeader, http2_frame_header_unpack, http2_frame_header_init
  <2> QED
    BY <2>1, <2>3
<1> QED
  BY <1>1, <1>2, <1>3, <1>4, <1>5, <1>6, Zenon

\* What comes later does not change the first frame.
LEMMA FirstSame ==
  ASSUME NEW a \in Seq(Byte), NEW c \in Seq(Byte), Len(a) >= 9
  PROVE  /\ FirstHeader(a \o c) = FirstHeader(a) /\ FirstSize(a \o c) = FirstSize(a)
         /\ FirstSize(a) <= Len(a) => FirstEntry(a \o c) = FirstEntry(a)
<1>1. PICK x \in Seq(Byte), m \in Nat, n \in Nat : x = a \o c /\ m = Len(a) /\ n = Len(c) /\ Len(x) = m + n
                                                   /\ m >= 9
  <2>1. a \o c \in Seq(Byte) /\ Len(a \o c) = Len(a) + Len(c)
    BY ConcatByPlace, Zenon
  <2>2. PICK m \in Nat, n \in Nat : m = Len(a) /\ n = Len(c) /\ m >= 9
    OBVIOUS
  <2> QED
    BY <2>1, <2>2, Zenon
<1>2. SubSeq(x, 1, 3) = SubSeq(a, 1, 3) /\ SubSeq(x, 6, 9) = SubSeq(a, 6, 9)
  <2>1. 3 <= Len(a) /\ 9 <= Len(a) /\ 1 \in Nat \ {0} /\ 6 \in Nat \ {0} /\ 3 \in Nat /\ 9 \in Nat
    OBVIOUS
  <2>2. SubSeq(a \o c, 1, 3) = SubSeq(a, 1, 3)
    BY <2>1, InFront, ZenonT(60)
  <2>3. SubSeq(a \o c, 6, 9) = SubSeq(a, 6, 9)
    BY <2>1, InFront, ZenonT(60)
  <2> QED
    BY <1>1, <2>2, <2>3, Zenon
<1>3. x[4] = a[4] /\ x[5] = a[5]
  <2>1. 4 \in 1..Len(a) /\ 5 \in 1..Len(a)
    OBVIOUS
  <2>2. \A i \in 1..Len(a) : (a \o c)[i] = a[i]
    BY ConcatByPlace
  <2> QED
    BY <1>1, <2>1, <2>2, Zenon
<1>4. FirstHeader(x) = FirstHeader(a)
  BY <1>2, <1>3, Zenon DEF FirstHeader, http2_frame_header_unpack
<1>5. FirstSize(x) = FirstSize(a)
  BY <1>4, Zenon DEF FirstSize
<1>6. ASSUME FirstSize(a) <= Len(a) PROVE FirstEntry(x) = FirstEntry(a)
  <2>1. PICK l \in Nat : l = FirstHeader(a).length
    BY HeaderIs
  <2>2. 9 + l <= Len(a) /\ 9 + l \in Nat /\ 9 + 1 \in Nat \ {0}
    BY <1>6, <2>1 DEF FirstSize, HTTP2_FRAME_HEADER_SIZE
  <2>3. SubSeq(x, 9 + 1, 9 + l) = SubSeq(a, 9 + 1, 9 + l)
    BY <1>1, <2>2, InFront, ZenonT(60)
  <2> QED
    BY <1>4, <2>1, <2>3, Zenon DEF FirstEntry, Entry, HTTP2_FRAME_HEADER_SIZE
<1> QED
  BY <1>1, <1>4, <1>5, <1>6, Zenon

-----------------------------------------------------------------------------
(***************************************************************************)
(* The frame loop, round by round.                                         *)
(***************************************************************************)

St(b, l, s, f) == [buf |-> b, log |-> l, stop |-> s, failed |-> f]

\* A state of the loop by its fields.
LEMMA StateIs ==
  ASSUME NEW at \in LoopState
  PROVE  /\ at.buf \in Seq(Byte) /\ at.log \in Seq(Entries) /\ at.stop \in BOOLEAN /\ at.failed \in BOOLEAN
         /\ at = St(at.buf, at.log, at.stop, at.failed)
BY DEF LoopState, St

LEMMA StatePick ==
  ASSUME NEW at \in LoopState
  PROVE  \E b \in Seq(Byte), l \in Seq(Entries), s \in BOOLEAN, f \in BOOLEAN : at = St(b, l, s, f)
<1>1. PICK b, l, s, f : b = at.buf /\ l = at.log /\ s = at.stop /\ f = at.failed
  BY Zenon
<1>2. at.buf \in Seq(Byte) /\ at.log \in Seq(Entries) /\ at.stop \in BOOLEAN /\ at.failed \in BOOLEAN
  BY StateIs, Zenon
<1>3. at = St(at.buf, at.log, at.stop, at.failed)
  BY StateIs, Zenon
<1>4. b \in Seq(Byte) /\ l \in Seq(Entries) /\ s \in BOOLEAN /\ f \in BOOLEAN /\ at = St(b, l, s, f)
  BY <1>1, <1>2, <1>3, Zenon
<1> QED
  BY <1>4, Zenon

LEMMA StateFields ==
  ASSUME NEW b, NEW l, NEW s, NEW f
  PROVE  St(b, l, s, f).buf = b /\ St(b, l, s, f).log = l /\ St(b, l, s, f).stop = s /\ St(b, l, s, f).failed = f
BY DEF St

LEMMA StateType ==
  ASSUME NEW b \in Seq(Byte), NEW l \in Seq(Entries), NEW s \in BOOLEAN, NEW f \in BOOLEAN
  PROVE  St(b, l, s, f) \in LoopState
BY DEF St, LoopState

\* What a frame that is read leaves.
LEMMA RestIs ==
  ASSUME NEW b \in Seq(Byte), ~Waits(b), ~TooLarge(b)
  PROVE  /\ Len(b) >= 9 /\ FirstSize(b) \in Nat /\ FirstSize(b) >= 9 /\ FirstSize(b) <= Len(b)
         /\ From(b, FirstSize(b) + 1) \in Seq(Byte)
         /\ Len(From(b, FirstSize(b) + 1)) = Len(b) - FirstSize(b)
<1>1. PICK n \in Nat : n = Len(b)
  OBVIOUS
<1>2. n >= 9
  BY <1>1 DEF Waits, HTTP2_FRAME_HEADER_SIZE
<1>3. PICK l \in Nat : l = FirstHeader(b).length
  BY <1>1, <1>2, HeaderIs
<1>4. FirstSize(b) = l + 9
  BY <1>3 DEF FirstSize, HTTP2_FRAME_HEADER_SIZE
<1>5. MaxFrameSize \in Nat
  BY FrameStreamAssumption
<1>6. l + 9 <= n
  BY <1>1, <1>2, <1>3, <1>4, <1>5 DEF Waits, TooLarge, HTTP2_FRAME_HEADER_SIZE
<1>7. PICK k \in Nat : k = FirstSize(b) /\ k >= 9 /\ k <= n /\ k \in 0..n
  BY <1>4, <1>6
<1>8. k \in 0..Len(b)
  BY <1>1, <1>7, Zenon
<1>9. SubSeq(b, k + 1, Len(b)) \in Seq(Byte) /\ Len(SubSeq(b, k + 1, Len(b))) = Len(b) - k
  BY <1>8, PartIs, Zenon
<1> QED
  BY <1>1, <1>2, <1>7, <1>9, Zenon DEF From

\* A state with other fields.
ExceptIs(b, l, s, f, at, x, y) ==
  /\ [at EXCEPT !.stop = x] = St(b, l, x, f)
  /\ [at EXCEPT !.stop = x, !.failed = y] = St(b, l, x, y)
  /\ [at EXCEPT !.buf = x, !.log = y] = St(x, y, s, f)

LEMMA StateExcept ==
  ASSUME NEW b, NEW l, NEW s, NEW f, NEW at, at = St(b, l, s, f), NEW x, NEW y
  PROVE  ExceptIs(b, l, s, f, at, x, y)
<1>1. at = [buf |-> b, log |-> l, stop |-> s, failed |-> f]
  BY Zenon DEF St
<1>2. PICK p : p = [at EXCEPT !.stop = x]
  BY Zenon
<1>3. p = [buf |-> b, log |-> l, stop |-> x, failed |-> f]
  BY <1>1, <1>2, SMT
<1>4. [p EXCEPT !.failed = y] = [buf |-> b, log |-> l, stop |-> x, failed |-> y]
  BY <1>3, SMT
<1>5. PICK q : q = [at EXCEPT !.buf = x]
  BY Zenon
<1>6. q = [buf |-> x, log |-> l, stop |-> s, failed |-> f]
  BY <1>1, <1>5, SMT
<1>7. [q EXCEPT !.log = y] = [buf |-> x, log |-> y, stop |-> s, failed |-> f]
  BY <1>6, SMT
<1> QED
  BY <1>2, <1>3, <1>4, <1>5, <1>6, <1>7, SMT DEF St, ExceptIs

LEMMA StepIs ==
  ASSUME NEW b \in Seq(Byte), NEW l \in Seq(Entries), NEW s \in BOOLEAN, NEW f \in BOOLEAN
  PROVE  /\ s => FrameStep(St(b, l, s, f)) = St(b, l, TRUE, f)
         /\ ~s /\ Waits(b) => FrameStep(St(b, l, s, f)) = St(b, l, TRUE, f)
         /\ ~s /\ TooLarge(b) => FrameStep(St(b, l, s, f)) = St(b, l, TRUE, TRUE)
         /\ ~s /\ ~Waits(b) /\ ~TooLarge(b) =>
              FrameStep(St(b, l, s, f)) = St(From(b, FirstSize(b) + 1), Append(l, FirstEntry(b)), FALSE, f)
<1>1. PICK at : at = St(b, l, s, f)
  BY Zenon
<1>2. at.buf = b /\ at.log = l /\ at.stop = s /\ at.failed = f
  BY <1>1 DEF St
<1>3. PICK true : true = TRUE
  BY Zenon
<1>4. [at EXCEPT !.stop = true] = St(b, l, true, f) /\ [at EXCEPT !.stop = true, !.failed = true] = St(b, l, true, true)
  <2>1. ExceptIs(b, l, s, f, at, true, true)
    BY <1>1, StateExcept, Zenon
  <2> QED
    BY <2>1 DEF ExceptIs
<1>5. [at EXCEPT !.buf = From(b, FirstSize(b) + 1), !.log = Append(l, FirstEntry(b))]
        = St(From(b, FirstSize(b) + 1), Append(l, FirstEntry(b)), s, f)
  <2>1. ExceptIs(b, l, s, f, at, From(b, FirstSize(b) + 1), Append(l, FirstEntry(b)))
    BY <1>1, StateExcept, Zenon
  <2> QED
    BY <2>1 DEF ExceptIs
<1>6. FrameStep(at) =
        IF s \/ Len(b) < HTTP2_FRAME_HEADER_SIZE THEN [at EXCEPT !.stop = true]
        ELSE IF FirstHeader(b).length > MaxFrameSize THEN [at EXCEPT !.stop = true, !.failed = true]
        ELSE IF FirstSize(b) > Len(b) THEN [at EXCEPT !.stop = true]
        ELSE [at EXCEPT !.buf = From(b, FirstSize(b) + 1), !.log = Append(l, FirstEntry(b))]
  BY <1>2, <1>3 DEF FrameStep, FirstHeader, FirstSize, FirstEntry
<1>7. PICK n \in Nat : n = Len(b)
  OBVIOUS
<1>8. n >= 9 => FirstHeader(b).length \in Nat
  BY <1>7, HeaderIs
<1>9. MaxFrameSize \in Nat
  BY FrameStreamAssumption
<1>10. (Len(b) >= HTTP2_FRAME_HEADER_SIZE) = ~(Len(b) < HTTP2_FRAME_HEADER_SIZE)
  BY <1>7 DEF HTTP2_FRAME_HEADER_SIZE
<1>11. ~(Len(b) < HTTP2_FRAME_HEADER_SIZE) =>
         (FirstHeader(b).length <= MaxFrameSize) = ~(FirstHeader(b).length > MaxFrameSize)
  BY <1>7, <1>8, <1>9 DEF HTTP2_FRAME_HEADER_SIZE
<1> QED
  <2>1. CASE s
    BY <1>1, <1>3, <1>4, <1>6, <2>1, Zenon
  <2>2. CASE ~s
    BY <1>1, <1>3, <1>4, <1>5, <1>6, <1>10, <1>11, <2>2, ZenonT(60) DEF Waits, TooLarge
  <2> QED
    BY <2>1, <2>2

LEMMA StepType ==
  ASSUME NEW at \in LoopState
  PROVE  FrameStep(at) \in LoopState
<1>1. PICK b \in Seq(Byte), l \in Seq(Entries), s \in BOOLEAN, f \in BOOLEAN : at = St(b, l, s, f)
  BY StatePick, Zenon
<1>2. St(b, l, TRUE, f) \in LoopState /\ St(b, l, TRUE, TRUE) \in LoopState
  BY StateType, Zenon
<1>3. ASSUME ~Waits(b), ~TooLarge(b)
      PROVE  St(From(b, FirstSize(b) + 1), Append(l, FirstEntry(b)), FALSE, f) \in LoopState
  <2>1. From(b, FirstSize(b) + 1) \in Seq(Byte)
    BY <1>3, RestIs, Zenon
  <2>2. FirstEntry(b) \in Entries
    BY Zenon DEF Entries
  <2>3. Append(l, FirstEntry(b)) \in Seq(Entries)
    BY <2>2, AppendJoins, Zenon
  <2> QED
    BY <2>1, <2>3, StateType, Zenon
<1> QED
  BY <1>1, <1>2, <1>3, StepIs, Zenon

\* f goes from first, one round of the loop after the other.
RoundsBy(f, first, n) == f = [i \in 0..n |-> IF i = 0 THEN first ELSE FrameStep(f[i - 1])]

LEMMA RoundsUnique ==
  ASSUME NEW n \in Nat, NEW first, NEW f, NEW g, RoundsBy(f, first, n), RoundsBy(g, first, n)
  PROVE  f = g
<1> DEFINE T == {k \in Nat : k <= n => f[k] = g[k]}
<1>1. \A i \in 0..n : f[i] = IF i = 0 THEN first ELSE FrameStep(f[i - 1])
  BY DEF RoundsBy
<1>2. \A i \in 0..n : g[i] = IF i = 0 THEN first ELSE FrameStep(g[i - 1])
  BY DEF RoundsBy
<1>3. 0 \in T
  BY <1>1, <1>2
<1>4. ASSUME NEW k \in Nat, k \in T PROVE k + 1 \in T
  <2> SUFFICES ASSUME k + 1 <= n PROVE f[k + 1] = g[k + 1]
    OBVIOUS
  <2>1. f[k] = g[k]
    BY <1>4
  <2>2. k + 1 \in 0..n /\ k + 1 # 0 /\ (k + 1) - 1 = k
    OBVIOUS
  <2>3. f[k + 1] = FrameStep(f[(k + 1) - 1]) /\ g[k + 1] = FrameStep(g[(k + 1) - 1])
    BY <1>1, <1>2, <2>2, Zenon
  <2> QED
    BY <2>1, <2>2, <2>3, Zenon
<1>5. Nat \subseteq T
  <2> HIDE DEF T
  <2> QED
    BY <1>3, <1>4, SetInduction
<1>6. \A k \in 0..n : f[k] = g[k]
  BY <1>5
<1>7. f = [i \in 0..n |-> f[i]] /\ g = [i \in 0..n |-> g[i]]
  BY DEF RoundsBy
<1> QED
  BY <1>6, <1>7

LEMMA RoundsIs ==
  ASSUME NEW n \in Nat, NEW first, NEW f, RoundsBy(f, first, n)
  PROVE  Rounds(first, n) = f[n]
<1> DEFINE u == CHOOSE g : g = [i \in 0..n |-> IF i = 0 THEN first ELSE FrameStep(g[i - 1])]
<1>1. u = [i \in 0..n |-> IF i = 0 THEN first ELSE FrameStep(u[i - 1])]
  BY DEF RoundsBy
<1>2. Rounds(first, n) = u[n]
  BY DEF Rounds
<1> HIDE DEF u
<1>3. RoundsBy(u, first, n)
  BY <1>1, Zenon DEF RoundsBy
<1>4. u = f
  BY <1>3, RoundsUnique
<1> QED
  BY <1>2, <1>4

\* The rounds from a state, one after the other.
LEMMA RoundsSteps ==
  ASSUME NEW first \in LoopState, NEW n \in Nat
  PROVE  \E f \in [0..n -> LoopState] :
           /\ f[0] = first /\ \A i \in 1..n : f[i] = FrameStep(f[i - 1])
           /\ \A k \in 0..n : Rounds(first, k) = f[k]
<1> DEFINE step == [s \in LoopState |-> FrameStep(s)]
           next == [i \in 1..n |-> step]
<1>1. step \in [LoopState -> LoopState] /\ \A s \in LoopState : step[s] = FrameStep(s)
  BY StepType
<1> HIDE DEF step
<1>2. next \in [1..n -> [LoopState -> LoopState]] /\ \A i \in 1..n : next[i] = step
  BY <1>1
<1> HIDE DEF next
<1>3. PICK f : Steps(f, LoopState, first, next, n)
  BY <1>2, Iterate, Zenon
<1>4. f \in [0..n -> LoopState] /\ f[0] = first
  BY <1>3, Zenon DEF Steps
<1>5. ASSUME NEW i \in 1..n PROVE f[i] = FrameStep(f[i - 1])
  <2>1. f[i] = next[i][f[i - 1]]
    BY <1>3, Zenon DEF Steps
  <2>2. i - 1 \in 0..n
    OBVIOUS
  <2>3. f[i - 1] \in LoopState
    BY <1>4, <2>2
  <2> QED
    BY <1>1, <1>2, <2>1, <2>3, Zenon
<1>6. ASSUME NEW k \in 0..n PROVE Rounds(first, k) = f[k]
  <2>1. k \in Nat
    OBVIOUS
  <2> DEFINE g == [i \in 0..k |-> f[i]]
  <2>2. g[0] = first /\ g[k] = f[k]
    BY <1>4
  <2>3. ASSUME NEW i \in 0..k PROVE g[i] = IF i = 0 THEN first ELSE FrameStep(g[i - 1])
    <3>1. CASE i = 0
      BY <2>2, <3>1
    <3>2. CASE i # 0
      <4>1. i \in 1..n /\ i - 1 \in 0..k
        BY <3>2
      <4>2. g[i] = f[i] /\ g[i - 1] = f[i - 1]
        BY <4>1
      <4>3. f[i] = FrameStep(f[i - 1])
        BY <1>5, <4>1
      <4> HIDE DEF g
      <4> QED
        BY <3>2, <4>2, <4>3
    <3> QED
      BY <3>1, <3>2
  <2>4. g = [i \in 0..k |-> g[i]]
    OBVIOUS
  <2> HIDE DEF g
  <2>5. g = [i \in 0..k |-> IF i = 0 THEN first ELSE FrameStep(g[i - 1])]
    BY <2>3, <2>4
  <2>6. RoundsBy(g, first, k)
    BY <2>5, Zenon DEF RoundsBy
  <2> QED
    BY <2>1, <2>2, <2>6, RoundsIs
<1> QED
  BY <1>4, <1>5, <1>6

LEMMA RoundsNext ==
  ASSUME NEW first \in LoopState, NEW n \in Nat
  PROVE  /\ Rounds(first, 0) = first /\ Rounds(first, n) \in LoopState
         /\ Rounds(first, n + 1) = FrameStep(Rounds(first, n))
<1>1. PICK f \in [0..(n + 1) -> LoopState] :
        /\ f[0] = first /\ \A i \in 1..(n + 1) : f[i] = FrameStep(f[i - 1])
        /\ \A k \in 0..(n + 1) : Rounds(first, k) = f[k]
  <2>1. n + 1 \in Nat
    OBVIOUS
  <2> QED
    BY <2>1, RoundsSteps, Zenon
<1>2. 0 \in 0..(n + 1) /\ n \in 0..(n + 1) /\ n + 1 \in 0..(n + 1) /\ n + 1 \in 1..(n + 1) /\ (n + 1) - 1 = n
  OBVIOUS
<1>3. f[n] \in LoopState
  BY <1>2
<1>4. f[n + 1] = FrameStep(f[(n + 1) - 1])
  BY <1>1, <1>2, Zenon
<1> QED
  BY <1>1, <1>2, <1>3, <1>4, Zenon

\* The first round is taken first.
LEMMA RoundsFirst ==
  ASSUME NEW at \in LoopState, NEW n \in Nat
  PROVE  Rounds(at, n + 1) = Rounds(FrameStep(at), n)
<1>1. PICK next \in LoopState : next = FrameStep(at)
  BY StepType, Zenon
<1> DEFINE T == {k \in Nat : Rounds(at, k + 1) = Rounds(next, k)}
<1>2. 0 \in T
  <2>1. 0 \in Nat
    OBVIOUS
  <2>2. Rounds(at, 0 + 1) = FrameStep(Rounds(at, 0)) /\ Rounds(at, 0) = at /\ Rounds(next, 0) = next
    BY <2>1, RoundsNext, Zenon
  <2>3. Rounds(at, 0 + 1) = Rounds(next, 0)
    BY <1>1, <2>2, Zenon
  <2> QED
    BY <2>3
<1>3. ASSUME NEW k \in Nat, k \in T PROVE k + 1 \in T
  <2>1. k + 1 \in Nat /\ Rounds(at, k + 1) = Rounds(next, k)
    BY <1>3
  <2>2. Rounds(at, (k + 1) + 1) = FrameStep(Rounds(at, k + 1)) /\ Rounds(next, k + 1) = FrameStep(Rounds(next, k))
    BY <2>1, RoundsNext, Zenon
  <2>3. Rounds(at, (k + 1) + 1) = Rounds(next, k + 1)
    BY <2>1, <2>2, Zenon
  <2> QED
    BY <2>1, <2>3
<1>4. Nat \subseteq T
  <2> HIDE DEF T
  <2> QED
    BY <1>2, <1>3, SetInduction
<1> QED
  BY <1>1, <1>4

\* A loop that has ended has ended for good.
LEMMA RoundsStopped ==
  ASSUME NEW at \in LoopState, NEW n \in Nat, Rounds(at, n).stop, NEW m \in Nat, n <= m
  PROVE  Rounds(at, m) = Rounds(at, n)
<1>1. PICK r \in LoopState : r = Rounds(at, n)
  BY RoundsNext, Zenon
<1>2. FrameStep(r) = r
  <2>1. PICK b \in Seq(Byte), l \in Seq(Entries), s \in BOOLEAN, f \in BOOLEAN : r = St(b, l, s, f)
    BY StatePick, Zenon
  <2>2. St(b, l, s, f).stop = s
    BY StateFields
  <2>3. s = TRUE
    BY <1>1, <2>1, <2>2, Zenon
  <2> QED
    BY <2>1, <2>3, StepIs, Zenon
<1> DEFINE T == {d \in Nat : Rounds(at, n + d) = r}
<1>3. 0 \in T
  BY <1>1
<1>4. ASSUME NEW d \in Nat, d \in T PROVE d + 1 \in T
  <2>1. PICK e \in Nat : e = n + d /\ n + (d + 1) = e + 1 /\ Rounds(at, e) = r
    BY <1>4
  <2>2. Rounds(at, e + 1) = FrameStep(Rounds(at, e))
    BY RoundsNext, Zenon
  <2>3. Rounds(at, n + (d + 1)) = r
    BY <1>2, <2>1, <2>2, Zenon
  <2> QED
    BY <2>3
<1>5. Nat \subseteq T
  <2> HIDE DEF T
  <2> QED
    BY <1>3, <1>4, SetInduction
<1>6. m - n \in Nat /\ n + (m - n) = m
  OBVIOUS
<1> QED
  BY <1>1, <1>5, <1>6

\* The same with frames read before.
Before(p, at) == St(at.buf, p \o at.log, at.stop, at.failed)

BeforeAt(p, b, l, s, f) == Before(p, St(b, l, s, f)) = St(b, p \o l, s, f)

LEMMA BeforeIs ==
  ASSUME NEW p, NEW b, NEW l, NEW s, NEW f
  PROVE  BeforeAt(p, b, l, s, f)
<1>1. PICK at : at = St(b, l, s, f)
  BY Zenon
<1>2. at.buf = b /\ at.log = l /\ at.stop = s /\ at.failed = f
  BY <1>1, StateFields
<1> QED
  BY <1>1, <1>2, Zenon DEF Before, BeforeAt

LEMMA BeforeStep ==
  ASSUME NEW p \in Seq(Entries), NEW at \in LoopState
  PROVE  Before(p, at) \in LoopState /\ FrameStep(Before(p, at)) = Before(p, FrameStep(at))
<1>1. PICK b \in Seq(Byte), l \in Seq(Entries), s \in BOOLEAN, f \in BOOLEAN : at = St(b, l, s, f)
  BY StatePick, Zenon
<1>2. PICK q \in Seq(Entries) : q = p \o l
  BY ConcatByPlace, Zenon
<1>4. Before(p, at) = St(b, q, s, f)
  <2>1. BeforeAt(p, b, l, s, f)
    BY BeforeIs, Zenon
  <2> QED
    BY <1>1, <1>2, <2>1, Zenon DEF BeforeAt
<1>5. St(b, q, s, f) \in LoopState
  BY StateType, Zenon
<1>6. CASE s \/ Waits(b)
  <2>1. FrameStep(St(b, q, s, f)) = St(b, q, TRUE, f) /\ FrameStep(St(b, l, s, f)) = St(b, l, TRUE, f)
    BY <1>6, StepIs, Zenon
  <2>2. BeforeAt(p, b, l, TRUE, f)
    BY BeforeIs, Zenon
  <2> QED
    BY <1>1, <1>2, <1>4, <1>5, <2>1, <2>2, Zenon DEF BeforeAt
<1>7. CASE ~s /\ TooLarge(b)
  <2>1. FrameStep(St(b, q, s, f)) = St(b, q, TRUE, TRUE) /\ FrameStep(St(b, l, s, f)) = St(b, l, TRUE, TRUE)
    BY <1>7, StepIs, Zenon
  <2>2. BeforeAt(p, b, l, TRUE, TRUE)
    BY BeforeIs, Zenon
  <2> QED
    BY <1>1, <1>2, <1>4, <1>5, <2>1, <2>2, Zenon DEF BeforeAt
<1>8. CASE ~s /\ ~Waits(b) /\ ~TooLarge(b)
  <2>1. PICK e, c : e \in Entries /\ e = FirstEntry(b) /\ c = From(b, FirstSize(b) + 1)
    BY Zenon DEF Entries
  <2>2. /\ FrameStep(St(b, q, s, f)) = St(c, Append(q, e), FALSE, f)
        /\ FrameStep(St(b, l, s, f)) = St(c, Append(l, e), FALSE, f)
    BY <1>8, <2>1, StepIs, Zenon
  <2>3. Append(q, e) = q \o <<e>> /\ Append(l, e) = l \o <<e>> /\ <<e>> \in Seq(Entries)
    BY <2>1, AppendJoins
  <2>4. (p \o l) \o <<e>> = p \o (l \o <<e>>)
    BY <2>3, ConcatAssociative, SMTT(30)
  <2>5. BeforeAt(p, c, Append(l, e), FALSE, f)
    BY BeforeIs, Zenon
  <2> QED
    BY <1>1, <1>2, <1>4, <1>5, <2>2, <2>3, <2>4, <2>5, Zenon DEF BeforeAt
<1> QED
  BY <1>6, <1>7, <1>8, Zenon

LEMMA BeforeRounds ==
  ASSUME NEW p \in Seq(Entries), NEW at \in LoopState, NEW n \in Nat
  PROVE  Rounds(Before(p, at), n) = Before(p, Rounds(at, n))
<1>1. PICK aft \in LoopState : aft = Before(p, at)
  BY BeforeStep, Zenon
<1> DEFINE T == {k \in Nat : Rounds(aft, k) = Before(p, Rounds(at, k))}
<1>2. 0 \in T
  <2>1. Rounds(aft, 0) = aft /\ Rounds(at, 0) = at
    BY RoundsNext, Zenon
  <2> QED
    BY <1>1, <2>1
<1>3. ASSUME NEW k \in Nat, k \in T PROVE k + 1 \in T
  <2>1. k + 1 \in Nat /\ Rounds(aft, k) = Before(p, Rounds(at, k))
    BY <1>3
  <2>2. Rounds(aft, k + 1) = FrameStep(Rounds(aft, k)) /\ Rounds(at, k + 1) = FrameStep(Rounds(at, k))
    BY RoundsNext, Zenon
  <2>3. PICK r \in LoopState : r = Rounds(at, k)
    BY RoundsNext, Zenon
  <2>4. FrameStep(Before(p, r)) = Before(p, FrameStep(r))
    BY BeforeStep, Zenon
  <2>5. Rounds(aft, k + 1) = Before(p, Rounds(at, k + 1))
    BY <2>1, <2>2, <2>3, <2>4, Zenon
  <2> QED
    BY <2>1, <2>5
<1>4. Nat \subseteq T
  <2> HIDE DEF T
  <2> QED
    BY <1>2, <1>3, SetInduction
<1> QED
  BY <1>1, <1>4

-----------------------------------------------------------------------------
(***************************************************************************)
(* The frame loop as a whole.                                              *)
(***************************************************************************)

Start(b) == St(b, <<>>, FALSE, FALSE)

LEMMA StartType ==
  ASSUME NEW b \in Seq(Byte)
  PROVE  Start(b) \in LoopState /\ <<>> \in Seq(Entries) /\ FALSE \in BOOLEAN /\ TRUE \in BOOLEAN
<1>1. <<>> \in Seq(Entries) /\ FALSE \in BOOLEAN /\ TRUE \in BOOLEAN
  OBVIOUS
<1> QED
  BY <1>1, StateType, Zenon DEF Start

\* A frame is read.
LEMMA ReadRound ==
  ASSUME NEW b \in Seq(Byte), ~Waits(b), ~TooLarge(b), NEW n \in Nat
  PROVE  Rounds(Start(b), n + 1) = Before(<<FirstEntry(b)>>, Rounds(Start(From(b, FirstSize(b) + 1)), n))
<1>1. PICK c \in Seq(Byte) : c = From(b, FirstSize(b) + 1)
  BY RestIs, Zenon
<1>2. PICK e \in Entries : e = FirstEntry(b)
  BY Zenon DEF Entries
<1>3. Rounds(Start(b), n + 1) = Rounds(FrameStep(Start(b)), n)
  BY StartType, RoundsFirst, Zenon
<1>4. FrameStep(Start(b)) = St(c, Append(<<>>, e), FALSE, FALSE)
  BY <1>1, <1>2, StartType, StepIs, Zenon DEF Start
<1>5. Append(<<>>, e) = <<e>> /\ <<e>> \o <<>> = <<e>> /\ <<e>> \in Seq(Entries)
  OBVIOUS
<1>6. BeforeAt(<<e>>, c, <<>>, FALSE, FALSE)
  BY BeforeIs, Zenon
<1>7. FrameStep(Start(b)) = Before(<<e>>, Start(c))
  BY <1>4, <1>5, <1>6, Zenon DEF BeforeAt, Start
<1>8. Rounds(Before(<<e>>, Start(c)), n) = Before(<<e>>, Rounds(Start(c), n))
  BY <1>5, StartType, BeforeRounds, Zenon
<1> QED
  BY <1>1, <1>2, <1>3, <1>7, <1>8, Zenon

\* The loop ends.
EndsAs(b, n, failed) == Rounds(Start(b), n + 1) = St(b, <<>>, TRUE, failed)

LEMMA EndRound ==
  ASSUME NEW b \in Seq(Byte), NEW n \in Nat
  PROVE  (Waits(b) => EndsAs(b, n, FALSE)) /\ (TooLarge(b) => EndsAs(b, n, TRUE))
<1>1. Rounds(Start(b), n + 1) = Rounds(FrameStep(Start(b)), n)
  BY StartType, RoundsFirst, Zenon
<1>2. ASSUME NEW f \in BOOLEAN, FrameStep(Start(b)) = St(b, <<>>, TRUE, f) PROVE EndsAs(b, n, f)
  <2>1. PICK r \in LoopState : r = St(b, <<>>, TRUE, f)
    BY StartType, StateType, Zenon
  <2>2. r.stop
    BY <2>1 DEF St
  <2>3. 0 \in Nat /\ 0 <= n
    OBVIOUS
  <2>4. Rounds(r, 0) = r
    BY <2>3, RoundsNext, Zenon
  <2>5. Rounds(r, n) = Rounds(r, 0)
    BY <2>2, <2>3, <2>4, RoundsStopped, Zenon
  <2> QED
    BY <1>1, <1>2, <2>1, <2>4, <2>5, Zenon DEF EndsAs
<1>3. Waits(b) => FrameStep(Start(b)) = St(b, <<>>, TRUE, FALSE)
  BY StartType, StepIs, Zenon DEF Start
<1>4. TooLarge(b) => FrameStep(Start(b)) = St(b, <<>>, TRUE, TRUE)
  BY StartType, StepIs, Zenon DEF Start
<1> QED
  BY <1>2, <1>3, <1>4, StartType, Zenon

LEMMA BeforeStop ==
  ASSUME NEW p, NEW at
  PROVE  /\ Before(p, at).stop = at.stop /\ Before(p, at).failed = at.failed
         /\ Before(p, at).buf = at.buf /\ Before(p, at).log = p \o at.log
BY DEF Before, St

\* It ends within one round for every nine octets and one more.
LEMMA RoundsEnd ==
  ASSUME NEW k \in Nat
  PROVE  \A b \in Seq(Byte) : Len(b) < 9 * k => Rounds(Start(b), k).stop
<1> DEFINE T == {i \in Nat : \A b \in Seq(Byte) : Len(b) < 9 * i => Rounds(Start(b), i).stop}
<1>1. 0 \in T
  <2>1. \A b \in Seq(Byte) : ~(Len(b) < 9 * 0)
    OBVIOUS
  <2> QED
    BY <2>1
<1>2. ASSUME NEW i \in Nat, i \in T PROVE i + 1 \in T
  <2>1. ASSUME NEW b \in Seq(Byte), Len(b) < 9 * (i + 1) PROVE Rounds(Start(b), i + 1).stop
    <3>1. CASE Waits(b)
      <4>1. Rounds(Start(b), i + 1) = St(b, <<>>, TRUE, FALSE)
        BY <3>1, EndRound, Zenon DEF EndsAs
      <4> QED
        BY <4>1 DEF St
    <3>2. CASE TooLarge(b)
      <4>1. Rounds(Start(b), i + 1) = St(b, <<>>, TRUE, TRUE)
        BY <3>2, EndRound, Zenon DEF EndsAs
      <4> QED
        BY <4>1 DEF St
    <3>3. CASE ~Waits(b) /\ ~TooLarge(b)
      <4>1. PICK c \in Seq(Byte) : c = From(b, FirstSize(b) + 1)
        BY <3>3, RestIs, Zenon
      <4>2. PICK m \in Nat, l \in Nat : m = Len(b) /\ l = FirstSize(b) /\ l >= 9 /\ l <= m /\ Len(c) = m - l
        BY <3>3, <4>1, RestIs
      <4>3. Len(c) < 9 * i
        BY <2>1, <4>2
      <4>4. \A a \in Seq(Byte) : Len(a) < 9 * i => Rounds(Start(a), i).stop
        BY <1>2
      <4>5. Rounds(Start(c), i).stop
        BY <4>3, <4>4, Zenon
      <4>6. PICK p, r : p = <<FirstEntry(b)>> /\ r = Rounds(Start(c), i)
        BY Zenon
      <4>7. Rounds(Start(b), i + 1) = Before(p, r)
        BY <3>3, <4>1, <4>6, ReadRound, Zenon
      <4>8. Before(p, r).stop = r.stop
        BY BeforeStop
      <4> QED
        BY <4>5, <4>6, <4>7, <4>8, Zenon
    <3> QED
      BY <3>1, <3>2, <3>3, Zenon
  <2>2. i + 1 \in Nat
    OBVIOUS
  <2> QED
    BY <2>1, <2>2, Zenon
<1>3. Nat \subseteq T
  <2> HIDE DEF T
  <2> QED
    BY <1>1, <1>2, SetInduction
<1> QED
  BY <1>3

\* More rounds than the loop takes make no difference.
LEMMA LoopIs ==
  ASSUME NEW b \in Seq(Byte), NEW n \in Nat, Len(b) < 9 * n
  PROVE  FrameLoop(b) = Rounds(Start(b), n)
<1>1. PICK m \in Nat, k \in Nat : /\ m = Len(b) /\ k = m \div 9 + 1 /\ m < 9 * k /\ k <= n
                                  /\ k = Len(b) \div 9 + 1
  <2>1. PICK m \in Nat : m = Len(b) /\ m < 9 * n
    OBVIOUS
  <2>2. m \div 9 + 1 \in Nat /\ m < 9 * (m \div 9 + 1) /\ m \div 9 + 1 <= n
    BY <2>1
  <2>3. PICK k \in Nat : k = m \div 9 + 1 /\ m < 9 * k /\ k <= n
    BY <2>2, Zenon
  <2> QED
    BY <2>1, <2>3, Zenon
<1>2. Rounds(Start(b), k).stop
  BY <1>1, RoundsEnd
<1>3. Rounds(Start(b), n) = Rounds(Start(b), k)
  BY <1>1, <1>2, StartType, RoundsStopped, Zenon
<1>4. FrameLoop(b) = Rounds(Start(b), k)
  BY <1>1, Zenon DEF FrameLoop, Start, St, HTTP2_FRAME_HEADER_SIZE
<1> QED
  BY <1>3, <1>4, Zenon

\* The frame loop unrolled by a round.
LoopEnds(b, failed) == FrameLoop(b) = St(b, <<>>, TRUE, failed)
LoopReads(b) == FrameLoop(b) = Before(<<FirstEntry(b)>>, FrameLoop(From(b, FirstSize(b) + 1)))

LEMMA LoopUnfold ==
  ASSUME NEW b \in Seq(Byte)
  PROVE  /\ FrameLoop(b) \in LoopState
         /\ Waits(b) => LoopEnds(b, FALSE)
         /\ TooLarge(b) => LoopEnds(b, TRUE)
         /\ ~Waits(b) /\ ~TooLarge(b) => LoopReads(b)
<1>1. PICK m \in Nat, n \in Nat : m = Len(b) /\ n = m \div 9 + 1 /\ m < 9 * n /\ m < 9 * (n + 1) /\ n + 1 \in Nat
  <2>1. PICK m \in Nat : m = Len(b)
    OBVIOUS
  <2>2. m \div 9 + 1 \in Nat /\ m < 9 * (m \div 9 + 1) /\ m < 9 * ((m \div 9 + 1) + 1) /\ (m \div 9 + 1) + 1 \in Nat
    OBVIOUS
  <2>3. PICK n \in Nat : n = m \div 9 + 1 /\ m < 9 * n /\ m < 9 * (n + 1) /\ n + 1 \in Nat
    BY <2>2, Zenon
  <2> QED
    BY <2>1, <2>3, Zenon
<1>2. FrameLoop(b) = Rounds(Start(b), n + 1)
  BY <1>1, LoopIs, Zenon
<1>3. Rounds(Start(b), n + 1) \in LoopState
  BY <1>1, StartType, RoundsNext, Zenon
<1>4. ASSUME ~Waits(b), ~TooLarge(b) PROVE LoopReads(b)
  <2>1. PICK c \in Seq(Byte) : c = From(b, FirstSize(b) + 1)
    BY <1>4, RestIs, Zenon
  <2>2. PICK l \in Nat : l = FirstSize(b) /\ l >= 9 /\ l <= m /\ Len(c) = m - l
    BY <1>1, <1>4, <2>1, RestIs
  <2>3. Len(c) < 9 * n
    BY <1>1, <2>2
  <2>4. FrameLoop(c) = Rounds(Start(c), n)
    BY <2>3, LoopIs, Zenon
  <2>5. Rounds(Start(b), n + 1) = Before(<<FirstEntry(b)>>, Rounds(Start(c), n))
    BY <1>4, <2>1, ReadRound, Zenon
  <2> QED
    BY <1>2, <2>1, <2>4, <2>5, Zenon DEF LoopReads
<1>5. (Waits(b) => LoopEnds(b, FALSE)) /\ (TooLarge(b) => LoopEnds(b, TRUE))
  <2>1. (Waits(b) => EndsAs(b, n, FALSE)) /\ (TooLarge(b) => EndsAs(b, n, TRUE))
    BY EndRound, Zenon
  <2> QED
    BY <1>2, <2>1, Zenon DEF EndsAs, LoopEnds
<1> QED
  BY <1>2, <1>3, <1>4, <1>5, Zenon

-----------------------------------------------------------------------------
(***************************************************************************)
(* Octets that come later.                                                 *)
(***************************************************************************)

\* A frame that can be read can be read with more behind it, and is the same.
LEMMA ReadSame ==
  ASSUME NEW a \in Seq(Byte), NEW c \in Seq(Byte), ~Waits(a), ~TooLarge(a)
  PROVE  /\ a \o c \in Seq(Byte) /\ ~Waits(a \o c) /\ ~TooLarge(a \o c)
         /\ FirstEntry(a \o c) = FirstEntry(a)
         /\ From(a \o c, FirstSize(a \o c) + 1) = From(a, FirstSize(a) + 1) \o c
<1>1. PICK m \in Nat, n \in Nat, l \in Nat :
        /\ m = Len(a) /\ n = Len(c) /\ l = FirstSize(a) /\ m >= 9 /\ l <= m
  BY RestIs
<1>2. Len(a) >= 9 /\ FirstSize(a) <= Len(a)
  BY <1>1, Zenon
<1>3. FirstHeader(a \o c) = FirstHeader(a) /\ FirstSize(a \o c) = FirstSize(a) /\ FirstEntry(a \o c) = FirstEntry(a)
  BY <1>2, FirstSame, Zenon
<1>4. a \o c \in Seq(Byte) /\ Len(a \o c) = Len(a) + Len(c)
  BY ConcatByPlace, Zenon
<1>5. From(a \o c, l + 1) = From(a, l + 1) \o c
  <2>1. l <= Len(a)
    BY <1>1, Zenon
  <2> QED
    BY <2>1, RestOfJoined, Zenon
<1>6. ~(m + n < 9) /\ m + n >= 9 /\ ~(l > m + n) /\ m >= 9 /\ ~(m < 9) /\ ~(l > m)
  BY <1>1
<1>7. ~(FirstHeader(a).length > MaxFrameSize)
  BY <1>1, Zenon DEF TooLarge, HTTP2_FRAME_HEADER_SIZE
<1>8. ~Waits(a \o c) /\ ~TooLarge(a \o c)
  BY <1>1, <1>3, <1>4, <1>6, <1>7, Zenon DEF Waits, TooLarge, HTTP2_FRAME_HEADER_SIZE
<1> QED
  BY <1>1, <1>3, <1>4, <1>5, <1>8, Zenon

\* One that is too large stays so.
LEMMA LargeSame ==
  ASSUME NEW a \in Seq(Byte), NEW c \in Seq(Byte), TooLarge(a)
  PROVE  a \o c \in Seq(Byte) /\ TooLarge(a \o c)
<1>1. PICK m \in Nat, n \in Nat : m = Len(a) /\ n = Len(c)
  OBVIOUS
<1>2. Len(a) >= 9 /\ m >= 9
  BY <1>1, Zenon DEF TooLarge, HTTP2_FRAME_HEADER_SIZE
<1>3. FirstHeader(a \o c) = FirstHeader(a)
  BY <1>2, FirstSame, Zenon
<1>4. a \o c \in Seq(Byte) /\ Len(a \o c) = Len(a) + Len(c)
  BY ConcatByPlace, Zenon
<1>5. m + n >= 9
  BY <1>1, <1>2
<1> QED
  BY <1>1, <1>3, <1>4, <1>5, Zenon DEF TooLarge, HTTP2_FRAME_HEADER_SIZE

\* The rest of a rest.
LEMMA RestOfRest ==
  ASSUME NEW S, NEW s \in Seq(S), NEW k \in 0..Len(s), NEW j \in 0..Len(From(s, k + 1))
  PROVE  \E i \in 0..Len(s) : From(From(s, k + 1), j + 1) = From(s, i + 1)
<1>1. PICK n \in Nat : n = Len(s) /\ k \in 0..n /\ k \in Nat
  OBVIOUS
<1>2. PICK p \in Seq(S), q \in Seq(S) :
        p = SubSeq(s, 1, k) /\ q = From(s, k + 1) /\ s = p \o q /\ Len(p) = k /\ Len(q) = n - k
  <2>1. /\ SubSeq(s, 1, k) \in Seq(S) /\ Len(SubSeq(s, 1, k)) = k
        /\ SubSeq(s, k + 1, Len(s)) \in Seq(S) /\ Len(SubSeq(s, k + 1, Len(s))) = Len(s) - k
        /\ s = SubSeq(s, 1, k) \o SubSeq(s, k + 1, Len(s))
    BY PartIs, ZenonT(60)
  <2> QED
    BY <1>1, <2>1, Zenon DEF From
<1>3. /\ j + 1 \in Nat \ {0} /\ Len(q) \in Nat /\ Len(q) <= Len(q) /\ k + Len(q) = n
      /\ k + (j + 1) = (k + j) + 1 /\ k + j \in 0..n
  <2>1. j \in 0..Len(q)
    BY <1>2, Zenon
  <2> QED
    BY <1>1, <1>2, <2>1
<1>4. SubSeq(p \o q, Len(p) + (j + 1), Len(p) + Len(q)) = SubSeq(q, j + 1, Len(q))
  BY <1>3, InBack, ZenonT(60)
<1>5. SubSeq(s, (k + j) + 1, Len(s)) = SubSeq(q, j + 1, Len(q))
  BY <1>1, <1>2, <1>3, <1>4, Zenon
<1> QED
  BY <1>1, <1>2, <1>3, <1>5, Zenon DEF From

\* What more octets make of r, the outcome without them: t is the outcome with
\* them, u the outcome of what r leaves with them.
Continues(r, t, u) ==
  /\ r.failed => t.log = r.log /\ t.failed
  /\ ~r.failed => t = Before(r.log, u)

\* What is left is a rest of what came, and waits for more.
Leaves(b, r) == (~r.failed => Waits(r.buf)) /\ \E k \in 0..Len(b) : r.buf = From(b, k + 1)

LEMMA BeforeTwice ==
  ASSUME NEW p \in Seq(Entries), NEW q \in Seq(Entries), NEW at \in LoopState
  PROVE  Before(p, Before(q, at)) = Before(p \o q, at) /\ Before(<<>>, at) = at
<1>1. PICK b \in Seq(Byte), l \in Seq(Entries), s \in BOOLEAN, f \in BOOLEAN : at = St(b, l, s, f)
  BY StatePick, Zenon
<1>2. BeforeAt(q, b, l, s, f) /\ BeforeAt(p, b, q \o l, s, f) /\ BeforeAt(p \o q, b, l, s, f) /\ BeforeAt(<<>>, b, l, s, f)
  BY BeforeIs, Zenon
<1>3. (p \o q) \o l = p \o (q \o l)
  BY ConcatAssociative
<1>4. <<>> \o l = l
  OBVIOUS
<1> QED
  BY <1>1, <1>2, <1>3, <1>4, Zenon DEF BeforeAt

LoopSplits(b) ==
  /\ Leaves(b, FrameLoop(b))
  /\ \A c \in Seq(Byte) : Continues(FrameLoop(b), FrameLoop(b \o c), FrameLoop(FrameLoop(b).buf \o c))

LEMMA SplitsAtOnce ==
  ASSUME NEW b \in Seq(Byte), Waits(b) \/ TooLarge(b)
  PROVE  LoopSplits(b)
<1>1. PICK r \in LoopState : r = FrameLoop(b)
  BY LoopUnfold, Zenon
<1>2. \E k \in 0..Len(b) : b = From(b, k + 1)
  <2>1. 0 \in 0..Len(b) /\ 0 + 1 = 1
    OBVIOUS
  <2>2. SubSeq(b, 1, Len(b)) = b
    BY SubSeqFull
  <2> QED
    BY <2>1, <2>2, Zenon DEF From
<1>3. CASE TooLarge(b)
  <2>1. r = St(b, <<>>, TRUE, TRUE)
    BY <1>1, <1>3, LoopUnfold, Zenon DEF LoopEnds
  <2>2. r.buf = b /\ r.log = <<>> /\ r.failed
    BY <2>1 DEF St
  <2>3. ASSUME NEW c \in Seq(Byte) PROVE FrameLoop(b \o c).log = <<>> /\ FrameLoop(b \o c).failed
    <3>1. PICK d \in Seq(Byte) : d = b \o c /\ TooLarge(d)
      BY <1>3, LargeSame, Zenon
    <3>2. FrameLoop(d) = St(d, <<>>, TRUE, TRUE)
      BY <3>1, LoopUnfold, Zenon DEF LoopEnds
    <3> QED
      BY <3>1, <3>2 DEF St
  <2> QED
    BY <1>1, <1>2, <2>2, <2>3, Zenon DEF LoopSplits, Leaves, Continues
<1>4. CASE Waits(b)
  <2>1. r = St(b, <<>>, TRUE, FALSE)
    BY <1>1, <1>4, LoopUnfold, Zenon DEF LoopEnds
  <2>2. r.buf = b /\ r.log = <<>> /\ ~r.failed
    BY <2>1 DEF St
  <2>3. ASSUME NEW c \in Seq(Byte) PROVE FrameLoop(b \o c) = Before(<<>>, FrameLoop(b \o c))
    <3>1. PICK d \in Seq(Byte) : d = b \o c
      BY ConcatByPlace, Zenon
    <3>2. PICK t \in LoopState : t = FrameLoop(d)
      BY LoopUnfold, Zenon
    <3>3. <<>> \in Seq(Entries)
      OBVIOUS
    <3>4. Before(<<>>, t) = t
      BY <3>3, BeforeTwice, Zenon
    <3> QED
      BY <3>1, <3>2, <3>4, Zenon
  <2> QED
    BY <1>1, <1>2, <1>4, <2>2, <2>3, Zenon DEF LoopSplits, Leaves, Continues
<1> QED
  BY <1>3, <1>4, Zenon

LEMMA SplitsLater ==
  ASSUME NEW b \in Seq(Byte), ~Waits(b), ~TooLarge(b), LoopSplits(From(b, FirstSize(b) + 1))
  PROVE  LoopSplits(b)
<1>1. PICK a \in Seq(Byte), k \in 0..Len(b) : a = From(b, FirstSize(b) + 1) /\ k = FirstSize(b)
  BY RestIs
<1>2. PICK e \in Entries : e = FirstEntry(b)
  BY Zenon DEF Entries
<1>3. <<e>> \in Seq(Entries)
  OBVIOUS
<1>4. PICK p \in Seq(Entries) : p = <<e>>
  BY <1>3, Zenon
<1>5. PICK r \in LoopState, q \in LoopState : r = FrameLoop(b) /\ q = FrameLoop(a)
  BY LoopUnfold, Zenon
<1>6. r = Before(p, q)
  BY <1>1, <1>2, <1>4, <1>5, LoopUnfold, Zenon DEF LoopReads
<1>7. r.buf = q.buf /\ r.log = p \o q.log /\ r.failed = q.failed
  BY <1>6, BeforeStop
<1>8. q.buf \in Seq(Byte) /\ q.log \in Seq(Entries) /\ q.failed \in BOOLEAN
  BY StateIs, Zenon
<1>9. Leaves(b, r)
  <2>1. Leaves(a, q)
    BY <1>1, <1>5, Zenon DEF LoopSplits
  <2>2. PICK j \in 0..Len(a) : q.buf = From(a, j + 1)
    BY <2>1, Zenon DEF Leaves
  <2>3. \E i \in 0..Len(b) : From(From(b, k + 1), j + 1) = From(b, i + 1)
    <3>1. j \in 0..Len(From(b, k + 1))
      BY <1>1, <2>2, Zenon
    <3> QED
      BY <3>1, RestOfRest
  <2> QED
    BY <1>1, <1>7, <2>1, <2>2, <2>3, Zenon DEF Leaves
<1>10. ASSUME NEW c \in Seq(Byte) PROVE Continues(r, FrameLoop(b \o c), FrameLoop(r.buf \o c))
  <2>1. PICK d \in Seq(Byte) : d = b \o c /\ ~Waits(d) /\ ~TooLarge(d) /\ FirstEntry(d) = e
                               /\ From(d, FirstSize(d) + 1) = a \o c
    BY <1>1, <1>2, ReadSame, Zenon
  <2>2. PICK y \in Seq(Byte) : y = a \o c
    BY ConcatByPlace, Zenon
  <2>3. PICK t \in LoopState, s \in LoopState : t = FrameLoop(d) /\ s = FrameLoop(y)
    BY LoopUnfold, Zenon
  <2>4. t = Before(p, s)
    BY <1>4, <2>1, <2>2, <2>3, LoopUnfold, Zenon DEF LoopReads
  <2>5. t.log = p \o s.log /\ t.failed = s.failed
    BY <2>4, BeforeStop
  <2>6. PICK z \in Seq(Byte) : z = q.buf \o c
    BY <1>8, ConcatByPlace, Zenon
  <2>7. PICK u \in LoopState : u = FrameLoop(z)
    BY LoopUnfold, Zenon
  <2>8. Continues(q, s, u)
    BY <1>1, <1>5, <2>2, <2>3, <2>6, <2>7, Zenon DEF LoopSplits
  <2>9. Continues(r, t, u)
    <3>1. CASE q.failed
      BY <1>7, <2>5, <2>8, <3>1, Zenon DEF Continues
    <3>2. CASE ~q.failed
      <4>1. s = Before(q.log, u)
        BY <2>8, <3>2, Zenon DEF Continues
      <4>2. Before(p, Before(q.log, u)) = Before(p \o q.log, u)
        BY <1>8, BeforeTwice, Zenon
      <4> QED
        BY <1>7, <2>4, <3>2, <4>1, <4>2, Zenon DEF Continues
    <3> QED
      BY <3>1, <3>2
  <2> QED
    BY <1>7, <2>1, <2>3, <2>6, <2>7, <2>9, Zenon
<1> QED
  BY <1>5, <1>9, <1>10, Zenon DEF LoopSplits

\* Whatever has come, the frames that are read are the ones that are read with
\* what comes later.
LEMMA Splits ==
  ASSUME NEW b \in Seq(Byte)
  PROVE  LoopSplits(b)
<1> DEFINE T == {n \in Nat : \A a \in Seq(Byte) : Len(a) < n => LoopSplits(a)}
<1>1. 0 \in T
  <2>1. \A a \in Seq(Byte) : ~(Len(a) < 0)
    OBVIOUS
  <2> QED
    BY <2>1
<1>2. ASSUME NEW n \in Nat, n \in T PROVE n + 1 \in T
  <2>1. ASSUME NEW a \in Seq(Byte), Len(a) < n + 1 PROVE LoopSplits(a)
    <3>1. CASE Waits(a) \/ TooLarge(a)
      BY <3>1, SplitsAtOnce, Zenon
    <3>2. CASE ~Waits(a) /\ ~TooLarge(a)
      <4>1. PICK c \in Seq(Byte) : c = From(a, FirstSize(a) + 1)
        BY <3>2, RestIs, Zenon
      <4>2. PICK m \in Nat, l \in Nat : m = Len(a) /\ l = FirstSize(a) /\ l >= 9 /\ l <= m /\ Len(c) = m - l
        BY <3>2, <4>1, RestIs
      <4>3. Len(c) < n
        BY <2>1, <4>2
      <4>4. LoopSplits(c)
        BY <1>2, <4>3, Zenon
      <4> QED
        BY <3>2, <4>1, <4>4, SplitsLater, Zenon
    <3> QED
      BY <3>1, <3>2, Zenon
  <2>2. n + 1 \in Nat
    OBVIOUS
  <2> QED
    BY <2>1, <2>2, Zenon
<1>3. Nat \subseteq T
  <2> HIDE DEF T
  <2> QED
    BY <1>1, <1>2, SetInduction
<1>4. PICK n \in Nat : Len(b) < n
  <2>1. Len(b) + 1 \in Nat /\ Len(b) < Len(b) + 1
    OBVIOUS
  <2> QED
    BY <2>1, Zenon
<1> QED
  BY <1>3, <1>4

-----------------------------------------------------------------------------
(***************************************************************************)
(* ReceivedData: the preface, then the frame loop.                         *)
(***************************************************************************)

Result(o, need, rest, read, failed) == o.need = need /\ o.rest = rest /\ o.log = read /\ o.failed = failed

\* The outcome where the preface is incomplete, where it is another, where it
\* has come, and where none is expected.
LEMMA OutcomeIs ==
  ASSUME NEW b
  PROVE  /\ Len(b) < Len(Preface) => Result(Outcome(TRUE, b), TRUE, b, <<>>, FALSE)
         /\ ~(Len(b) < Len(Preface)) /\ SubSeq(b, 1, Len(Preface)) # Preface
              => Result(Outcome(TRUE, b), TRUE, b, <<>>, TRUE)
         /\ ~(Len(b) < Len(Preface)) /\ SubSeq(b, 1, Len(Preface)) = Preface
              => LET r == FrameLoop(From(b, Len(Preface) + 1))
                 IN  Result(Outcome(TRUE, b), FALSE, r.buf, r.log, r.failed)
         /\ LET r == FrameLoop(b) IN Result(Outcome(FALSE, b), FALSE, r.buf, r.log, r.failed)
<1>1. Len(b) < Len(Preface) => Result(Outcome(TRUE, b), TRUE, b, <<>>, FALSE)
  BY DEF Outcome, Result
<1>2. ~(Len(b) < Len(Preface)) /\ SubSeq(b, 1, Len(Preface)) # Preface
        => Result(Outcome(TRUE, b), TRUE, b, <<>>, TRUE)
  BY DEF Outcome, Result
<1>3. ASSUME ~(Len(b) < Len(Preface)), SubSeq(b, 1, Len(Preface)) = Preface, NEW r,
             r = FrameLoop(From(b, Len(Preface) + 1))
      PROVE  Result(Outcome(TRUE, b), FALSE, r.buf, r.log, r.failed)
  BY <1>3 DEF Outcome, Result
<1>4. ASSUME NEW r, r = FrameLoop(b) PROVE Result(Outcome(FALSE, b), FALSE, r.buf, r.log, r.failed)
  BY <1>4 DEF Outcome, Result
<1> QED
  BY <1>1, <1>2, <1>3, <1>4, Zenon

\* Nothing can be read of what is held.
Quiet(need, b) == Outcome(need, b).log = <<>> /\ ~Outcome(need, b).failed

OutcomeOK(o, b) ==
  /\ o.need \in BOOLEAN /\ o.rest \in Seq(Byte) /\ o.log \in Seq(Entries) /\ o.failed \in BOOLEAN
  /\ ~o.failed => Quiet(o.need, o.rest)
  /\ \E k \in 0..Len(b) : o.rest = From(b, k + 1)

\* The frame loop on x, which is a rest of b.
LEMMA LoopOK ==
  ASSUME NEW x \in Seq(Byte), NEW o, NEW r, r = FrameLoop(x), Result(o, FALSE, r.buf, r.log, r.failed),
         NEW b \in Seq(Byte), NEW k \in 0..Len(b), x = From(b, k + 1)
  PROVE  OutcomeOK(o, b)
<1>1. r \in LoopState /\ Leaves(x, r)
  BY LoopUnfold, Splits, Zenon DEF LoopSplits
<1>2. r.buf \in Seq(Byte) /\ r.log \in Seq(Entries) /\ r.failed \in BOOLEAN
  BY <1>1, StateIs, Zenon
<1>3. PICK j \in 0..Len(x) : r.buf = From(x, j + 1)
  BY <1>1, Zenon DEF Leaves
<1>4. \E i \in 0..Len(b) : From(From(b, k + 1), j + 1) = From(b, i + 1)
  <2>1. j \in 0..Len(From(b, k + 1))
    BY <1>3, Zenon
  <2> QED
    BY <2>1, RestOfRest
<1>5. ASSUME ~r.failed PROVE Quiet(FALSE, r.buf)
  <2>1. PICK h \in Seq(Byte) : h = r.buf /\ Waits(h)
    BY <1>1, <1>2, <1>5, Zenon DEF Leaves
  <2>2. PICK q : q = FrameLoop(h) /\ q = St(h, <<>>, TRUE, FALSE)
    BY <2>1, LoopUnfold, Zenon DEF LoopEnds
  <2>3. q.log = <<>> /\ ~q.failed
    BY <2>2 DEF St
  <2>4. Result(Outcome(FALSE, h), FALSE, q.buf, q.log, q.failed)
    BY <2>2, OutcomeIs, Zenon
  <2> QED
    BY <2>1, <2>3, <2>4, Zenon DEF Result, Quiet
<1> QED
  BY <1>2, <1>3, <1>4, <1>5, Zenon DEF Result, OutcomeOK

LEMMA PrefaceLength == Preface \in Seq(Byte) /\ Len(Preface) \in Nat
BY FrameStreamAssumption

LEMMA OutcomeType ==
  ASSUME NEW need \in BOOLEAN, NEW b \in Seq(Byte)
  PROVE  OutcomeOK(Outcome(need, b), b)
<1>1. PICK n \in Nat, m \in Nat : n = Len(Preface) /\ m = Len(b)
  BY PrefaceLength
<1>2. PICK o : o = Outcome(need, b)
  BY Zenon
<1>3. PICK z \in 0..Len(b) : b = From(b, z + 1)
  <2>1. 0 \in 0..Len(b) /\ 0 + 1 = 1
    OBVIOUS
  <2>2. SubSeq(b, 1, Len(b)) = b
    BY SubSeqFull
  <2> QED
    BY <2>1, <2>2, Zenon DEF From
<1>4. <<>> \in Seq(Entries)
  OBVIOUS
<1>5. CASE ~need
  <2>1. PICK r : r = FrameLoop(b)
    BY Zenon
  <2>2. Result(o, FALSE, r.buf, r.log, r.failed)
    BY <1>2, <1>5, <2>1, OutcomeIs, Zenon
  <2> QED
    BY <1>2, <1>3, <2>1, <2>2, LoopOK, Zenon
<1>6. CASE need /\ Len(b) < Len(Preface)
  <2>1. Result(o, TRUE, b, <<>>, FALSE) /\ need = TRUE
    BY <1>2, <1>6, OutcomeIs, Zenon
  <2> QED
    BY <1>2, <1>3, <1>4, <2>1, Zenon DEF Result, OutcomeOK, Quiet
<1>7. CASE need /\ ~(Len(b) < Len(Preface)) /\ SubSeq(b, 1, Len(Preface)) # Preface
  <2>1. Result(o, TRUE, b, <<>>, TRUE) /\ need = TRUE
    BY <1>2, <1>7, OutcomeIs, Zenon
  <2> QED
    BY <1>2, <1>3, <1>4, <2>1, Zenon DEF Result, OutcomeOK, Quiet
<1>8. CASE need /\ ~(Len(b) < Len(Preface)) /\ SubSeq(b, 1, Len(Preface)) = Preface
  <2>1. n \in 0..m
    BY <1>1, <1>8
  <2>2. n \in 0..Len(b)
    BY <1>1, <2>1, Zenon
  <2>3. PICK x \in Seq(Byte) : x = From(b, n + 1)
    BY <2>2, PartIs, Zenon DEF From
  <2>4. PICK r : r = FrameLoop(x)
    BY Zenon
  <2>5. Result(o, FALSE, r.buf, r.log, r.failed)
    BY <1>1, <1>2, <1>8, <2>3, <2>4, OutcomeIs, Zenon
  <2> QED
    BY <1>2, <2>2, <2>3, <2>4, <2>5, LoopOK, Zenon
<1> QED
  BY <1>5, <1>6, <1>7, <1>8, Zenon

\* What more octets make of the outcome r: t with them, u of what r leaves.
Joins(r, t, u) ==
  /\ r.failed => t.log = r.log /\ t.failed
  /\ ~r.failed => t.log = r.log \o u.log /\ t.failed = u.failed

LEMMA LoopJoins ==
  ASSUME NEW x \in Seq(Byte), NEW c \in Seq(Byte), NEW r, NEW t, NEW p, NEW q,
         p = FrameLoop(x), Result(r, FALSE, p.buf, p.log, p.failed),
         q = FrameLoop(x \o c), Result(t, FALSE, q.buf, q.log, q.failed)
  PROVE  Joins(r, t, Outcome(r.need, r.rest \o c))
<1>1. PICK s, u : s = FrameLoop(p.buf \o c) /\ u = Outcome(r.need, r.rest \o c)
  BY Zenon
<1>2. Continues(p, q, s)
  BY <1>1, Splits, Zenon DEF LoopSplits
<1>3. Result(Outcome(FALSE, p.buf \o c), FALSE, s.buf, s.log, s.failed)
  BY <1>1, OutcomeIs, Zenon
<1>4. u.log = s.log /\ u.failed = s.failed
  BY <1>1, <1>3, Zenon DEF Result
<1>5. CASE p.failed
  BY <1>1, <1>2, <1>5, Zenon DEF Result, Joins, Continues
<1>6. CASE ~p.failed
  <2>1. q = Before(p.log, s)
    BY <1>2, <1>6, Zenon DEF Continues
  <2>2. Before(p.log, s).log = p.log \o s.log /\ Before(p.log, s).failed = s.failed
    BY BeforeStop
  <2> QED
    BY <1>1, <1>4, <1>6, <2>1, <2>2, Zenon DEF Result, Joins
<1> QED
  BY <1>5, <1>6

LEMMA OutcomeJoins ==
  ASSUME NEW need \in BOOLEAN, NEW a \in Seq(Byte), NEW c \in Seq(Byte), NEW r, r = Outcome(need, a)
  PROVE  Joins(r, Outcome(need, a \o c), Outcome(r.need, r.rest \o c))
<1>1. PICK n \in Nat, m \in Nat, l \in Nat : n = Len(Preface) /\ m = Len(a) /\ l = Len(c)
  BY PrefaceLength
<1>2. PICK d \in Seq(Byte) : d = a \o c /\ Len(d) = m + l
  BY <1>1, ConcatByPlace, Zenon
<1>3. PICK t : t = Outcome(need, d)
  BY Zenon
<1>4. CASE ~need
  <2>1. PICK p, q : p = FrameLoop(a) /\ q = FrameLoop(d)
    BY Zenon
  <2>2. Result(r, FALSE, p.buf, p.log, p.failed) /\ Result(t, FALSE, q.buf, q.log, q.failed)
    BY <1>3, <1>4, <2>1, OutcomeIs, Zenon
  <2> QED
    BY <1>2, <1>3, <2>1, <2>2, LoopJoins, Zenon
<1>5. CASE need /\ Len(a) < Len(Preface)
  <2>1. Result(r, TRUE, a, <<>>, FALSE) /\ need = TRUE
    BY <1>5, OutcomeIs, Zenon
  <2>2. t.log \in Seq(Entries)
    BY <1>3, OutcomeType, Zenon DEF OutcomeOK
  <2>3. <<>> \o t.log = t.log
    BY <2>2
  <2> QED
    BY <1>2, <1>3, <2>1, <2>3, Zenon DEF Result, Joins
<1>6. CASE need /\ ~(Len(a) < Len(Preface))
  <2>1. n \in 0..m /\ n <= m /\ ~(m + l < n) /\ 1 \in Nat \ {0}
    BY <1>1, <1>6
  <2>2. n \in 0..Len(a) /\ n <= Len(a)
    BY <1>1, <2>1, Zenon
  <2>3. SubSeq(d, 1, n) = SubSeq(a, 1, n)
    BY <1>2, <2>1, <2>2, InFront, ZenonT(60)
  <2>4. ~(Len(d) < Len(Preface)) /\ SubSeq(d, 1, Len(Preface)) = SubSeq(a, 1, Len(Preface))
    BY <1>1, <1>2, <2>1, <2>3, Zenon
  <2>5. CASE SubSeq(a, 1, Len(Preface)) # Preface
    <3>1. Result(r, TRUE, a, <<>>, TRUE) /\ Result(t, TRUE, d, <<>>, TRUE)
      BY <1>3, <1>6, <2>4, <2>5, OutcomeIs, Zenon
    <3> QED
      BY <1>2, <1>3, <3>1, Zenon DEF Result, Joins
  <2>6. CASE SubSeq(a, 1, Len(Preface)) = Preface
    <3>1. PICK x \in Seq(Byte) : x = From(a, n + 1)
      BY <2>2, PartIs, Zenon DEF From
    <3>2. From(d, n + 1) = x \o c
      BY <1>2, <2>2, <3>1, RestOfJoined, Zenon
    <3>3. PICK p, q : p = FrameLoop(x) /\ q = FrameLoop(x \o c)
      BY Zenon
    <3>4. Result(r, FALSE, p.buf, p.log, p.failed) /\ Result(t, FALSE, q.buf, q.log, q.failed)
      BY <1>1, <1>3, <1>6, <2>4, <2>6, <3>1, <3>2, <3>3, OutcomeIs, Zenon
    <3> QED
      BY <1>2, <1>3, <3>3, <3>4, LoopJoins, Zenon
  <2> QED
    BY <2>5, <2>6
<1> QED
  BY <1>4, <1>5, <1>6, Zenon

-----------------------------------------------------------------------------
(***************************************************************************)
(* Calls of ReceivedData.                                                  *)
(***************************************************************************)

StreamType ==
  /\ server \in BOOLEAN /\ needPreface \in BOOLEAN /\ closed \in BOOLEAN
  /\ octets \in Seq(Byte) /\ wire \in Seq(Byte) /\ held \in Seq(Byte)
  /\ log \in Seq(Entries)

\* While the connection is open, the frames read so far and those that can be
\* read of the octets held, with all that are to come, are the frames that are
\* read at once.
StillToRead ==
  LET rest == Outcome(needPreface, held \o wire)
  IN  AtOnce.log = log \o rest.log /\ AtOnce.failed = rest.failed

RestOfOctets == \E n \in 0..Len(octets) : held \o wire = From(octets, n + 1)

StreamInv ==
  /\ StreamType
  /\ closed => log = AtOnce.log /\ AtOnce.failed
  /\ ~closed => StillToRead /\ Quiet(needPreface, held) /\ RestOfOctets

\* There is nothing to read of nothing.
LEMMA QuietEmpty ==
  ASSUME NEW need \in BOOLEAN
  PROVE  Quiet(need, <<>>)
<1>1. PICK z \in Seq(Byte), n \in Nat : z = <<>> /\ Len(z) = 0 /\ n = Len(Preface)
  <2>1. <<>> \in Seq(Byte) /\ Len(<<>>) = 0
    OBVIOUS
  <2> QED
    BY <2>1, PrefaceLength, Zenon
<1>2. Waits(z)
  BY <1>1 DEF Waits, HTTP2_FRAME_HEADER_SIZE
<1>3. PICK q : q = FrameLoop(z) /\ q = St(z, <<>>, TRUE, FALSE)
  BY <1>2, LoopUnfold, Zenon DEF LoopEnds
<1>4. q.log = <<>> /\ ~q.failed
  BY <1>3 DEF St
<1>5. CASE ~need
  <2>1. Result(Outcome(FALSE, z), FALSE, q.buf, q.log, q.failed) /\ need = FALSE
    BY <1>3, <1>5, OutcomeIs, Zenon
  <2> QED
    BY <1>1, <1>4, <2>1, Zenon DEF Result, Quiet
<1>6. CASE need /\ Len(z) < Len(Preface)
  <2>1. Result(Outcome(TRUE, z), TRUE, z, <<>>, FALSE) /\ need = TRUE
    BY <1>6, OutcomeIs, Zenon
  <2> QED
    BY <1>1, <2>1, Zenon DEF Result, Quiet
<1>7. CASE need /\ ~(Len(z) < Len(Preface))
  <2>1. n = 0 /\ 0 + 1 = 1
    BY <1>1, <1>7
  <2>2. Preface = <<>> /\ SubSeq(z, 1, 0) = <<>> /\ SubSeq(z, 1, Len(z)) = z
    <3>1. PICK q0 \in Seq(Byte) : q0 = Preface /\ Len(q0) = 0
      BY <1>1, <2>1, PrefaceLength, Zenon
    <3>2. q0 = <<>>
      BY <3>1, EmptySeq
    <3>3. SubSeq(z, 1, Len(z)) = z
      BY SubSeqFull
    <3> QED
      BY <1>1, <3>1, <3>2, <3>3, Zenon
  <2>3. SubSeq(z, 1, Len(Preface)) = Preface /\ From(z, Len(Preface) + 1) = z
    BY <1>1, <2>1, <2>2, Zenon DEF From
  <2>4. Result(Outcome(TRUE, z), FALSE, q.buf, q.log, q.failed) /\ need = TRUE
    BY <1>3, <1>7, <2>3, OutcomeIs, Zenon
  <2> QED
    BY <1>1, <1>4, <2>4, Zenon DEF Result, Quiet
<1> QED
  BY <1>5, <1>6, <1>7, Zenon

LEMMA StreamInvInit == StreamInit => StreamInv
<1> SUFFICES ASSUME StreamInit PROVE StreamInv
  OBVIOUS
<1>1. /\ server \in BOOLEAN /\ octets \in Seq(Byte) /\ needPreface = server /\ wire = octets
      /\ held = <<>> /\ log = <<>> /\ closed = FALSE
  BY Zenon DEF StreamInit
<1>2. <<>> \in Seq(Byte) /\ <<>> \in Seq(Entries) /\ <<>> \o octets = octets /\ Len(<<>>) = 0
  BY <1>1
<1>3. PICK o : o = Outcome(server, octets) /\ o.log \in Seq(Entries)
  BY <1>1, OutcomeType, Zenon DEF OutcomeOK
<1>4. <<>> \o o.log = o.log
  BY <1>3
<1>5. RestOfOctets
  <2>1. 0 \in 0..Len(octets) /\ 0 + 1 = 1
    BY <1>1
  <2>2. SubSeq(octets, 1, Len(octets)) = octets
    BY <1>1, SubSeqFull
  <2> QED
    BY <1>1, <1>2, <2>1, <2>2, Zenon DEF From, RestOfOctets
<1>6. Quiet(server, <<>>)
  BY <1>1, QuietEmpty, Zenon
<1> QED
  BY <1>1, <1>2, <1>3, <1>4, <1>5, <1>6, Zenon DEF StreamInv, StreamType, StillToRead, AtOnce

\* What a call receives, and what is to come.
LEMMA WirePart ==
  ASSUME StreamType, NEW count \in 1..Len(wire), NEW a, a = held \o SubSeq(wire, 1, count),
         NEW c, c = From(wire, count + 1)
  PROVE  a \in Seq(Byte) /\ c \in Seq(Byte) /\ a \o c = held \o wire
<1>1. held \in Seq(Byte) /\ wire \in Seq(Byte)
  BY Zenon DEF StreamType
<1>2. count \in 0..Len(wire)
  BY <1>1
<1>3. PICK w \in Seq(Byte) : w = SubSeq(wire, 1, count) /\ c \in Seq(Byte) /\ wire = w \o c
  BY <1>1, <1>2, PartIs, Zenon DEF From
<1>4. held \o w \in Seq(Byte)
  BY <1>1, ConcatByPlace, Zenon
<1>5. (held \o w) \o c = held \o (w \o c)
  BY <1>1, <1>3, ConcatAssociative, SMTT(30)
<1> QED
  BY <1>3, <1>4, <1>5, Zenon

LEMMA StreamInvStep ==
  ASSUME StreamInv, NEW count \in 1..Len(wire), ReceivedData(count)
  PROVE  StreamInv'
<1>1. PICK a, c : a = held \o SubSeq(wire, 1, count) /\ c = From(wire, count + 1)
  BY Zenon
<1>2. PICK r : r = Outcome(needPreface, a)
  BY Zenon
<1>3. /\ ~closed /\ needPreface' = r.need /\ held' = r.rest /\ log' = log \o r.log /\ closed' = r.failed
      /\ wire' = c /\ server' = server /\ octets' = octets
  BY <1>1, <1>2, Zenon DEF ReceivedData
<1>4. StreamType /\ StillToRead /\ RestOfOctets
  BY <1>3, Zenon DEF StreamInv
<1>5. a \in Seq(Byte) /\ c \in Seq(Byte) /\ a \o c = held \o wire
  BY <1>1, <1>4, WirePart, Zenon
<1>6. needPreface \in BOOLEAN /\ log \in Seq(Entries) /\ octets \in Seq(Byte) /\ server \in BOOLEAN
  BY <1>4, Zenon DEF StreamType
<1>7. OutcomeOK(r, a)
  BY <1>2, <1>5, <1>6, OutcomeType, Zenon
<1>8. PICK t, u : t = Outcome(needPreface, held \o wire) /\ u = Outcome(r.need, r.rest \o c)
  BY Zenon
<1>9. Joins(r, t, u)
  BY <1>2, <1>5, <1>6, <1>8, OutcomeJoins, Zenon
<1>10. AtOnce' = AtOnce
  BY <1>3, Zenon DEF AtOnce
<1>11. AtOnce.log = log \o t.log /\ AtOnce.failed = t.failed
  BY <1>4, <1>8, Zenon DEF StillToRead
<1>12. log \o r.log \in Seq(Entries)
  BY <1>6, <1>7, ConcatByPlace, Zenon DEF OutcomeOK
<1>13. StreamType'
  BY <1>3, <1>5, <1>6, <1>7, <1>12, Zenon DEF StreamType, OutcomeOK
<1>14. ASSUME closed' PROVE (log = AtOnce.log /\ AtOnce.failed)'
  BY <1>3, <1>9, <1>10, <1>11, <1>14, Zenon DEF Joins
<1>15. ASSUME ~closed' PROVE (StillToRead /\ Quiet(needPreface, held) /\ RestOfOctets)'
  <2>1. t.log = r.log \o u.log /\ t.failed = u.failed
    BY <1>3, <1>9, <1>15, Zenon DEF Joins
  <2>2. r.rest \o c \in Seq(Byte)
    BY <1>5, <1>7, ConcatByPlace, Zenon DEF OutcomeOK
  <2>3. u.log \in Seq(Entries) /\ r.log \in Seq(Entries)
    BY <1>7, <1>8, <2>2, OutcomeType, Zenon DEF OutcomeOK
  <2>4. (log \o r.log) \o u.log = log \o (r.log \o u.log)
    <3>1. PICK x \in Seq(Entries), y \in Seq(Entries), z \in Seq(Entries) : x = log /\ y = r.log /\ z = u.log
      BY <1>6, <2>3, Zenon
    <3>2. (x \o y) \o z = x \o (y \o z)
      BY ConcatAssociative, SMTT(30)
    <3> QED
      BY <3>1, <3>2, Zenon
  <2>5. StillToRead'
    BY <1>3, <1>8, <1>10, <1>11, <2>1, <2>4, Zenon DEF StillToRead
  <2>6. Quiet(needPreface, held)'
    BY <1>3, <1>7, <1>15, Zenon DEF OutcomeOK, Quiet
  <2>7. RestOfOctets'
    <3>1. PICK k \in 0..Len(a) : r.rest = From(a, k + 1)
      BY <1>7, Zenon DEF OutcomeOK
    <3>2. k \in Nat /\ k <= Len(a)
      BY <1>5
    <3>3. From(a \o c, k + 1) = From(a, k + 1) \o c
      BY <1>5, <3>2, RestOfJoined, Zenon
    <3>4. PICK n \in 0..Len(octets) : held \o wire = From(octets, n + 1)
      BY <1>4, Zenon DEF RestOfOctets
    <3>5. k \in 0..Len(From(octets, n + 1))
      <4>1. PICK x \in Nat, y \in Nat : x = Len(a) /\ y = Len(c) /\ Len(a \o c) = x + y
        BY <1>5, ConcatByPlace
      <4>2. k \in 0..(x + y)
        BY <4>1
      <4> QED
        BY <1>5, <3>4, <4>1, <4>2, Zenon
    <3>6. \E i \in 0..Len(octets) : From(From(octets, n + 1), k + 1) = From(octets, i + 1)
      BY <1>6, <3>5, RestOfRest
    <3> QED
      BY <1>3, <1>5, <3>1, <3>3, <3>4, <3>6, Zenon DEF RestOfOctets
  <2> QED
    BY <2>5, <2>6, <2>7, Zenon
<1> QED
  BY <1>13, <1>14, <1>15, Zenon DEF StreamInv

LEMMA StreamInvImplies ==
  ASSUME StreamInv
  PROVE  PortionsDoNotMatter
<1>1. /\ server \in BOOLEAN /\ closed \in BOOLEAN /\ octets \in Seq(Byte) /\ wire \in Seq(Byte) /\ held \in Seq(Byte)
      /\ log \in Seq(Entries) /\ needPreface \in BOOLEAN
  BY Zenon DEF StreamInv, StreamType
<1>2. AtOnce.log \in Seq(Entries) /\ AtOnce.failed \in BOOLEAN
  BY <1>1, OutcomeType, Zenon DEF AtOnce, OutcomeOK
<1>3. ASSUME NEW x \in Seq(Entries), AtOnce.log = log \o x PROVE IsPrefix(log, AtOnce.log)
  <2>1. Len(log) \in Nat /\ Len(log) <= Len(log) /\ 1 \in Nat \ {0}
    BY <1>1
  <2>2. SubSeq(log \o x, 1, Len(log)) = SubSeq(log, 1, Len(log))
    BY <1>1, <2>1, InFront, Zenon
  <2>3. Len(log \o x) = Len(log) + Len(x) /\ Len(x) \in Nat
    BY <1>1, ConcatByPlace
  <2>4. Len(log) <= Len(log \o x)
    BY <2>1, <2>3
  <2> QED
    BY <1>3, <2>2, <2>4, Zenon DEF IsPrefix
<1>4. CASE closed
  <2>1. log = AtOnce.log /\ AtOnce.failed
    BY <1>4, Zenon DEF StreamInv
  <2>2. <<>> \in Seq(Entries) /\ log \o <<>> = log
    BY <1>1
  <2>3. IsPrefix(log, AtOnce.log)
    BY <1>3, <2>1, <2>2, Zenon
  <2>4. closed = AtOnce.failed
    BY <1>1, <1>2, <1>4, <2>1, Zenon
  <2> QED
    BY <1>4, <2>1, <2>3, <2>4, Zenon DEF PortionsDoNotMatter
<1>5. CASE ~closed
  <2>1. PICK u : u = Outcome(needPreface, held \o wire)
    BY Zenon
  <2>2. AtOnce.log = log \o u.log /\ AtOnce.failed = u.failed /\ Quiet(needPreface, held) /\ RestOfOctets
    BY <1>5, <2>1, Zenon DEF StreamInv, StillToRead
  <2>3. held \o wire \in Seq(Byte)
    BY <1>1, ConcatByPlace, Zenon
  <2>4. u.log \in Seq(Entries)
    BY <1>1, <2>1, <2>3, OutcomeType, Zenon DEF OutcomeOK
  <2>5. IsPrefix(log, AtOnce.log)
    BY <1>3, <2>2, <2>4, Zenon
  <2>6. ASSUME wire = <<>> PROVE log = AtOnce.log /\ closed = AtOnce.failed
    <3>1. held \o wire = held /\ log \o <<>> = log
      BY <1>1, <2>6
    <3>2. u.log = <<>> /\ ~u.failed
      BY <2>1, <2>2, <3>1, Zenon DEF Quiet
    <3> QED
      BY <1>1, <1>2, <1>5, <2>2, <3>1, <3>2, Zenon
  <2> QED
    BY <1>5, <2>2, <2>5, <2>6, Zenon DEF PortionsDoNotMatter, RestOfOctets
<1> QED
  BY <1>4, <1>5

LEMMA StreamInvKept ==
  ASSUME StreamInv, [StreamNext]_vars
  PROVE  StreamInv'
<1>1. CASE StreamNext
  <2>1. PICK count \in 1..Len(wire) : ReceivedData(count)
    BY <1>1, Zenon DEF StreamNext
  <2> QED
    BY <2>1, StreamInvStep, Zenon
<1>2. CASE UNCHANGED vars
  <2>1. /\ server' = server /\ octets' = octets /\ needPreface' = needPreface /\ wire' = wire
        /\ held' = held /\ log' = log /\ closed' = closed
    BY <1>2, Zenon DEF vars
  <2> QED
    BY <2>1, Zenon DEF StreamInv, StreamType, StillToRead, AtOnce, RestOfOctets, Quiet
<1> QED
  BY <1>1, <1>2

\* Where the octets of frames are divided between calls of ReceivedData makes no
\* difference, whatever octets come, whatever the preface and the limit are and
\* however long the octets of a frame are in coming: the frames are the ones that
\* one call with everything reads, and so is the refusal.
THEOREM PortionsDoNotMatterAlways == StreamSpec => []PortionsDoNotMatter
<1>1. StreamInv => PortionsDoNotMatter
  BY StreamInvImplies
<1> QED
  BY <1>1, StreamInvInit, StreamInvKept, PTL DEF StreamSpec

-----------------------------------------------------------------------------
(***************************************************************************)
(* Numbers in network order.                                               *)
(***************************************************************************)

\* Four octets, place by place.
FourAre(p, w, x, y, z) ==
  p \in Seq(Byte) /\ Len(p) = 4 /\ p[1] = w /\ p[2] = x /\ p[3] = y /\ p[4] = z

LEMMA FourSame ==
  ASSUME NEW p, NEW q, NEW w, NEW x, NEW y, NEW z, FourAre(p, w, x, y, z), FourAre(q, w, x, y, z)
  PROVE  p = q
<1>1. p \in Seq(Byte) /\ q \in Seq(Byte) /\ Len(p) = 4 /\ Len(q) = 4
  BY Zenon DEF FourAre
<1>2. p[1] = q[1] /\ p[2] = q[2] /\ p[3] = q[3] /\ p[4] = q[4]
  BY Zenon DEF FourAre
<1>3. \A i \in 1..4 : p[i] = q[i]
  BY <1>2
<1> QED
  BY <1>1, <1>3, SeqEqual

LEMMA FourOf ==
  ASSUME NEW p \in Seq(Byte), Len(p) = 4
  PROVE  \E w \in Byte, x \in Byte, y \in Byte, z \in Byte : FourAre(p, w, x, y, z)
<1>1. 1 \in 1..Len(p) /\ 2 \in 1..Len(p) /\ 3 \in 1..Len(p) /\ 4 \in 1..Len(p)
  OBVIOUS
<1>2. p[1] \in Byte /\ p[2] \in Byte /\ p[3] \in Byte /\ p[4] \in Byte
  BY <1>1, ElementOfSeq
<1>3. FourAre(p, p[1], p[2], p[3], p[4])
  BY Zenon DEF FourAre
<1> QED
  BY <1>2, <1>3, Zenon

LEMMA PutPair ==
  ASSUME NEW x \in Byte, NEW y \in Byte
  PROVE  /\ put_uint16_in_be_stream(256 * x + y) \in Seq(Byte) /\ Len(put_uint16_in_be_stream(256 * x + y)) = 2
         /\ put_uint16_in_be_stream(256 * x + y)[1] = x /\ put_uint16_in_be_stream(256 * x + y)[2] = y
<1>1. (256 * x + y) \div 256 = x /\ (256 * x + y) % 256 = y
  BY DEF Byte
<1>2. put_uint16_in_be_stream(256 * x + y) = <<x, y>>
  BY <1>1, Zenon DEF put_uint16_in_be_stream
<1>3. <<x, y>> \in Seq(Byte) /\ Len(<<x, y>>) = 2 /\ <<x, y>>[1] = x /\ <<x, y>>[2] = y
  OBVIOUS
<1> QED
  BY <1>2, <1>3, Zenon

\* Two pairs of octets.
LEMMA PairsAre ==
  ASSUME NEW p \in Seq(Byte), NEW q \in Seq(Byte), Len(p) = 2, Len(q) = 2
  PROVE  FourAre(p \o q, p[1], p[2], q[1], q[2])
<1>1. /\ p \o q \in Seq(Byte) /\ Len(p \o q) = Len(p) + Len(q) /\ (\A i \in 1..Len(p) : (p \o q)[i] = p[i])
      /\ \A i \in 1..Len(q) : (p \o q)[Len(p) + i] = q[i]
  BY ConcatByPlace
<1>2. PICK r \in Seq(Byte) : r = p \o q
  BY <1>1, Zenon
<1>3. Len(r) = 4 /\ r[1] = p[1] /\ r[2] = p[2] /\ r[3] = q[1] /\ r[4] = q[2]
  BY <1>1, <1>2
<1> QED
  BY <1>2, <1>3, Zenon DEF FourAre

Word == 0..MaxShort
Twice(a, b) == 65536 * a + b
High(n) == n \div 65536
Low(n) == n % 65536

LEMMA PairType ==
  ASSUME NEW x \in Byte, NEW y \in Byte
  PROVE  256 * x + y \in Word
<1>1. 256 * x + y \in Nat /\ 256 * x + y <= 65535
  BY SMT DEF Byte
<1>2. 256 * x + y <= MaxShort /\ MaxShort \in Nat
  BY <1>1, SMT DEF MaxShort
<1> QED
  BY <1>1, <1>2, SMT DEF Word

LEMMA QuadIs ==
  ASSUME NEW w \in Byte, NEW x \in Byte, NEW y \in Byte, NEW z \in Byte
  PROVE  Quad(w, x, y, z) = Twice(256 * w + x, 256 * y + z)
BY SMT DEF Byte, Quad, Twice

LEMMA TwiceParts ==
  ASSUME NEW a \in Word, NEW b \in Word
  PROVE  High(Twice(a, b)) = a /\ Low(Twice(a, b)) = b
<1>1. a \in Nat /\ b \in Nat /\ b < 65536
  <2>1. MaxShort \in Nat /\ MaxShort < 65536
    BY SMT DEF MaxShort
  <2>2. a \in Nat /\ b \in Nat /\ b <= MaxShort
    BY <2>1, SMT DEF Word
  <2> QED
    BY <2>1, <2>2, SMT
<1>2. (65536 * a + b) \div 65536 = a
  BY <1>1, SMT
<1>3. (65536 * a + b) % 65536 = b
  BY <1>1, SMT
<1> QED
  BY <1>2, <1>3, SMT DEF Twice, High, Low

LEMMA PutTwice ==
  ASSUME NEW n
  PROVE  put_uint32_in_be_stream(n) = put_uint16_in_be_stream(High(n)) \o put_uint16_in_be_stream(Low(n))
BY SMT DEF put_uint32_in_be_stream, High, Low

LEMMA PutQuad ==
  ASSUME NEW w \in Byte, NEW x \in Byte, NEW y \in Byte, NEW z \in Byte
  PROVE  FourAre(put_uint32_in_be_stream(Quad(w, x, y, z)), w, x, y, z)
<1>1. PICK a \in Word, b \in Word : a = 256 * w + x /\ b = 256 * y + z
  BY PairType, ZenonT(60)
<1>2. PICK n : n = Quad(w, x, y, z) /\ High(n) = a /\ Low(n) = b
  <2>1. Quad(w, x, y, z) = Twice(256 * w + x, 256 * y + z)
    BY QuadIs, SMT
  <2>2. High(Twice(a, b)) = a /\ Low(Twice(a, b)) = b
    BY TwiceParts, SMT
  <2> QED
    BY <1>1, <2>1, <2>2, ZenonT(60)
<1>3. PICK p \in Seq(Byte), q \in Seq(Byte) : /\ p = put_uint16_in_be_stream(a) /\ q = put_uint16_in_be_stream(b)
                                              /\ Len(p) = 2 /\ Len(q) = 2 /\ p[1] = w /\ p[2] = x /\ q[1] = y /\ q[2] = z
  <2>1. /\ put_uint16_in_be_stream(256 * w + x) \in Seq(Byte) /\ Len(put_uint16_in_be_stream(256 * w + x)) = 2
        /\ put_uint16_in_be_stream(256 * w + x)[1] = w /\ put_uint16_in_be_stream(256 * w + x)[2] = x
    BY PutPair
  <2>2. /\ put_uint16_in_be_stream(256 * y + z) \in Seq(Byte) /\ Len(put_uint16_in_be_stream(256 * y + z)) = 2
        /\ put_uint16_in_be_stream(256 * y + z)[1] = y /\ put_uint16_in_be_stream(256 * y + z)[2] = z
    BY PutPair
  <2> QED
    BY <1>1, <2>1, <2>2, ZenonT(60)
<1>4. put_uint32_in_be_stream(n) = put_uint16_in_be_stream(High(n)) \o put_uint16_in_be_stream(Low(n))
  BY PutTwice, SMT
<1>5. FourAre(p \o q, p[1], p[2], q[1], q[2])
  BY <1>3, PairsAre, Zenon
<1> QED
  BY <1>2, <1>3, <1>4, <1>5, Zenon

LEMMA QuadType ==
  ASSUME NEW w \in Byte, NEW x \in Byte, NEW y \in Byte, NEW z \in Byte
  PROVE  Quad(w, x, y, z) \in Nat /\ (w < 128 => Quad(w, x, y, z) \in Number)
<1>1. Quad(w, x, y, z) \in Nat
  BY SMT DEF Quad, Byte
<1>2. ASSUME w < 128 PROVE Quad(w, x, y, z) \in Number
  <2>1. /\ w \in Nat /\ x \in Nat /\ y \in Nat /\ z \in Nat /\ w < 128 /\ x < 256 /\ y < 256 /\ z < 256
    BY <1>2, SMT DEF Byte
  <2>2. 16777216 * w + 65536 * x + 256 * y + z <= 2147483647 /\ 16777216 * w + 65536 * x + 256 * y + z \in Nat
    BY <2>1, SMT
  <2>3. Quad(w, x, y, z) <= MaxNumber /\ MaxNumber \in Nat
    BY <2>2, SMT DEF Quad, MaxNumber
  <2> QED
    BY <1>1, <2>3, SMT DEF Number
<1> QED
  BY <1>1, <1>2, Zenon

LEMMA Halves ==
  ASSUME NEW n \in Nat
  PROVE  \E q \in Nat, r \in Byte : n = 256 * q + r /\ \A m \in Nat : n < 256 * m => q < m
<1>1. n \div 256 \in Nat /\ n % 256 \in 0..255 /\ n = 256 * (n \div 256) + (n % 256)
  BY SMT
<1>2. PICK q \in Nat, r \in 0..255 : n = 256 * q + r
  BY <1>1, ZenonT(60)
<1>3. \A m \in Nat : n < 256 * m => q < m
  BY <1>2, SMT
<1> QED
  BY <1>2, <1>3, SMT DEF Byte

LEMMA QuadOf ==
  ASSUME NEW n \in Number
  PROVE  \E w \in Byte, x \in Byte, y \in Byte, z \in Byte : n = Quad(w, x, y, z) /\ w < 128
<1>1. n \in Nat /\ n < 256 * 8388608 /\ 8388608 \in Nat
  <2>1. MaxNumber \in Nat /\ MaxNumber < 256 * 8388608 /\ 8388608 \in Nat
    BY SMT DEF MaxNumber
  <2>2. n \in Nat /\ n <= MaxNumber
    BY <2>1, SMT DEF Number
  <2> QED
    BY <2>1, <2>2, SMT
<1>2. PICK a \in Nat, z \in Byte : n = 256 * a + z /\ a < 8388608
  BY <1>1, Halves, SMT
<1>3. a < 256 * 32768 /\ 32768 \in Nat
  BY <1>2, SMT
<1>4. PICK b \in Nat, y \in Byte : a = 256 * b + y /\ b < 32768
  BY <1>3, Halves, SMT
<1>5. b < 256 * 128
  BY <1>4, SMT
<1>6. PICK w \in Nat, x \in Byte : b = 256 * w + x /\ w < 128
  BY <1>5, Halves, SMT
<1>7. w \in Byte
  BY <1>6, SMT DEF Byte
<1>8. n = Quad(w, x, y, z)
  BY <1>2, <1>4, <1>6, SMT DEF Quad, Byte
<1> QED
  BY <1>6, <1>7, <1>8, SMT

LEMMA LenOfFun ==
  ASSUME NEW S, NEW n \in Nat, NEW f \in [1..n -> S]
  PROVE  f \in Seq(S) /\ Len(f) = n
<1>1. f = [i \in 1..n |-> f[i]] /\ \A i \in 1..n : f[i] \in S
  OBVIOUS
<1> QED
  BY <1>1

\* Another first octet.
LEMMA FirstOctet ==
  ASSUME NEW p, NEW w, NEW x, NEW y, NEW z, FourAre(p, w, x, y, z), NEW v \in Byte
  PROVE  FourAre([p EXCEPT ![1] = v], v, x, y, z)
<1>1. p \in Seq(Byte) /\ Len(p) = 4
  BY Zenon DEF FourAre
<1>2. PICK q : q = [p EXCEPT ![1] = v]
  BY Zenon
<1>3. q \in [1..4 -> Byte] /\ q[1] = v /\ q[2] = p[2] /\ q[3] = p[3] /\ q[4] = p[4]
  <2>1. p \in [1..4 -> Byte]
    BY <1>1, SMTT(30)
  <2> QED
    BY <1>2, <2>1
<1>4. q \in Seq(Byte) /\ Len(q) = 4
  BY <1>3, LenOfFun, ZenonT(60)
<1>5. p[2] = x /\ p[3] = y /\ p[4] = z
  BY Zenon DEF FourAre
<1>6. FourAre(q, v, x, y, z)
  BY <1>3, <1>4, <1>5, Zenon DEF FourAre
<1> QED
  BY <1>2, <1>6, Zenon

LEMMA GetQuad ==
  ASSUME NEW p, NEW w \in Byte, NEW x \in Byte, NEW y \in Byte, NEW z \in Byte, FourAre(p, w, x, y, z)
  PROVE  get_uint32_from_be_stream(p) = Quad(w, x, y, z)
<1>1. p \in Seq(Byte) /\ Len(p) = 4 /\ p[1] = w /\ p[2] = x /\ p[3] = y /\ p[4] = z
  BY Zenon DEF FourAre
<1> QED
  BY <1>1, Get32Is, Zenon

\* The number without its top bit, and the bit.
Masked(p, w, x, y, z) ==
  GetMasked(p) = Quad(w % 128, x, y, z) /\ TopBit(p) \in BOOLEAN /\ (TopBit(p) <=> w >= 128)

LEMMA MaskedIs ==
  ASSUME NEW p, NEW w \in Byte, NEW x \in Byte, NEW y \in Byte, NEW z \in Byte, FourAre(p, w, x, y, z)
  PROVE  Masked(p, w, x, y, z)
<1>1. w % 128 \in Byte
  BY SMT DEF Byte
<1>2. PICK v \in Byte : v = w % 128
  BY <1>1, Zenon
<1>3. p[1] = w
  BY Zenon DEF FourAre
<1>4. FourAre([p EXCEPT ![1] = v], v, x, y, z)
  BY FirstOctet, Zenon
<1>5. [p EXCEPT ![1] = @ % 128] = [p EXCEPT ![1] = v]
  BY <1>2, <1>3
<1>6. PICK q : q = [p EXCEPT ![1] = v] /\ FourAre(q, v, x, y, z)
  BY <1>4, Zenon
<1>7. get_uint32_from_be_stream(q) = Quad(v, x, y, z)
  BY <1>6, GetQuad, SMT
<1>8. GetMasked(p) = Quad(v, x, y, z)
  BY <1>5, <1>6, <1>7 DEF GetMasked
<1>9. TopBit(p) \in BOOLEAN /\ (TopBit(p) <=> w >= 128)
  BY <1>3 DEF TopBit
<1> QED
  BY <1>2, <1>8, <1>9, Zenon DEF Masked

LEMMA PutTop ==
  ASSUME NEW top \in BOOLEAN, NEW n \in Number
  PROVE  /\ PutWithTop(top, n) \in Seq(Byte) /\ Len(PutWithTop(top, n)) = 4
         /\ TopBit(PutWithTop(top, n)) = top /\ GetMasked(PutWithTop(top, n)) = n
<1>1. PICK w \in Byte, x \in Byte, y \in Byte, z \in Byte : n = Quad(w, x, y, z) /\ w < 128
  BY QuadOf, SMT
<1>2. PICK p : p = put_uint32_in_be_stream(n) /\ FourAre(p, w, x, y, z)
  BY <1>1, PutQuad, Zenon
<1>3. p[1] = w
  BY <1>2, Zenon DEF FourAre
<1>4. PICK v \in Byte : v = w + 128
  BY <1>1, SMT DEF Byte
<1>5. FourAre([p EXCEPT ![1] = v], v, x, y, z)
  BY <1>2, FirstOctet, Zenon
<1>6. w % 128 = w /\ v % 128 = w /\ v >= 128 /\ ~(w >= 128)
  BY <1>1, <1>4, SMT DEF Byte
<1>7. [p EXCEPT ![1] = @ + 128] = [p EXCEPT ![1] = v]
  BY <1>3, <1>4
<1>8. CASE top
  <2>1. PICK q : q = PutWithTop(top, n) /\ FourAre(q, v, x, y, z)
    BY <1>2, <1>5, <1>7, <1>8, Zenon DEF PutWithTop
  <2>2. Masked(q, v, x, y, z)
    BY <2>1, MaskedIs, Zenon
  <2>3. q \in Seq(Byte) /\ Len(q) = 4
    BY <2>1, Zenon DEF FourAre
  <2> QED
    BY <1>1, <1>6, <1>8, <2>1, <2>2, <2>3, Zenon DEF Masked
<1>9. CASE ~top
  <2>1. p = PutWithTop(top, n)
    BY <1>2, <1>9, Zenon DEF PutWithTop
  <2>2. Masked(p, w, x, y, z)
    BY <1>2, MaskedIs, Zenon
  <2>3. p \in Seq(Byte) /\ Len(p) = 4
    BY <1>2, Zenon DEF FourAre
  <2> QED
    BY <1>1, <1>6, <1>9, <2>1, <2>2, <2>3, ZenonT(60) DEF Masked
<1> QED
  BY <1>8, <1>9

\* Without a top bit.
LEMMA Put32 ==
  ASSUME NEW n \in Number
  PROVE  /\ put_uint32_in_be_stream(n) \in Seq(Byte) /\ Len(put_uint32_in_be_stream(n)) = 4
         /\ get_uint32_from_be_stream(put_uint32_in_be_stream(n)) = n
         /\ GetMasked(put_uint32_in_be_stream(n)) = n /\ PutWithTop(FALSE, n) = put_uint32_in_be_stream(n)
<1>1. PICK w \in Byte, x \in Byte, y \in Byte, z \in Byte : n = Quad(w, x, y, z)
  BY QuadOf, SMT
<1>2. PICK p : p = put_uint32_in_be_stream(n) /\ FourAre(p, w, x, y, z)
  BY <1>1, PutQuad, Zenon
<1>3. get_uint32_from_be_stream(p) = Quad(w, x, y, z)
  BY <1>2, GetQuad, ZenonT(60)
<1>4. PutWithTop(FALSE, n) = p
  BY <1>2, Zenon DEF PutWithTop
<1>5. /\ PutWithTop(FALSE, n) \in Seq(Byte) /\ Len(PutWithTop(FALSE, n)) = 4 /\ GetMasked(PutWithTop(FALSE, n)) = n
  BY PutTop, Zenon
<1> QED
  BY <1>1, <1>2, <1>3, <1>4, <1>5, Zenon

\* Four octets are put back as they were.
LEMMA PutBack ==
  ASSUME NEW p \in Seq(Byte), Len(p) = 4
  PROVE  /\ GetMasked(p) \in Number /\ TopBit(p) \in BOOLEAN /\ PutWithTop(TopBit(p), GetMasked(p)) = p
         /\ put_uint32_in_be_stream(get_uint32_from_be_stream(p)) = p
<1>1. PICK w \in Byte, x \in Byte, y \in Byte, z \in Byte : FourAre(p, w, x, y, z)
  BY FourOf, Zenon
<1>2. put_uint32_in_be_stream(get_uint32_from_be_stream(p)) = p
  <2>1. get_uint32_from_be_stream(p) = Quad(w, x, y, z)
    BY <1>1, GetQuad, ZenonT(60)
  <2>2. FourAre(put_uint32_in_be_stream(Quad(w, x, y, z)), w, x, y, z)
    BY PutQuad, Zenon
  <2>3. put_uint32_in_be_stream(Quad(w, x, y, z)) = p
    BY <1>1, <2>2, FourSame, Zenon
  <2> QED
    BY <2>1, <2>3, Zenon
<1>3. PICK v \in Byte : v = w % 128 /\ v < 128 /\ (w >= 128 => v + 128 = w) /\ (~(w >= 128) => v = w)
  <2>1. w % 128 \in Byte /\ w % 128 < 128 /\ (w >= 128 => (w % 128) + 128 = w) /\ (~(w >= 128) => w % 128 = w)
    BY SMT DEF Byte
  <2> QED
    BY <2>1, Zenon
<1>4. GetMasked(p) = Quad(v, x, y, z) /\ TopBit(p) \in BOOLEAN /\ (TopBit(p) <=> w >= 128)
  <2>1. Masked(p, w, x, y, z)
    BY <1>1, MaskedIs, Zenon
  <2> QED
    BY <1>3, <2>1, Zenon DEF Masked
<1>5. Quad(v, x, y, z) \in Number
  BY <1>3, QuadType, Zenon
<1>6. PICK q : q = put_uint32_in_be_stream(Quad(v, x, y, z)) /\ FourAre(q, v, x, y, z)
  BY PutQuad, Zenon
<1>7. q[1] = v
  BY <1>6, Zenon DEF FourAre
<1>8. CASE w >= 128
  <2>1. FourAre([q EXCEPT ![1] = w], w, x, y, z)
    BY <1>6, FirstOctet, Zenon
  <2>2. [q EXCEPT ![1] = @ + 128] = [q EXCEPT ![1] = w]
    BY <1>3, <1>7, <1>8
  <2>3. PutWithTop(TRUE, Quad(v, x, y, z)) = [q EXCEPT ![1] = w]
    BY <1>6, <2>2, Zenon DEF PutWithTop
  <2>4. [q EXCEPT ![1] = w] = p
    BY <1>1, <2>1, FourSame, Zenon
  <2>5. TopBit(p) = TRUE
    BY <1>4, <1>8, Zenon
  <2> QED
    BY <1>2, <1>4, <1>5, <2>3, <2>4, <2>5, Zenon
<1>9. CASE ~(w >= 128)
  <2>1. PutWithTop(FALSE, Quad(v, x, y, z)) = q
    BY <1>6, Zenon DEF PutWithTop
  <2>2. q = p
    BY <1>1, <1>3, <1>6, <1>9, FourSame, Zenon
  <2>3. TopBit(p) = FALSE
    BY <1>4, <1>9, Zenon
  <2> QED
    BY <1>2, <1>4, <1>5, <2>1, <2>2, <2>3, Zenon
<1> QED
  BY <1>8, <1>9

\* Sixteen bits.
LEMMA Put16 ==
  ASSUME NEW n \in Word
  PROVE  /\ put_uint16_in_be_stream(n) \in Seq(Byte) /\ Len(put_uint16_in_be_stream(n)) = 2
         /\ get_uint16_from_be_stream(put_uint16_in_be_stream(n)) = n
<1>1. n \in Nat /\ n < 256 * 256
  <2>1. MaxShort \in Nat /\ MaxShort < 256 * 256
    BY SMT DEF MaxShort
  <2>2. n \in Nat /\ n <= MaxShort
    BY <2>1, SMT DEF Word
  <2> QED
    BY <2>1, <2>2, SMT
<1>2. PICK x \in Nat, y \in Byte : n = 256 * x + y /\ x < 256
  BY <1>1, Halves, SMT
<1>3. x \in Byte
  BY <1>2, SMT DEF Byte
<1>4. PICK p \in Seq(Byte) : p = put_uint16_in_be_stream(n) /\ Len(p) = 2 /\ p[1] = x /\ p[2] = y
  <2>1. /\ put_uint16_in_be_stream(256 * x + y) \in Seq(Byte) /\ Len(put_uint16_in_be_stream(256 * x + y)) = 2
        /\ put_uint16_in_be_stream(256 * x + y)[1] = x /\ put_uint16_in_be_stream(256 * x + y)[2] = y
    BY <1>3, PutPair
  <2> QED
    BY <1>2, <2>1, Zenon
<1>5. get_uint16_from_be_stream(p) = n
  BY <1>2, <1>4, ZenonT(60) DEF get_uint16_from_be_stream
<1> QED
  BY <1>4, <1>5, Zenon

-----------------------------------------------------------------------------
(***************************************************************************)
(* Frame headers.                                                          *)
(***************************************************************************)

Length == 0..MaxLength

LEMMA LengthType ==
  ASSUME NEW n \in Length
  PROVE  n \in Nat /\ n \in Number /\ n < 16777216
<1>1. MaxLength \in Nat /\ MaxLength < 16777216 /\ MaxNumber \in Nat /\ MaxLength < MaxNumber
  BY SMT DEF MaxLength, MaxNumber
<1>2. n \in Nat /\ n <= MaxLength
  BY <1>1, SMT DEF Length
<1>3. n < 16777216 /\ n <= MaxNumber
  BY <1>1, <1>2, SMT
<1> QED
  BY <1>1, <1>2, <1>3, SMT DEF Number

\* A length has three octets.
LEMMA LengthOctets ==
  ASSUME NEW n \in Length
  PROVE  /\ Tail(put_uint32_in_be_stream(n)) \in Seq(Byte) /\ Len(Tail(put_uint32_in_be_stream(n))) = 3
         /\ get_uint32_from_be_stream(<<0>> \o Tail(put_uint32_in_be_stream(n))) = n
<1>1. n \in Nat /\ n \in Number /\ n < 16777216
  BY LengthType, SMT
<1>2. PICK w \in Byte, x \in Byte, y \in Byte, z \in Byte : n = Quad(w, x, y, z)
  BY <1>1, QuadOf, SMT
<1>3. w = 0 /\ 0 \in Byte
  BY <1>1, <1>2, SMT DEF Quad, Byte
<1>4. PICK p \in Seq(Byte) : p = put_uint32_in_be_stream(n) /\ Len(p) = 4 /\ p[2] = x /\ p[3] = y /\ p[4] = z
  <2>1. FourAre(put_uint32_in_be_stream(Quad(w, x, y, z)), w, x, y, z)
    BY PutQuad
  <2>2. FourAre(put_uint32_in_be_stream(n), w, x, y, z)
    BY <1>2, <2>1, SMT
  <2>3. PICK p : p = put_uint32_in_be_stream(n) /\ FourAre(p, w, x, y, z)
    BY <2>2, SMT
  <2> QED
    BY <2>3, SMT DEF FourAre
<1>5. PICK t \in Seq(Byte) : t = Tail(p) /\ Len(t) = 3 /\ t[1] = x /\ t[2] = y /\ t[3] = z
  <2>1. Tail(p) \in Seq(Byte) /\ Len(Tail(p)) = Len(p) - 1
    BY <1>4
  <2>2. Tail(p)[1] = p[2] /\ Tail(p)[2] = p[3] /\ Tail(p)[3] = p[4]
    BY <1>4
  <2>3. Len(Tail(p)) = 3
    BY <1>4, <2>1
  <2> QED
    BY <1>4, <2>1, <2>2, <2>3, Zenon
<1>6. PICK o \in Seq(Byte) : o = <<0>> /\ Len(o) = 1 /\ o[1] = 0
  <2>1. <<0>> \in Seq(Byte) /\ Len(<<0>>) = 1 /\ <<0>>[1] = 0
    BY <1>3
  <2> QED
    BY <2>1, Zenon
<1>7. /\ o \o t \in Seq(Byte) /\ Len(o \o t) = Len(o) + Len(t) /\ (\A i \in 1..Len(o) : (o \o t)[i] = o[i])
      /\ \A i \in 1..Len(t) : (o \o t)[Len(o) + i] = t[i]
  BY ConcatByPlace
<1>8. PICK q \in Seq(Byte) : q = o \o t
  BY <1>7, Zenon
<1>9. Len(q) = 4 /\ q[1] = 0 /\ q[2] = x /\ q[3] = y /\ q[4] = z
  <2>0. Len(o) = 1 /\ Len(t) = 3 /\ o[1] = 0 /\ t[1] = x /\ t[2] = y /\ t[3] = z
    BY <1>5, <1>6, Zenon
  <2>1. 1 \in 1..Len(o) /\ 1 \in 1..Len(t) /\ 2 \in 1..Len(t) /\ 3 \in 1..Len(t)
    BY <2>0, SMT
  <2>2. Len(o) + 1 = 2 /\ Len(o) + 2 = 3 /\ Len(o) + 3 = 4 /\ Len(o) + Len(t) = 4
    BY <2>0, SMT
  <2>3. q[1] = o[1] /\ q[Len(o) + 1] = t[1] /\ q[Len(o) + 2] = t[2] /\ q[Len(o) + 3] = t[3]
    BY <1>7, <1>8, <2>1, SMT
  <2> QED
    BY <1>7, <1>8, <2>0, <2>2, <2>3, Zenon
<1>10. FourAre(q, w, x, y, z)
  BY <1>3, <1>9, Zenon DEF FourAre
<1>11. get_uint32_from_be_stream(q) = Quad(w, x, y, z)
  BY <1>10, GetQuad, SMT
<1> QED
  BY <1>2, <1>4, <1>5, <1>6, <1>8, <1>11, Zenon

LEMMA HeaderFields ==
  ASSUME NEW h \in Header
  PROVE  /\ h.length \in Length /\ h.type \in Byte /\ h.flags \in Byte /\ h.stream_id \in Number
         /\ h = http2_frame_header_init(h.length, h.type, h.flags, h.stream_id)
BY DEF Header, Length, http2_frame_header_init

\* A header is read as it was packed.
LEMMA HeaderBack ==
  ASSUME NEW h \in Header
  PROVE  /\ http2_frame_header_pack(h) \in Seq(Byte) /\ Len(http2_frame_header_pack(h)) = 9
         /\ FirstHeader(http2_frame_header_pack(h)) = h
<1>1. PICK n \in Length, a \in Byte, b \in Byte, s \in Number :
        n = h.length /\ a = h.type /\ b = h.flags /\ s = h.stream_id /\ h = http2_frame_header_init(n, a, b, s)
  <2>1. /\ h.length \in Length /\ h.type \in Byte /\ h.flags \in Byte /\ h.stream_id \in Number
        /\ h = http2_frame_header_init(h.length, h.type, h.flags, h.stream_id)
    BY HeaderFields, SMT
  <2> QED
    BY <2>1, SMT
<1>2. PICK t \in Seq(Byte) : t = Tail(put_uint32_in_be_stream(n)) /\ Len(t) = 3
                             /\ get_uint32_from_be_stream(<<0>> \o t) = n
  BY LengthOctets, Zenon
<1>3. PICK u \in Seq(Byte) : u = put_uint32_in_be_stream(s) /\ Len(u) = 4 /\ GetMasked(u) = s
  BY Put32, Zenon
<1>4. PICK m \in Seq(Byte) : m = <<a, b>> /\ Len(m) = 2 /\ m[1] = a /\ m[2] = b
  <2>1. <<a, b>> \in Seq(Byte) /\ Len(<<a, b>>) = 2 /\ <<a, b>>[1] = a /\ <<a, b>>[2] = b
    OBVIOUS
  <2> QED
    BY <2>1, Zenon
<1>5. /\ t \o m \in Seq(Byte) /\ Len(t \o m) = Len(t) + Len(m) /\ (\A i \in 1..Len(t) : (t \o m)[i] = t[i])
      /\ \A i \in 1..Len(m) : (t \o m)[Len(t) + i] = m[i]
  BY ConcatByPlace
<1>6. PICK k \in Seq(Byte) : k = t \o m
  BY <1>5, Zenon
<1>7. Len(k) = 5 /\ k[4] = a /\ k[5] = b
  <2>1. 1 \in 1..Len(m) /\ 2 \in 1..Len(m) /\ Len(t) + 1 = 4 /\ Len(t) + 2 = 5 /\ Len(t) + Len(m) = 5
    <3>1. Len(t) = 3 /\ Len(m) = 2
      BY <1>2, <1>4, Zenon
    <3> QED
      BY <3>1, SMT
  <2>2. k[Len(t) + 1] = m[1] /\ k[Len(t) + 2] = m[2]
    BY <1>5, <1>6, <2>1, SMT
  <2> QED
    BY <1>4, <1>5, <1>6, <2>1, <2>2, Zenon
<1>8. /\ k \o u \in Seq(Byte) /\ Len(k \o u) = Len(k) + Len(u) /\ (\A i \in 1..Len(k) : (k \o u)[i] = k[i])
  BY ConcatByPlace
<1>9. PICK o \in Seq(Byte) : o = k \o u
  BY <1>8, Zenon
<1>10. Len(o) = 9 /\ o[4] = a /\ o[5] = b
  BY <1>3, <1>7, <1>8, <1>9
<1>11. o = http2_frame_header_pack(h)
  BY <1>1, <1>2, <1>3, <1>4, <1>6, <1>9, Zenon DEF http2_frame_header_pack
<1>12. SubSeq(o, 1, 3) = t
  <2>0. Len(t) = 3 /\ Len(k) = 5
    BY <1>2, <1>7, Zenon
  <2>1. 1 \in Nat \ {0} /\ 3 \in Nat /\ 3 <= Len(k) /\ 3 <= Len(t)
    BY <2>0, SMT
  <2>2. SubSeq(k \o u, 1, 3) = SubSeq(k, 1, 3)
    BY <2>1, InFront, ZenonT(60)
  <2>3. SubSeq(t \o m, 1, 3) = SubSeq(t, 1, 3)
    BY <2>1, InFront, Zenon
  <2>4. SubSeq(t, 1, Len(t)) = t
    BY SubSeqFull
  <2> QED
    BY <1>2, <1>6, <1>9, <2>2, <2>3, <2>4, Zenon
<1>13. SubSeq(o, 6, 9) = u
  <2>1. 1 \in Nat \ {0} /\ 4 \in Nat /\ 4 <= Len(u) /\ Len(k) + 1 = 6 /\ Len(k) + 4 = 9
    BY <1>3, <1>7
  <2>2. SubSeq(k \o u, Len(k) + 1, Len(k) + 4) = SubSeq(u, 1, 4)
    BY <2>1, InBack, ZenonT(60)
  <2>3. SubSeq(u, 1, Len(u)) = u
    BY SubSeqFull
  <2> QED
    BY <1>3, <1>9, <2>1, <2>2, <2>3, Zenon
<1>14. FirstHeader(o) = http2_frame_header_init(n, a, b, s)
  BY <1>2, <1>3, <1>10, <1>12, <1>13, Zenon DEF FirstHeader, http2_frame_header_unpack
<1> QED
  BY <1>1, <1>10, <1>11, <1>14, Zenon

\* The frame that a buffer begins with.
LEMMA PacketFirst ==
  ASSUME NEW h \in Header, NEW c \in Seq(Byte)
  PROVE  /\ http2_frame_header_pack(h) \o c \in Seq(Byte) /\ Len(http2_frame_header_pack(h) \o c) = 9 + Len(c)
         /\ FirstHeader(http2_frame_header_pack(h) \o c) = h /\ From(http2_frame_header_pack(h) \o c, 10) = c
<1>1. PICK o \in Seq(Byte) : o = http2_frame_header_pack(h) /\ Len(o) = 9 /\ FirstHeader(o) = h
  BY HeaderBack, Zenon
<1>2. Len(o) >= 9 /\ 9 <= Len(o) /\ 9 \in Nat /\ 9 + 1 = 10
  BY <1>1
<1>3. o \o c \in Seq(Byte) /\ Len(o \o c) = Len(o) + Len(c)
  BY ConcatByPlace, Zenon
<1>4. FirstHeader(o \o c) = FirstHeader(o)
  BY <1>2, FirstSame, Zenon
<1>5. From(o \o c, 9 + 1) = From(o, 9 + 1) \o c
  BY <1>2, RestOfJoined, Zenon
<1>6. From(o, 9 + 1) = <<>>
  <2>1. Len(o) < 9 + 1 /\ Len(o) \in Int /\ 9 + 1 \in Int
    BY <1>1
  <2>2. SubSeq(o, 9 + 1, Len(o)) = <<>>
    BY <2>1, SubSeqEmpty
  <2> QED
    BY <2>2, Zenon DEF From
<1>7. <<>> \o c = c
  OBVIOUS
<1> QED
  BY <1>1, <1>2, <1>3, <1>4, <1>5, <1>6, <1>7, Zenon

-----------------------------------------------------------------------------
(***************************************************************************)
(* Sequences of sequences, one behind the other.                           *)
(***************************************************************************)

\* What the first i of s are together, for every i.
Builds(f, S, s, n) == f \in [0..n -> Seq(S)] /\ f[0] = <<>> /\ \A i \in 1..n : f[i] = f[i - 1] \o s[i]

LEMMA BuildsExists ==
  ASSUME NEW S, NEW n \in Nat, NEW s, \A i \in 1..n : s[i] \in Seq(S)
  PROVE  \E f : Builds(f, S, s, n)
<1>1. <<>> \in Seq(S)
  OBVIOUS
<1> DEFINE next == [i \in 1..n |-> [a \in Seq(S) |-> a \o s[i]]]
<1>2. next \in [1..n -> [Seq(S) -> Seq(S)]]
  <2>1. \A i \in 1..n : [a \in Seq(S) |-> a \o s[i]] \in [Seq(S) -> Seq(S)]
    OBVIOUS
  <2> QED
    BY <2>1
<1>3. \A i \in 1..n : \A a \in Seq(S) : next[i][a] = a \o s[i]
  OBVIOUS
<1> HIDE DEF next
<1>4. PICK f : Steps(f, Seq(S), <<>>, next, n)
  BY <1>1, <1>2, Iterate, Zenon
<1>5. f \in [0..n -> Seq(S)] /\ f[0] = <<>> /\ \A i \in 1..n : f[i] = next[i][f[i - 1]]
  BY <1>4, Zenon DEF Steps
<1>6. \A i \in 1..n : f[i - 1] \in Seq(S)
  BY <1>5
<1>7. \A i \in 1..n : f[i] = f[i - 1] \o s[i]
  BY <1>3, <1>5, <1>6, Zenon
<1>8. Builds(f, S, s, n)
  BY <1>5, <1>7, Zenon DEF Builds
<1> QED
  BY <1>8, Zenon

LEMMA FlatSteps ==
  ASSUME NEW S, NEW s \in Seq(Seq(S))
  PROVE  \E f : Builds(f, S, s, Len(s)) /\ f[Len(s)] = FlattenSeq(s)
<1>1. PICK n \in Nat : n = Len(s)
  OBVIOUS
<1>2. \A i \in 1..n : s[i] \in Seq(S)
  BY <1>1, ElementOfSeq
<1>3. PICK f : Builds(f, S, s, n)
  BY <1>2, BuildsExists, Zenon
<1>4. f \in [0..n -> Seq(S)] /\ f[0] = <<>> /\ \A i \in 1..n : f[i] = f[i - 1] \o s[i]
  BY <1>3, Zenon DEF Builds
<1>5. CASE n = 0
  <2>1. s = <<>>
    BY <1>1, <1>5, EmptySeq
  <2>2. FlattenSeq(s) = s
    BY <1>1, <1>5, Zenon DEF FlattenSeq
  <2> QED
    BY <1>1, <1>3, <1>4, <1>5, <2>1, <2>2, Zenon
<1>6. CASE n # 0
  <2> DEFINE Is(v) == v = [i \in 1..n |-> IF i = 1 THEN s[i] ELSE v[i - 1] \o s[i]]
             u == CHOOSE v : Is(v)
             g == [i \in 1..n |-> f[i]]
  <2>1. 0 \in 0..n /\ 1 \in 1..n /\ 1 - 1 = 0 /\ n \in 1..n
    BY <1>6
  <2>2. f[1] = s[1]
    <3>1. f[1] = <<>> \o s[1] /\ s[1] \in Seq(S)
      BY <1>2, <1>4, <2>1, Zenon
    <3> QED
      BY <3>1
  <2>3. \A i \in 1..n : g[i] = IF i = 1 THEN s[i] ELSE g[i - 1] \o s[i]
    <3> SUFFICES ASSUME NEW i \in 1..n PROVE g[i] = IF i = 1 THEN s[i] ELSE g[i - 1] \o s[i]
      OBVIOUS
    <3>1. g[i] = f[i]
      BY Zenon
    <3>2. CASE i = 1
      BY <2>2, <3>1, <3>2, Zenon
    <3>3. CASE i # 1
      <4>1. i - 1 \in 1..n
        BY <3>3
      <4>2. g[i - 1] = f[i - 1]
        BY <4>1, Zenon
      <4> QED
        BY <1>4, <3>1, <3>3, <4>2, Zenon
    <3> QED
      BY <3>2, <3>3
  <2>4. g = [i \in 1..n |-> g[i]]
    OBVIOUS
  <2> HIDE DEF g
  <2>5. Is(g)
    BY <2>3, <2>4, Zenon
  <2>6. Is(u)
    <3> HIDE DEF Is
    <3> QED
      BY <2>5, Zenon
  <2>7. FlattenSeq(s) = u[n]
    BY <1>1, <1>6, Zenon DEF FlattenSeq
  <2> HIDE DEF u
  <2>8. \A i \in 1..n : u[i] = IF i = 1 THEN s[i] ELSE u[i - 1] \o s[i]
    BY <2>6, Zenon
  <2> HIDE DEF Is
  <2> DEFINE T == {k \in Nat : k + 1 <= n => u[k + 1] = f[k + 1]}
  <2>9. 0 \in T
    <3>1. u[1] = f[1]
      BY <2>1, <2>2, <2>8, Zenon
    <3> QED
      BY <3>1
  <2>10. ASSUME NEW k \in Nat, k \in T PROVE k + 1 \in T
    <3> SUFFICES ASSUME (k + 1) + 1 <= n PROVE u[(k + 1) + 1] = f[(k + 1) + 1]
      OBVIOUS
    <3>1. u[k + 1] = f[k + 1]
      BY <2>10
    <3>2. (k + 1) + 1 \in 1..n /\ (k + 1) + 1 # 1 /\ ((k + 1) + 1) - 1 = k + 1
      OBVIOUS
    <3>3. u[(k + 1) + 1] = u[k + 1] \o s[(k + 1) + 1]
      BY <2>8, <3>2, Zenon
    <3>4. f[(k + 1) + 1] = f[k + 1] \o s[(k + 1) + 1]
      BY <1>4, <3>2, Zenon
    <3> QED
      BY <3>1, <3>3, <3>4, Zenon
  <2>11. Nat \subseteq T
    <3> HIDE DEF T
    <3> QED
      BY <2>9, <2>10, SetInduction
  <2>12. n - 1 \in Nat /\ (n - 1) + 1 = n /\ (n - 1) + 1 <= n
    BY <1>6
  <2>13. n - 1 \in T
    BY <2>11, <2>12, Zenon
  <2>14. u[(n - 1) + 1] = f[(n - 1) + 1]
    BY <2>12, <2>13
  <2> QED
    BY <1>1, <1>3, <2>7, <2>12, <2>14, Zenon
<1> QED
  BY <1>5, <1>6

\* Any other way to build it up comes to the same.
LEMMA FlatFrom ==
  ASSUME NEW S, NEW s \in Seq(Seq(S)), NEW g, g[0] = <<>>, \A i \in 1..Len(s) : g[i] = g[i - 1] \o s[i]
  PROVE  FlattenSeq(s) = g[Len(s)] /\ FlattenSeq(s) \in Seq(S)
<1>1. PICK n \in Nat : n = Len(s)
  OBVIOUS
<1>2. PICK f : Builds(f, S, s, n) /\ f[n] = FlattenSeq(s)
  BY <1>1, FlatSteps, Zenon
<1>3. f \in [0..n -> Seq(S)] /\ f[0] = <<>> /\ \A i \in 1..n : f[i] = f[i - 1] \o s[i]
  BY <1>2, Zenon DEF Builds
<1> DEFINE T == {k \in Nat : k <= n => f[k] = g[k]}
<1>4. 0 \in T
  BY <1>3
<1>5. ASSUME NEW k \in Nat, k \in T PROVE k + 1 \in T
  <2> SUFFICES ASSUME k + 1 <= n PROVE f[k + 1] = g[k + 1]
    OBVIOUS
  <2>1. k + 1 \in 1..n /\ (k + 1) - 1 = k /\ f[k] = g[k]
    BY <1>5
  <2>2. f[k + 1] = f[k] \o s[k + 1] /\ g[k + 1] = g[k] \o s[k + 1]
    BY <1>1, <1>3, <2>1, Zenon
  <2> QED
    BY <2>1, <2>2, Zenon
<1>6. Nat \subseteq T
  <2> HIDE DEF T
  <2> QED
    BY <1>4, <1>5, SetInduction
<1>7. f[n] = g[n]
  BY <1>6
<1>8. f[n] \in Seq(S)
  BY <1>3
<1> QED
  BY <1>1, <1>2, <1>7, <1>8, Zenon

\* What is in front of a part, the part, and what is behind it.
Within(w, S, a, e) == \E c \in Seq(S) : w = (a \o e) \o c

LEMMA WholeAt ==
  ASSUME NEW S, NEW n \in Nat, NEW s, \A i \in 1..n : s[i] \in Seq(S), NEW f, Builds(f, S, s, n), NEW k \in 1..n
  PROVE  f[k - 1] \in Seq(S) /\ Within(f[n], S, f[k - 1], s[k])
<1>1. f \in [0..n -> Seq(S)] /\ \A i \in 1..n : f[i] = f[i - 1] \o s[i]
  BY Zenon DEF Builds
<1>2. PICK a \in Seq(S), b \in Seq(S) : a = f[k - 1] /\ b = s[k]
  <2>1. f[k - 1] \in Seq(S)
    BY <1>1
  <2> QED
    BY <2>1, Zenon
<1>3. PICK w \in Seq(S) : w = a \o b /\ Len(w) = Len(a) + Len(b)
  BY ConcatByPlace, Zenon
<1>4. f[k] = w
  BY <1>1, <1>2, <1>3, Zenon
<1> DEFINE P(j) == \E c \in Seq(S) : f[k + j] = w \o c
           T == {j \in Nat : k + j <= n => P(j)}
<1>5. 0 \in T
  <2>1. f[k + 0] = w \o <<>> /\ <<>> \in Seq(S)
    <3>1. k + 0 = k /\ w \o <<>> = w /\ <<>> \in Seq(S)
      OBVIOUS
    <3> QED
      BY <1>4, <3>1, Zenon
  <2>2. P(0)
    BY <2>1, Zenon
  <2> HIDE DEF P
  <2> QED
    BY <2>2
<1>6. ASSUME NEW j \in Nat, j \in T PROVE j + 1 \in T
  <2> HIDE DEF P
  <2> SUFFICES ASSUME k + (j + 1) <= n PROVE P(j + 1)
    OBVIOUS
  <2>0. P(j)
    BY <1>6
  <2>1. PICK c \in Seq(S) : f[k + j] = w \o c
    BY <2>0, Zenon DEF P
  <2>2. k + (j + 1) \in 1..n /\ (k + (j + 1)) - 1 = k + j
    OBVIOUS
  <2>3. PICK d \in Seq(S) : d = s[k + (j + 1)]
    BY <2>2, Zenon
  <2>4. f[k + (j + 1)] = (w \o c) \o d
    BY <1>1, <2>1, <2>2, <2>3, Zenon
  <2>5. (w \o c) \o d = w \o (c \o d) /\ c \o d \in Seq(S)
    BY ConcatAssociative, SMTT(30)
  <2> QED
    BY <2>4, <2>5, Zenon DEF P
<1>7. Nat \subseteq T
  <2> HIDE DEF T
  <2> QED
    BY <1>5, <1>6, SetInduction
<1>8. n - k \in Nat /\ k + (n - k) = n /\ k + (n - k) <= n
  OBVIOUS
<1>9. PICK c \in Seq(S) : f[n] = w \o c
  <2>1. n - k \in T
    BY <1>7, <1>8, Zenon
  <2>2. P(n - k)
    <3> HIDE DEF P
    <3> QED
      BY <1>8, <2>1
  <2> QED
    BY <1>8, <2>2, Zenon
<1> QED
  BY <1>2, <1>3, <1>9, Zenon DEF Within

\* The parts are at their places in the whole.
PartAt(w, a, e) == SubSeq(w, Len(a) + 1, Len(a) + Len(e)) = e

LEMMA PartInWhole ==
  ASSUME NEW S, NEW n \in Nat, NEW s, \A i \in 1..n : s[i] \in Seq(S), NEW f, Builds(f, S, s, n), NEW k \in 1..n
  PROVE  PartAt(f[n], f[k - 1], s[k])
<1>1. f[k - 1] \in Seq(S) /\ Within(f[n], S, f[k - 1], s[k])
  BY WholeAt, Zenon
<1>2. PICK a \in Seq(S), b \in Seq(S) : a = f[k - 1] /\ b = s[k]
  BY <1>1, Zenon
<1>3. PICK w \in Seq(S) : w = a \o b /\ Len(w) = Len(a) + Len(b)
  BY ConcatByPlace, Zenon
<1>4. PICK c \in Seq(S) : f[n] = w \o c
  BY <1>1, <1>2, <1>3, Zenon DEF Within
<1>5. w \o c \in Seq(S)
  OBVIOUS
<1>6. PICK p \in Nat, q \in Nat : p = Len(a) /\ q = Len(b)
  OBVIOUS
<1>7. p + 1 \in Nat \ {0} /\ p + q \in Nat /\ p + q <= Len(w) /\ 1 \in Nat \ {0} /\ q <= Len(b)
  BY <1>3, <1>6
<1>8. SubSeq(w \o c, p + 1, p + q) = SubSeq(w, p + 1, p + q)
  BY <1>7, InFront, ZenonT(60)
<1>9. SubSeq(a \o b, Len(a) + 1, Len(a) + q) = SubSeq(b, 1, q)
  BY <1>7, InBack, ZenonT(60)
<1>10. SubSeq(b, 1, Len(b)) = b
  BY SubSeqFull
<1> QED
  BY <1>2, <1>3, <1>4, <1>5, <1>6, <1>8, <1>9, <1>10, Zenon DEF PartAt

-----------------------------------------------------------------------------
(***************************************************************************)
(* Octets of which the loop reads all, unless it refuses them.             *)
(***************************************************************************)

Reads(a, l) ==
  /\ a \in Seq(Byte) /\ l \in Seq(Entries)
  /\ ~FrameLoop(a).failed => FrameLoop(a).buf = <<>> /\ FrameLoop(a).log = l

LEMMA ReadsNothing == Reads(<<>>, <<>>)
<1>1. PICK z \in Seq(Byte) : z = <<>> /\ Len(z) = 0
  <2>1. <<>> \in Seq(Byte) /\ Len(<<>>) = 0
    OBVIOUS
  <2> QED
    BY <2>1, Zenon
<1>2. Waits(z)
  BY <1>1 DEF Waits, HTTP2_FRAME_HEADER_SIZE
<1>3. PICK q : q = FrameLoop(z) /\ q = St(z, <<>>, TRUE, FALSE)
  BY <1>2, LoopUnfold, Zenon DEF LoopEnds
<1>4. q.log = <<>> /\ q.buf = z
  BY <1>3 DEF St
<1>5. <<>> \in Seq(Entries)
  OBVIOUS
<1> QED
  BY <1>1, <1>3, <1>4, <1>5, Zenon DEF Reads

LEMMA ReadsBoth ==
  ASSUME NEW a, NEW l, NEW c, NEW m, Reads(a, l), Reads(c, m)
  PROVE  Reads(a \o c, l \o m)
<1>1. a \in Seq(Byte) /\ l \in Seq(Entries) /\ c \in Seq(Byte) /\ m \in Seq(Entries)
  BY Zenon DEF Reads
<1>2. a \o c \in Seq(Byte) /\ l \o m \in Seq(Entries) /\ <<>> \o c = c
  BY <1>1
<1>3. PICK r, t, u : r = FrameLoop(a) /\ t = FrameLoop(a \o c) /\ u = FrameLoop(r.buf \o c)
  BY Zenon
<1>4. Continues(r, t, u)
  BY <1>1, <1>3, Splits, Zenon DEF LoopSplits
<1>5. CASE r.failed
  BY <1>2, <1>3, <1>4, <1>5, Zenon DEF Continues, Reads
<1>6. CASE ~r.failed
  <2>1. r.buf = <<>> /\ r.log = l
    BY <1>3, <1>6, Zenon DEF Reads
  <2>2. u = FrameLoop(c)
    BY <1>2, <1>3, <2>1, Zenon
  <2>3. t = Before(l, u)
    BY <1>4, <1>6, <2>1, Zenon DEF Continues
  <2>4. Before(l, u).failed = u.failed /\ Before(l, u).buf = u.buf /\ Before(l, u).log = l \o u.log
    BY BeforeStop
  <2> QED
    BY <1>2, <1>3, <2>2, <2>3, <2>4, Zenon DEF Reads
<1> QED
  BY <1>5, <1>6

\* What is logged of a frame.
Logged(h, c) == IF h.type > Continuation THEN [error |-> 0, unknown |-> h] ELSE ParsePayload(h, c)

LEMMA ReadsFrame ==
  ASSUME NEW h \in Header, NEW c \in Seq(Byte), Len(c) = h.length
  PROVE  Reads(http2_frame_header_pack(h) \o c, <<Logged(h, c)>>)
<1>1. PICK b \in Seq(Byte) : /\ b = http2_frame_header_pack(h) \o c /\ Len(b) = 9 + Len(c)
                             /\ FirstHeader(b) = h /\ From(b, 10) = c
  <2>1. /\ http2_frame_header_pack(h) \o c \in Seq(Byte) /\ Len(http2_frame_header_pack(h) \o c) = 9 + Len(c)
        /\ FirstHeader(http2_frame_header_pack(h) \o c) = h /\ From(http2_frame_header_pack(h) \o c, 10) = c
    BY PacketFirst
  <2> QED
    BY <2>1, Zenon
<1>2. PICK n \in Nat : n = Len(c) /\ n = h.length
  OBVIOUS
<1>3. FirstSize(b) = n + 9
  BY <1>1, <1>2, Zenon DEF FirstSize, HTTP2_FRAME_HEADER_SIZE
<1>4. Len(b) = 9 + n
  BY <1>1, <1>2, Zenon
<1>5. SubSeq(b, 9 + 1, 9 + n) = c /\ From(b, (n + 9) + 1) = <<>>
  <2>1. 9 + 1 = 10 /\ Len(b) < (n + 9) + 1 /\ Len(b) \in Int /\ (n + 9) + 1 \in Int
    BY <1>4
  <2>2. SubSeq(b, (n + 9) + 1, Len(b)) = <<>>
    BY <2>1, SubSeqEmpty
  <2> QED
    BY <1>1, <1>4, <2>1, <2>2, Zenon DEF From
<1>6. FirstEntry(b) = Logged(h, c)
  BY <1>1, <1>2, <1>5, Zenon DEF FirstEntry, Entry, Logged, HTTP2_FRAME_HEADER_SIZE
<1>7. <<FirstEntry(b)>> \in Seq(Entries)
  <2>1. FirstEntry(b) \in Entries
    BY Zenon DEF Entries
  <2> QED
    BY <2>1
<1>8. ~Waits(b)
  <2>1. ~(9 + n < 9) /\ ~(n + 9 > 9 + n)
    BY <1>2
  <2> QED
    BY <1>3, <1>4, <2>1, Zenon DEF Waits, HTTP2_FRAME_HEADER_SIZE
<1>9. CASE TooLarge(b)
  <2>1. PICK q : q = FrameLoop(b) /\ q = St(b, <<>>, TRUE, TRUE)
    BY <1>9, LoopUnfold, Zenon DEF LoopEnds
  <2>2. q.failed
    BY <2>1 DEF St
  <2> QED
    BY <1>1, <1>6, <1>7, <2>1, <2>2, Zenon DEF Reads
<1>10. CASE ~TooLarge(b)
  <2>0. LoopReads(b)
    BY <1>8, <1>10, LoopUnfold, Zenon
  <2>1. PICK q, u, e : q = FrameLoop(b) /\ u = FrameLoop(<<>>) /\ e = FirstEntry(b) /\ q = Before(<<e>>, u)
    <3>1. FrameLoop(b) = Before(<<FirstEntry(b)>>, FrameLoop(<<>>))
      BY <1>3, <1>5, <2>0, Zenon DEF LoopReads
    <3> QED
      BY <3>1, Zenon
  <2>2. q.failed = u.failed /\ q.buf = u.buf /\ q.log = <<e>> \o u.log
    <3>1. /\ Before(<<e>>, u).failed = u.failed /\ Before(<<e>>, u).buf = u.buf
          /\ Before(<<e>>, u).log = <<e>> \o u.log
      BY BeforeStop
    <3> QED
      BY <2>1, <3>1, Zenon
  <2>3. ~u.failed => u.buf = <<>> /\ u.log = <<>>
    BY <2>1, ReadsNothing, Zenon DEF Reads
  <2>4. <<e>> \o <<>> = <<e>>
    OBVIOUS
  <2> QED
    BY <1>1, <1>6, <1>7, <2>1, <2>2, <2>3, <2>4, Zenon DEF Reads
<1> QED
  BY <1>9, <1>10

\* One behind the other.
LEMMA ReadsAll ==
  ASSUME NEW n \in Nat, NEW s, NEW t, \A i \in 1..n : Reads(s[i], t[i]),
         NEW f, Builds(f, Byte, s, n), NEW g, Builds(g, Entries, t, n)
  PROVE  Reads(f[n], g[n])
<1> DEFINE T == {k \in Nat : k <= n => Reads(f[k], g[k])}
<1>1. /\ f[0] = <<>> /\ (\A i \in 1..n : f[i] = f[i - 1] \o s[i])
      /\ g[0] = <<>> /\ (\A i \in 1..n : g[i] = g[i - 1] \o t[i])
  BY Zenon DEF Builds
<1>2. 0 \in T
  <2>1. Reads(f[0], g[0])
    BY <1>1, ReadsNothing, Zenon
  <2> QED
    BY <2>1
<1>3. ASSUME NEW k \in Nat, k \in T PROVE k + 1 \in T
  <2> SUFFICES ASSUME k + 1 <= n PROVE Reads(f[k + 1], g[k + 1])
    OBVIOUS
  <2>1. k + 1 \in 1..n /\ (k + 1) - 1 = k /\ Reads(f[k], g[k])
    BY <1>3
  <2>2. f[k + 1] = f[k] \o s[k + 1] /\ g[k + 1] = g[k] \o t[k + 1] /\ Reads(s[k + 1], t[k + 1])
    BY <1>1, <2>1, Zenon
  <2>3. Reads(f[k] \o s[k + 1], g[k] \o t[k + 1])
    BY <2>1, <2>2, ReadsBoth, Zenon
  <2> QED
    BY <2>2, <2>3, Zenon
<1>4. Nat \subseteq T
  <2> HIDE DEF T
  <2> QED
    BY <1>2, <1>3, SetInduction
<1> QED
  BY <1>4

-----------------------------------------------------------------------------
(***************************************************************************)
(* Padding.                                                                *)
(***************************************************************************)

\* p in the frame with the header h, with pad octets behind it if it is padded.
Zeros(pad) == [i \in 1..pad |-> 0]
Framed(h, pad, p) == IF Has(h.flags, Padded) THEN (<<pad>> \o p) \o Zeros(pad) ELSE p

LEMMA ZerosType ==
  ASSUME NEW pad \in Byte
  PROVE  Zeros(pad) \in Seq(Byte) /\ Len(Zeros(pad)) = pad
<1>1. pad \in Nat /\ 0 \in Byte
  BY DEF Byte
<1>2. Zeros(pad) \in [1..pad -> Byte]
  BY <1>1 DEF Zeros
<1> QED
  BY <1>1, <1>2, LenOfFun

\* The octets x around p: where p is, and what is in front of the padding.
Around(x, pad, p) ==
  /\ x \in Seq(Byte) /\ Len(x) = (Len(p) + pad) + 1 /\ x[1] = pad
  /\ SubSeq(x, 2, Len(p) + 1) = p /\ SubSeq(x, 1, Len(p) + 1) = <<pad>> \o p

LEMMA FramedIs ==
  ASSUME NEW pad \in Byte, NEW p \in Seq(Byte), NEW z \in Seq(Byte), Len(z) = pad
  PROVE  Around((<<pad>> \o p) \o z, pad, p)
<1>1. PICK o \in Seq(Byte) : o = <<pad>> /\ Len(o) = 1 /\ o[1] = pad
  <2>1. <<pad>> \in Seq(Byte) /\ Len(<<pad>>) = 1 /\ <<pad>>[1] = pad
    OBVIOUS
  <2> QED
    BY <2>1, Zenon
<1>2. PICK n \in Nat : n = Len(p)
  OBVIOUS
<1>3. PICK a \in Seq(Byte) : a = o \o p /\ Len(a) = Len(o) + Len(p) /\ \A i \in 1..Len(o) : a[i] = o[i]
  <2>1. o \o p \in Seq(Byte) /\ Len(o \o p) = Len(o) + Len(p) /\ \A i \in 1..Len(o) : (o \o p)[i] = o[i]
    BY ConcatByPlace
  <2> QED
    BY <2>1, Zenon
<1>4. Len(a) = n + 1 /\ a[1] = pad
  <2>1. Len(o) = 1 /\ 1 \in 1..1 /\ 1 + n = n + 1
    BY <1>1, <1>2
  <2> QED
    BY <1>1, <1>2, <1>3, <2>1, Zenon
<1>5. PICK c \in Seq(Byte) : c = a \o z /\ Len(c) = Len(a) + Len(z) /\ \A i \in 1..Len(a) : c[i] = a[i]
  <2>1. a \o z \in Seq(Byte) /\ Len(a \o z) = Len(a) + Len(z) /\ \A i \in 1..Len(a) : (a \o z)[i] = a[i]
    BY ConcatByPlace
  <2> QED
    BY <2>1, Zenon
<1>6. Len(c) = (n + pad) + 1 /\ c[1] = pad
  <2>1. 1 \in 1..(n + 1) /\ (n + 1) + pad = (n + pad) + 1
    BY DEF Byte
  <2> QED
    BY <1>4, <1>5, <2>1, Zenon
<1>7. SubSeq(c, 2, n + 1) = p
  <2>1. 2 \in Nat \ {0} /\ n + 1 \in Nat /\ n + 1 <= Len(a) /\ 1 \in Nat \ {0} /\ n <= Len(p)
    BY <1>2, <1>4
  <2>2. SubSeq(a \o z, 2, n + 1) = SubSeq(a, 2, n + 1)
    BY <2>1, InFront, ZenonT(60)
  <2>3. SubSeq(o \o p, Len(o) + 1, Len(o) + n) = SubSeq(p, 1, n)
    BY <2>1, InBack, ZenonT(60)
  <2>4. Len(o) + 1 = 2 /\ Len(o) + n = n + 1
    BY <1>1
  <2>5. SubSeq(p, 1, Len(p)) = p
    BY SubSeqFull
  <2> QED
    BY <1>2, <1>3, <1>5, <2>2, <2>3, <2>4, <2>5, Zenon
<1>8. SubSeq(c, 1, n + 1) = a
  <2>1. 1 \in Nat \ {0} /\ n + 1 \in Nat /\ n + 1 <= Len(a)
    BY <1>4
  <2>2. SubSeq(a \o z, 1, n + 1) = SubSeq(a, 1, n + 1)
    BY <2>1, InFront, ZenonT(60)
  <2>3. SubSeq(a, 1, Len(a)) = a
    BY SubSeqFull
  <2> QED
    BY <1>4, <1>5, <2>2, <2>3, Zenon
<1> QED
  BY <1>1, <1>2, <1>3, <1>5, <1>6, <1>7, <1>8, Zenon DEF Around

UnpadIs(u, pad, p) == u.ok /\ u.pad_len = pad /\ u.payload = p

\* Padding is taken off as it was put on.
LEMMA UnpadFramed ==
  ASSUME NEW h, NEW pad \in Byte, NEW p \in Seq(Byte), ~Has(h.flags, Padded) => pad = 0,
         h.length = Len(Framed(h, pad, p))
  PROVE  Framed(h, pad, p) \in Seq(Byte) /\ UnpadIs(Unpad(h, Framed(h, pad, p)), pad, p)
<1>1. CASE ~Has(h.flags, Padded)
  <2>1. Framed(h, pad, p) = p /\ pad = 0
    BY <1>1, Zenon DEF Framed
  <2>2. Unpad(h, p) = [ok |-> TRUE, pad_len |-> 0, payload |-> p]
    BY <1>1, Zenon DEF Unpad
  <2>3. PICK u : u = Unpad(h, p) /\ u.ok /\ u.pad_len = 0 /\ u.payload = p
    BY <2>2
  <2> QED
    BY <2>1, <2>3, Zenon DEF UnpadIs
<1>2. CASE Has(h.flags, Padded)
  <2>1. PICK z \in Seq(Byte) : z = Zeros(pad) /\ Len(z) = pad
    BY ZerosType, Zenon
  <2>2. PICK c : c = (<<pad>> \o p) \o z /\ c = Framed(h, pad, p)
    BY <1>2, <2>1, Zenon DEF Framed
  <2>3. PICK n \in Nat : n = Len(p)
    OBVIOUS
  <2>4. c \in Seq(Byte) /\ Len(c) = (n + pad) + 1 /\ c[1] = pad /\ SubSeq(c, 2, n + 1) = p
    <3>1. Around(c, pad, p)
      BY <2>1, <2>2, FramedIs, Zenon
    <3> QED
      BY <2>3, <3>1, Zenon DEF Around
  <2>5. h.length = (n + pad) + 1
    BY <2>2, <2>4, Zenon
  <2>6. (n + pad) + 1 > 0 /\ pad + 1 <= (n + pad) + 1 /\ ((n + pad) + 1) - pad = n + 1
    BY DEF Byte
  <2>7. Unpad(h, c) = [ok |-> pad + 1 <= (n + pad) + 1, pad_len |-> pad, payload |-> p]
    BY <1>2, <2>4, <2>5, <2>6, Zenon DEF Unpad
  <2>8. PICK u, ok : u = Unpad(h, c) /\ ok = (pad + 1 <= (n + pad) + 1) /\ ok
                     /\ u = [ok |-> ok, pad_len |-> pad, payload |-> p]
    BY <2>6, <2>7, Zenon
  <2>9. u.ok = ok /\ u.pad_len = pad /\ u.payload = p
    <3>1. u = [ok |-> ok, pad_len |-> pad, payload |-> p]
      BY <2>8, Zenon
    <3> QED
      BY <3>1
  <2> QED
    BY <2>2, <2>4, <2>8, <2>9, Zenon DEF UnpadIs
<1> QED
  BY <1>1, <1>2

\* f is c again, up to the padding.
Restores(h, pad, p, c) ==
  LET last == Len(c) - (IF Has(h.flags, Padded) THEN pad ELSE 0)
  IN  /\ Len(Framed(h, pad, p)) = Len(c)
      /\ SubSeq(Framed(h, pad, p), 1, last) = SubSeq(c, 1, last)

LEMMA UnpadRestores ==
  ASSUME NEW h, NEW c \in Seq(Byte), Len(c) = h.length, NEW u, u = Unpad(h, c), u.ok
  PROVE  /\ u.payload \in Seq(Byte) /\ u.pad_len \in Byte /\ (~Has(h.flags, Padded) => u.pad_len = 0)
         /\ Restores(h, u.pad_len, u.payload, c)
<1>1. CASE ~Has(h.flags, Padded)
  <2>1. u = [ok |-> TRUE, pad_len |-> 0, payload |-> c]
    BY <1>1, Zenon DEF Unpad
  <2>2. u.pad_len = 0 /\ u.payload = c
    BY <2>1
  <2>3. 0 \in Byte
    BY DEF Byte
  <2> QED
    BY <1>1, <2>2, <2>3, Zenon DEF Restores, Framed
<1>2. CASE Has(h.flags, Padded)
  <2>1. PICK m \in Nat : m = Len(c) /\ m = h.length
    OBVIOUS
  <2>2. PICK pad : pad = IF m > 0 THEN c[1] ELSE 0
    BY Zenon
  <2>3. u = [ok |-> pad + 1 <= m, pad_len |-> pad, payload |-> SubSeq(c, 2, m - pad)]
    BY <1>2, <2>1, <2>2, Zenon DEF Unpad
  <2>4. u.ok = (pad + 1 <= m) /\ u.pad_len = pad /\ u.payload = SubSeq(c, 2, m - pad)
    <3>1. PICK ok, p : ok = (pad + 1 <= m) /\ p = SubSeq(c, 2, m - pad)
      BY Zenon
    <3>2. u = [ok |-> ok, pad_len |-> pad, payload |-> p]
      BY <2>3, <3>1, Zenon
    <3>3. u.ok = ok /\ u.pad_len = pad /\ u.payload = p
      BY <3>2
    <3> QED
      BY <3>1, <3>3, Zenon
  <2>5. pad \in Byte
    <3>1. CASE m > 0
      <4>1. 1 \in 1..Len(c)
        BY <2>1, <3>1
      <4> QED
        BY <2>2, <3>1, <4>1, ElementOfSeq
    <3>2. CASE ~(m > 0)
      BY <2>2, <3>2 DEF Byte
    <3> QED
      BY <3>1, <3>2
  <2>6. pad + 1 <= m
    BY <2>4, Zenon
  <2>7. m > 0 /\ m - pad \in 1..m /\ m - pad \in 0..Len(c) /\ pad \in Nat
    BY <2>1, <2>5, <2>6 DEF Byte
  <2>8. c[1] = pad
    BY <2>2, <2>7, Zenon
  <2>9. PICK k \in Nat : k = m - pad /\ k >= 1
    BY <2>7
  <2>10. PICK a \in Seq(Byte) : a = SubSeq(c, 1, k) /\ Len(a) = k /\ \A i \in 1..k : a[i] = c[i]
    <3>1. k \in 0..Len(c)
      BY <2>7, <2>9, Zenon
    <3>2. SubSeq(c, 1, k) \in Seq(Byte) /\ Len(SubSeq(c, 1, k)) = k /\ \A i \in 1..k : SubSeq(c, 1, k)[i] = c[i]
      BY <3>1, PartIs
    <3> QED
      BY <3>2, Zenon
  <2>11. PICK p \in Seq(Byte) : p = SubSeq(c, 2, k) /\ p = SubSeq(a, 2, k) /\ Len(p) = k - 1
    <3>1. 2 \in Nat \ {0} /\ k \in Nat /\ k <= Len(a) /\ 1 \in 0..Len(a) /\ 1 + 1 = 2 /\ k \in 0..Len(c)
      BY <2>7, <2>9, <2>10
    <3>2. c = SubSeq(c, 1, k) \o SubSeq(c, k + 1, Len(c)) /\ SubSeq(c, k + 1, Len(c)) \in Seq(Byte)
      <4>1. SubSeq(c, 1, k) \o SubSeq(c, k + 1, Len(c)) = SubSeq(c, 1, Len(c))
        BY <3>1, SMTT(30)
      <4>2. SubSeq(c, 1, Len(c)) = c
        BY SubSeqFull
      <4>3. SubSeq(c, k + 1, Len(c)) \in Seq(Byte)
        BY <3>1, PartIs, Zenon
      <4> QED
        BY <4>1, <4>2, <4>3, Zenon
    <3>3. PICK r \in Seq(Byte) : c = a \o r
      BY <2>10, <3>2, Zenon
    <3>4. SubSeq(a \o r, 2, k) = SubSeq(a, 2, k)
      BY <3>1, InFront, ZenonT(60)
    <3>5. SubSeq(a, 1 + 1, Len(a)) \in Seq(Byte) /\ Len(SubSeq(a, 1 + 1, Len(a))) = Len(a) - 1
      BY <3>1, PartIs, Zenon
    <3> QED
      BY <2>10, <3>1, <3>3, <3>4, <3>5, Zenon
  <2>12. <<pad>> \o p = a
    <3>1. a # <<>> /\ a[1] = pad
      <4>1. 1 \in 1..k
        BY <2>9
      <4>2. a[1] = c[1]
        BY <2>10, <4>1, Zenon
      <4>3. a # <<>>
        <5>1. Len(a) # 0
          BY <2>9, <2>10
        <5>2. Len(<<>>) = 0
          OBVIOUS
        <5> QED
          BY <5>1, <5>2, Zenon
      <4> QED
        BY <2>8, <4>2, <4>3, Zenon
    <3>2. a = <<a[1]>> \o SubSeq(a, 2, Len(a))
      <4>1. Head(a) = a[1] /\ Tail(a) = SubSeq(a, 2, Len(a)) /\ a = <<Head(a)>> \o Tail(a)
        BY <3>1
      <4> QED
        BY <4>1, Zenon
    <3> QED
      BY <2>10, <2>11, <3>1, <3>2, Zenon
  <2>13. PICK z \in Seq(Byte) : z = Zeros(pad) /\ Len(z) = pad
    BY <2>5, ZerosType, Zenon
  <2>14. PICK x : x = (<<pad>> \o p) \o z /\ x = Framed(h, pad, p)
    BY <1>2, <2>13, Zenon DEF Framed
  <2>15. Len(x) = (Len(p) + pad) + 1 /\ SubSeq(x, 1, Len(p) + 1) = <<pad>> \o p
    <3>1. Around(x, pad, p)
      BY <2>5, <2>13, <2>14, FramedIs, Zenon
    <3> QED
      BY <3>1, Zenon DEF Around
  <2>16. Len(p) + 1 = k /\ (Len(p) + pad) + 1 = m
    <3>1. Len(p) = k - 1 /\ k = m - pad /\ k \in Nat /\ m \in Nat /\ pad \in Nat
      BY <2>7, <2>9, <2>11, Zenon
    <3> QED
      BY <3>1
  <2>17. Len(x) = Len(c) /\ SubSeq(x, 1, k) = SubSeq(c, 1, k)
    BY <2>1, <2>10, <2>12, <2>15, <2>16, Zenon
  <2>18. Restores(h, pad, p, c)
    BY <1>2, <2>1, <2>9, <2>14, <2>17, Zenon DEF Restores
  <2> QED
    BY <1>2, <2>4, <2>5, <2>9, <2>11, <2>18, Zenon
<1> QED
  BY <1>1, <1>2

-----------------------------------------------------------------------------
(***************************************************************************)
(* Payloads, type by type: a frame is parsed as it was laid out, and what  *)
(* is parsed without an error is the payload when it is laid out again.    *)
(***************************************************************************)

\* Octets with n in front of them.
Fronted(a, d, n) ==
  /\ a \o d \in Seq(Byte) /\ Len(a \o d) = n + Len(d)
  /\ SubSeq(a \o d, 1, n) = a /\ From(a \o d, n + 1) = d /\ TopBit(a \o d) = TopBit(a)

LEMMA FirstStays ==
  ASSUME NEW a \in Seq(Byte), NEW d \in Seq(Byte), 1 <= Len(a)
  PROVE  a \o d \in Seq(Byte) /\ Len(a \o d) = Len(a) + Len(d) /\ (a \o d)[1] = a[1]
OBVIOUS

LEMMA FrontIs ==
  ASSUME NEW a \in Seq(Byte), NEW d \in Seq(Byte), NEW n \in Nat \ {0}, Len(a) = n
  PROVE  Fronted(a, d, n)
<1>1. 1 <= Len(a)
  OBVIOUS
<1>2. n \in Nat /\ 1 \in Nat \ {0} /\ n <= Len(a) /\ n + 1 \in Int /\ Len(a) < n + 1
  OBVIOUS
<1>3. a \o d \in Seq(Byte) /\ Len(a \o d) = Len(a) + Len(d) /\ (a \o d)[1] = a[1]
  BY <1>1, FirstStays, Zenon
<1>4. SubSeq(a \o d, 1, n) = SubSeq(a, 1, n)
  BY <1>2, InFront, ZenonT(60)
<1>5. SubSeq(a, 1, Len(a)) = a
  BY SubSeqFull
<1>6. From(a \o d, n + 1) = From(a, n + 1) \o d
  BY <1>2, RestOfJoined, Zenon
<1>7. SubSeq(a, n + 1, Len(a)) = <<>>
  BY <1>2, SubSeqEmpty
<1>8. <<>> \o d = d
  OBVIOUS
<1>9. From(a \o d, n + 1) = d
  BY <1>6, <1>7, <1>8, Zenon DEF From
<1>10. TopBit(a \o d) = TopBit(a)
  BY <1>3, Zenon DEF TopBit
<1> QED
  BY <1>3, <1>4, <1>5, <1>9, <1>10, Zenon DEF Fronted

\* The same octets, put together in another way.
Regrouped(a, b, c) == (a \o b) \o c = a \o (b \o c)
AtEnd(a, b) == Append(a, b) = a \o <<b>>
Later(a, c, i) == (a \o c)[Len(a) + i] = c[i]

LEMMA Regroup ==
  ASSUME NEW a \in Seq(Byte), NEW b \in Seq(Byte), NEW c \in Seq(Byte)
  PROVE  Regrouped(a, b, c)
BY ConcatAssociative DEF Regrouped

LEMMA EndIs ==
  ASSUME NEW a \in Seq(Byte), NEW b \in Byte
  PROVE  AtEnd(a, b)
<1>1. /\ Append(a, b) = a \o <<b>> /\ <<b>> \in Seq(Byte) /\ Append(a, b) \in Seq(Byte)
      /\ Len(Append(a, b)) = Len(a) + 1
      /\ Append(a, b)[Len(a) + 1] = b /\ \A i \in 1..Len(a) : Append(a, b)[i] = a[i]
  BY AppendJoins
<1> QED
  BY <1>1, Zenon DEF AtEnd

LEMMA LaterIs ==
  ASSUME NEW a \in Seq(Byte), NEW c \in Seq(Byte), NEW i \in 1..Len(c)
  PROVE  Later(a, c, i)
BY ConcatByPlace DEF Later

Middle(a, c, k, l) == SubSeq(a \o c, Len(a) + k, Len(a) + l) = SubSeq(c, k, l)

LEMMA MiddleIs ==
  ASSUME NEW a \in Seq(Byte), NEW c \in Seq(Byte), NEW k \in Nat \ {0}, NEW l \in Nat, l <= Len(c)
  PROVE  Middle(a, c, k, l)
BY InBack, Zenon DEF Middle

LEMMA Cut ==
  ASSUME NEW p \in Seq(Byte), NEW n \in Nat, n <= Len(p)
  PROVE  \E a \in Seq(Byte), d \in Seq(Byte) : p = a \o d /\ Len(a) = n
<1>1. n \in 0..Len(p)
  OBVIOUS
<1>2. /\ SubSeq(p, 1, n) \in Seq(Byte) /\ Len(SubSeq(p, 1, n)) = n /\ SubSeq(p, n + 1, Len(p)) \in Seq(Byte)
      /\ p = SubSeq(p, 1, n) \o SubSeq(p, n + 1, Len(p))
  BY <1>1, PartIs, ZenonT(60)
<1> QED
  BY <1>2, Zenon

\* What parsing says of a frame that is laid out as f is.
Parses(f) ==
  /\ Layout(f) \in Seq(Byte)
  /\ ParsePayload(f.hdr, Layout(f)) = IF ShortHeaders(f) THEN FrameSizeError ELSE NoError(f)

\* What is parsed of c is all of c.
Accounts(h, c) == ParsePayload(h, c).error = 0 => LaysOut(ParsePayload(h, c).frame, c)

LEMMA ErrorIs ==
  ASSUME NEW g
  PROVE  FrameSizeError.error # 0 /\ NoError(g).error = 0 /\ NoError(g).frame = g
BY DEF FrameSizeError, NoError

LEMMA AccountsError ==
  ASSUME NEW h, NEW c, ParsePayload(h, c) = FrameSizeError
  PROVE  Accounts(h, c)
BY ErrorIs, Zenon DEF Accounts

LEMMA AccountsSame ==
  ASSUME NEW h, NEW c, NEW g, ParsePayload(h, c) = NoError(g), Layout(g) = c
  PROVE  Accounts(h, c)
<1>1. LaysOut(g, c)
  BY Zenon DEF LaysOut
<1> QED
  BY <1>1, ErrorIs, Zenon DEF Accounts

LEMMA AccountsPadded ==
  ASSUME NEW h, NEW c, NEW g, ParsePayload(h, c) = NoError(g), g.hdr = h,
         MayBePadded(h) <=> Has(h.flags, Padded), Restores(h, g.pad_len, Body(g), c)
  PROVE  Accounts(h, c)
<1>1. Layout(g) = Framed(h, g.pad_len, Body(g))
  BY Zenon DEF Layout, Framed, Zeros
<1>2. LaysOut(g, c)
  BY <1>1, Zenon DEF LaysOut, Restores
<1> QED
  BY <1>2, ErrorIs, Zenon DEF Accounts

\* RST_STREAM.
LEMMA RstStreamCase ==
  ASSUME NEW f, f.hdr.type = RstStream
  PROVE  /\ Fields(f) => f \in [hdr : Header, error_code : Number]
         /\ Layout(f) = put_uint32_in_be_stream(f.error_code) /\ ~ShortHeaders(f)
         /\ \A c : ParsePayload(f.hdr, c) = parse_http2_frame_rst_stream(f.hdr, c)
BY SMT DEF Fields, Layout, MayBePadded, Body, ParsePayload, ShortHeaders, Data, Headers, Priority, RstStream,
           Settings, PushPromise, Ping, GoAway, WindowUpdate, Continuation

LEMMA RstStreamParses ==
  ASSUME NEW f, WellFormed(f), f.hdr.type = RstStream
  PROVE  Parses(f)
<1>1. /\ f \in [hdr : Header, error_code : Number] /\ f.hdr.length = Len(Layout(f))
      /\ Layout(f) = put_uint32_in_be_stream(f.error_code) /\ ~ShortHeaders(f)
      /\ \A c : ParsePayload(f.hdr, c) = parse_http2_frame_rst_stream(f.hdr, c)
  BY RstStreamCase, Zenon DEF WellFormed
<1>2. f.error_code \in Number /\ f = [hdr |-> f.hdr, error_code |-> f.error_code]
  BY <1>1, SMT
<1>3. PICK p : p = Layout(f) /\ p \in Seq(Byte) /\ Len(p) = 4 /\ get_uint32_from_be_stream(p) = f.error_code
  BY <1>1, <1>2, Put32, Zenon
<1> QED
  BY <1>1, <1>2, <1>3, Zenon DEF Parses, parse_http2_frame_rst_stream

LEMMA RstStreamAccounts ==
  ASSUME NEW h, h.type = RstStream, NEW c \in Seq(Byte), Len(c) = h.length
  PROVE  Accounts(h, c)
<1> DEFINE g == [hdr |-> h, error_code |-> get_uint32_from_be_stream(c)]
<1>1. g.hdr = h /\ g.error_code = get_uint32_from_be_stream(c)
  OBVIOUS
<1> HIDE DEF g
<1>2. /\ Layout(g) = put_uint32_in_be_stream(g.error_code)
      /\ \A d : ParsePayload(h, d) = parse_http2_frame_rst_stream(h, d)
  BY <1>1, RstStreamCase, Zenon
<1>3. CASE h.length # 4
  BY <1>2, <1>3, AccountsError, Zenon DEF parse_http2_frame_rst_stream
<1>4. CASE h.length = 4
  <2>1. ParsePayload(h, c) = NoError(g)
    BY <1>2, <1>4, Zenon DEF parse_http2_frame_rst_stream, g
  <2>2. Layout(g) = c
    BY <1>1, <1>2, <1>4, PutBack, Zenon
  <2> QED
    BY <2>1, <2>2, AccountsSame, Zenon
<1> QED
  BY <1>3, <1>4

\* WINDOW_UPDATE.
LEMMA WindowUpdateCase ==
  ASSUME NEW f, f.hdr.type = WindowUpdate
  PROVE  /\ Fields(f) => f \in [hdr : Header, reserved : BOOLEAN, window_size_inc : Number]
         /\ Layout(f) = PutWithTop(f.reserved, f.window_size_inc) /\ ~ShortHeaders(f)
         /\ \A c : ParsePayload(f.hdr, c) = parse_http2_frame_window_update(f.hdr, c)
BY SMT DEF Fields, Layout, MayBePadded, Body, ParsePayload, ShortHeaders, Data, Headers, Priority, RstStream,
           Settings, PushPromise, Ping, GoAway, WindowUpdate, Continuation

LEMMA WindowUpdateParses ==
  ASSUME NEW f, WellFormed(f), f.hdr.type = WindowUpdate
  PROVE  Parses(f)
<1>1. /\ f \in [hdr : Header, reserved : BOOLEAN, window_size_inc : Number] /\ f.hdr.length = Len(Layout(f))
      /\ Layout(f) = PutWithTop(f.reserved, f.window_size_inc) /\ ~ShortHeaders(f)
      /\ \A c : ParsePayload(f.hdr, c) = parse_http2_frame_window_update(f.hdr, c)
  BY WindowUpdateCase, Zenon DEF WellFormed
<1>2. /\ f.reserved \in BOOLEAN /\ f.window_size_inc \in Number
      /\ f = [hdr |-> f.hdr, reserved |-> f.reserved, window_size_inc |-> f.window_size_inc]
  BY <1>1, SMT
<1>3. PICK p : /\ p = Layout(f) /\ p \in Seq(Byte) /\ Len(p) = 4
               /\ TopBit(p) = f.reserved /\ GetMasked(p) = f.window_size_inc
  BY <1>1, <1>2, PutTop, Zenon
<1> QED
  BY <1>1, <1>2, <1>3, Zenon DEF Parses, parse_http2_frame_window_update

LEMMA WindowUpdateAccounts ==
  ASSUME NEW h, h.type = WindowUpdate, NEW c \in Seq(Byte), Len(c) = h.length
  PROVE  Accounts(h, c)
<1> DEFINE g == [hdr |-> h, reserved |-> TopBit(c), window_size_inc |-> GetMasked(c)]
<1>1. g.hdr = h /\ g.reserved = TopBit(c) /\ g.window_size_inc = GetMasked(c)
  OBVIOUS
<1> HIDE DEF g
<1>2. /\ Layout(g) = PutWithTop(g.reserved, g.window_size_inc)
      /\ \A d : ParsePayload(h, d) = parse_http2_frame_window_update(h, d)
  BY <1>1, WindowUpdateCase, Zenon
<1>3. CASE h.length # 4
  BY <1>2, <1>3, AccountsError, Zenon DEF parse_http2_frame_window_update
<1>4. CASE h.length = 4
  <2>1. ParsePayload(h, c) = NoError(g)
    BY <1>2, <1>4, Zenon DEF parse_http2_frame_window_update, g
  <2>2. Layout(g) = c
    BY <1>1, <1>2, <1>4, PutBack, Zenon
  <2> QED
    BY <2>1, <2>2, AccountsSame, Zenon
<1> QED
  BY <1>3, <1>4

\* PING.
LEMMA PingCase ==
  ASSUME NEW f, f.hdr.type = Ping
  PROVE  /\ Fields(f) => f \in [hdr : Header, opaque_data : Seq(Byte)] /\ Len(f.opaque_data) = 8
         /\ Layout(f) = f.opaque_data /\ ~ShortHeaders(f)
         /\ \A c : ParsePayload(f.hdr, c) = parse_http2_frame_ping(f.hdr, c)
BY SMT DEF Fields, Layout, MayBePadded, Body, ParsePayload, ShortHeaders, Data, Headers, Priority, RstStream,
           Settings, PushPromise, Ping, GoAway, WindowUpdate, Continuation

LEMMA PingParses ==
  ASSUME NEW f, WellFormed(f), f.hdr.type = Ping
  PROVE  Parses(f)
<1>1. /\ f \in [hdr : Header, opaque_data : Seq(Byte)] /\ Len(f.opaque_data) = 8 /\ f.hdr.length = Len(Layout(f))
      /\ Layout(f) = f.opaque_data /\ ~ShortHeaders(f)
      /\ \A c : ParsePayload(f.hdr, c) = parse_http2_frame_ping(f.hdr, c)
  BY PingCase, Zenon DEF WellFormed
<1>2. f.opaque_data \in Seq(Byte) /\ f = [hdr |-> f.hdr, opaque_data |-> f.opaque_data]
  BY <1>1, SMT
<1> QED
  BY <1>1, <1>2, Zenon DEF Parses, parse_http2_frame_ping

LEMMA PingAccounts ==
  ASSUME NEW h, h.type = Ping, NEW c
  PROVE  Accounts(h, c)
<1> DEFINE g == [hdr |-> h, opaque_data |-> c]
<1>1. g.hdr = h /\ g.opaque_data = c
  OBVIOUS
<1> HIDE DEF g
<1>2. Layout(g) = c /\ \A d : ParsePayload(h, d) = parse_http2_frame_ping(h, d)
  BY <1>1, PingCase, Zenon
<1>3. CASE h.length # 8
  BY <1>2, <1>3, AccountsError, Zenon DEF parse_http2_frame_ping
<1>4. CASE h.length = 8
  <2>1. ParsePayload(h, c) = NoError(g)
    BY <1>2, <1>4, Zenon DEF parse_http2_frame_ping, g
  <2> QED
    BY <1>2, <2>1, AccountsSame, Zenon
<1> QED
  BY <1>3, <1>4

\* CONTINUATION.
LEMMA ContinuationCase ==
  ASSUME NEW f, f.hdr.type = Continuation
  PROVE  /\ Fields(f) => f \in [hdr : Header, header_block_fragment : Seq(Byte)]
         /\ Layout(f) = f.header_block_fragment /\ ~ShortHeaders(f)
         /\ \A c : ParsePayload(f.hdr, c) = parse_http2_frame_continuation(f.hdr, c)
BY SMT DEF Fields, Layout, MayBePadded, Body, ParsePayload, ShortHeaders, Data, Headers, Priority, RstStream,
           Settings, PushPromise, Ping, GoAway, WindowUpdate, Continuation

LEMMA ContinuationParses ==
  ASSUME NEW f, WellFormed(f), f.hdr.type = Continuation
  PROVE  Parses(f)
<1>1. /\ f \in [hdr : Header, header_block_fragment : Seq(Byte)]
      /\ Layout(f) = f.header_block_fragment /\ ~ShortHeaders(f)
      /\ \A c : ParsePayload(f.hdr, c) = parse_http2_frame_continuation(f.hdr, c)
  BY ContinuationCase, Zenon DEF WellFormed
<1>2. /\ f.header_block_fragment \in Seq(Byte)
      /\ f = [hdr |-> f.hdr, header_block_fragment |-> f.header_block_fragment]
  BY <1>1, SMT
<1> QED
  BY <1>1, <1>2, Zenon DEF Parses, parse_http2_frame_continuation

LEMMA ContinuationAccounts ==
  ASSUME NEW h, h.type = Continuation, NEW c
  PROVE  Accounts(h, c)
<1> DEFINE g == [hdr |-> h, header_block_fragment |-> c]
<1>1. g.hdr = h /\ g.header_block_fragment = c
  OBVIOUS
<1> HIDE DEF g
<1>2. Layout(g) = c /\ \A d : ParsePayload(h, d) = parse_http2_frame_continuation(h, d)
  BY <1>1, ContinuationCase, Zenon
<1>3. ParsePayload(h, c) = NoError(g)
  BY <1>2, Zenon DEF parse_http2_frame_continuation, g
<1> QED
  BY <1>2, <1>3, AccountsSame, Zenon

\* The five octets of a priority, and d behind them.
PriorityOf(a, b) == [depend_stream_id |-> GetMasked(a), exclusive |-> TopBit(a), weight |-> b + 1]
FiveIn(x, a, b, d) ==
  /\ x \in Seq(Byte) /\ Len(x) = 5 + Len(d) /\ x = Append(a, b) \o d /\ Append(a, b) \in Seq(Byte)
  /\ Len(Append(a, b)) = 5 /\ SubSeq(x, 1, 5) = Append(a, b) /\ From(x, 6) = d
  /\ ParsePriority(x) = PriorityOf(a, b)

LEMMA FiveOctets ==
  ASSUME NEW a \in Seq(Byte), Len(a) = 4, NEW b \in Byte, NEW d \in Seq(Byte)
  PROVE  FiveIn(Append(a, b) \o d, a, b, d)
<1>1. PICK o \in Seq(Byte) : o = <<b>> /\ Len(o) = 1 /\ o[1] = b
  <2>1. <<b>> \in Seq(Byte) /\ Len(<<b>>) = 1 /\ <<b>>[1] = b
    OBVIOUS
  <2> QED
    BY <2>1, Zenon
<1>2. PICK q \in Seq(Byte) : q = Append(a, b) /\ q = a \o o /\ Len(q) = 5
  <2>1. Append(a, b) = a \o <<b>> /\ Append(a, b) \in Seq(Byte) /\ Len(Append(a, b)) = Len(a) + 1
    BY AppendJoins, ZenonT(60)
  <2>2. Len(a) + 1 = 5
    OBVIOUS
  <2> QED
    BY <1>1, <2>1, <2>2, Zenon
<1>3. PICK x : x = q \o d
  BY Zenon
<1>4. 5 \in Nat \ {0} /\ 4 \in Nat \ {0} /\ 5 + 1 = 6
  OBVIOUS
<1>5. Fronted(q, d, 5)
  BY <1>2, <1>4, FrontIs, Zenon
<1>6. x \in Seq(Byte) /\ Len(x) = 5 + Len(d) /\ SubSeq(x, 1, 5) = q /\ From(x, 6) = d
  BY <1>3, <1>4, <1>5, Zenon DEF Fronted
<1>7. PICK e \in Seq(Byte) : e = o \o d /\ e[1] = b /\ Len(e) = 1 + Len(d)
  <2>1. 1 <= Len(o)
    BY <1>1
  <2>2. o \o d \in Seq(Byte) /\ Len(o \o d) = Len(o) + Len(d) /\ (o \o d)[1] = o[1]
    BY <2>1, FirstStays, Zenon
  <2> QED
    BY <1>1, <2>2, Zenon
<1>8. x = a \o e
  <2>1. (a \o o) \o d = a \o (o \o d)
    BY Regroup, ZenonT(60) DEF Regrouped
  <2> QED
    BY <1>2, <1>3, <1>7, <2>1, Zenon
<1>9. SubSeq(x, 1, 4) = a /\ TopBit(x) = TopBit(a)
  <2>1. Fronted(a, e, 4)
    BY <1>4, FrontIs, Zenon
  <2> QED
    BY <1>8, <2>1, Zenon DEF Fronted
<1>10. x[5] = b
  <2>1. 1 \in 1..Len(e) /\ Len(a) + 1 = 5
    BY <1>7
  <2>2. Later(a, e, 1)
    BY <2>1, LaterIs, Zenon
  <2> QED
    BY <1>7, <1>8, <2>1, <2>2, Zenon DEF Later
<1>11. ParsePriority(x) = PriorityOf(a, b)
  BY <1>9, <1>10, Zenon DEF ParsePriority, PriorityOf
<1> QED
  BY <1>2, <1>3, <1>6, <1>11, Zenon DEF FiveIn

\* What is laid out is parsed, with anything behind it.
LEMMA PriorityBack ==
  ASSUME NEW s \in PrioritySpec, NEW d \in Seq(Byte)
  PROVE  /\ PriorityLayout(s) \in Seq(Byte) /\ Len(PriorityLayout(s)) = 5
         /\ PriorityLayout(s) \o d \in Seq(Byte) /\ Len(PriorityLayout(s) \o d) = 5 + Len(d)
         /\ ParsePriority(PriorityLayout(s) \o d) = s /\ From(PriorityLayout(s) \o d, 6) = d
<1>1. /\ s.depend_stream_id \in Number /\ s.exclusive \in BOOLEAN /\ s.weight \in 1..256
      /\ s = [depend_stream_id |-> s.depend_stream_id, exclusive |-> s.exclusive, weight |-> s.weight]
  BY SMT DEF PrioritySpec
<1>2. PICK a \in Seq(Byte) : /\ a = PutWithTop(s.exclusive, s.depend_stream_id) /\ Len(a) = 4
                             /\ TopBit(a) = s.exclusive /\ GetMasked(a) = s.depend_stream_id
  BY <1>1, PutTop, Zenon
<1>3. PICK b \in Byte : b = s.weight - 1 /\ b + 1 = s.weight
  <2>1. PICK w \in 1..256 : w = s.weight
    BY <1>1, Zenon
  <2>2. w - 1 \in Byte /\ (w - 1) + 1 = w
    BY DEF Byte
  <2> QED
    BY <2>1, <2>2, Zenon
<1>4. PriorityLayout(s) = Append(a, b)
  BY <1>2, <1>3, Zenon DEF PriorityLayout
<1>5. PriorityOf(a, b) = s
  BY <1>1, <1>2, <1>3, Zenon DEF PriorityOf
<1>6. FiveIn(Append(a, b) \o d, a, b, d)
  BY <1>2, FiveOctets, Zenon
<1> QED
  BY <1>4, <1>5, <1>6, Zenon DEF FiveIn

\* What is parsed is laid out as the five octets were.
LEMMA PriorityPut ==
  ASSUME NEW p \in Seq(Byte), 5 <= Len(p)
  PROVE  PriorityLayout(ParsePriority(p)) \in Seq(Byte) /\ PriorityLayout(ParsePriority(p)) \o From(p, 6) = p
<1>1. PICK a \in Seq(Byte), e \in Seq(Byte) : p = a \o e /\ Len(a) = 4
  <2>1. 4 \in Nat /\ 4 <= Len(p)
    OBVIOUS
  <2> QED
    BY <2>1, Cut, Zenon
<1>2. Len(a \o e) = Len(a) + Len(e)
  BY ConcatByPlace, Zenon
<1>3. 1 \in Nat /\ 1 <= Len(e)
  <2>1. Len(p) = 4 + Len(e)
    BY <1>1, <1>2, Zenon
  <2> QED
    BY <2>1
<1>4. PICK o \in Seq(Byte), d \in Seq(Byte) : e = o \o d /\ Len(o) = 1
  BY <1>3, Cut, Zenon
<1>5. PICK b \in Byte : b = o[1] /\ o = <<b>>
  <2>1. 1 \in 1..Len(o)
    BY <1>4
  <2>2. o[1] \in Byte
    BY <2>1, ElementOfSeq
  <2>3. o = <<o[1]>>
    BY <1>4
  <2> QED
    BY <2>2, <2>3, Zenon
<1>6. Append(a, b) = a \o o /\ (a \o o) \o d = a \o (o \o d)
  <2>1. Append(a, b) = a \o <<b>>
    BY EndIs, Zenon DEF AtEnd
  <2>2. (a \o o) \o d = a \o (o \o d)
    BY Regroup, ZenonT(60) DEF Regrouped
  <2> QED
    BY <1>5, <2>1, <2>2, Zenon
<1>7. p = Append(a, b) \o d
  BY <1>1, <1>4, <1>6, Zenon
<1>8. FiveIn(p, a, b, d)
  BY <1>1, <1>7, FiveOctets, Zenon
<1>9. PICK s : s = ParsePriority(p) /\ s = PriorityOf(a, b)
  BY <1>8, Zenon DEF FiveIn
<1>10. s.depend_stream_id = GetMasked(a) /\ s.exclusive = TopBit(a) /\ s.weight = b + 1
  <2>1. s = [depend_stream_id |-> GetMasked(a), exclusive |-> TopBit(a), weight |-> b + 1]
    BY <1>9, Zenon DEF PriorityOf
  <2> QED
    BY <2>1
<1>11. PutWithTop(TopBit(a), GetMasked(a)) = a
  BY <1>1, PutBack, Zenon
<1>12. (b + 1) - 1 = b
  BY DEF Byte
<1>13. PriorityLayout(s) = Append(a, b)
  BY <1>10, <1>11, <1>12, Zenon DEF PriorityLayout
<1> QED
  BY <1>7, <1>8, <1>9, <1>13, Zenon DEF FiveIn

\* PRIORITY.
LEMMA PriorityCase ==
  ASSUME NEW f, f.hdr.type = Priority
  PROVE  /\ Fields(f) => f \in [hdr : Header, pspec : PrioritySpec]
         /\ Layout(f) = PriorityLayout(f.pspec) /\ ~ShortHeaders(f)
         /\ \A c : ParsePayload(f.hdr, c) = parse_http2_frame_priority(f.hdr, c)
BY SMT DEF Fields, Layout, MayBePadded, Body, ParsePayload, ShortHeaders, Data, Headers, Priority, RstStream,
           Settings, PushPromise, Ping, GoAway, WindowUpdate, Continuation

LEMMA NothingBehind ==
  ASSUME NEW p \in Seq(Byte)
  PROVE  <<>> \in Seq(Byte) /\ p \o <<>> = p
OBVIOUS

LEMMA PriorityParses ==
  ASSUME NEW f, WellFormed(f), f.hdr.type = Priority
  PROVE  Parses(f)
<1>1. /\ f \in [hdr : Header, pspec : PrioritySpec] /\ f.hdr.length = Len(Layout(f))
      /\ Layout(f) = PriorityLayout(f.pspec) /\ ~ShortHeaders(f)
      /\ \A c : ParsePayload(f.hdr, c) = parse_http2_frame_priority(f.hdr, c)
  BY PriorityCase, Zenon DEF WellFormed
<1>2. f.pspec \in PrioritySpec /\ f = [hdr |-> f.hdr, pspec |-> f.pspec]
  BY <1>1, SMT
<1>3. <<>> \in Seq(Byte)
  OBVIOUS
<1>4. PICK p \in Seq(Byte) : p = Layout(f) /\ Len(p) = 5 /\ ParsePriority(p \o <<>>) = f.pspec
  BY <1>1, <1>2, <1>3, PriorityBack, Zenon
<1>5. p \o <<>> = p
  BY NothingBehind, Zenon
<1> QED
  BY <1>1, <1>2, <1>4, <1>5, Zenon DEF Parses, parse_http2_frame_priority

LEMMA PriorityAccounts ==
  ASSUME NEW h, h.type = Priority, NEW c \in Seq(Byte), Len(c) = h.length
  PROVE  Accounts(h, c)
<1> DEFINE g == [hdr |-> h, pspec |-> ParsePriority(c)]
<1>1. g.hdr = h /\ g.pspec = ParsePriority(c)
  OBVIOUS
<1> HIDE DEF g
<1>2. /\ Layout(g) = PriorityLayout(g.pspec)
      /\ \A d : ParsePayload(h, d) = parse_http2_frame_priority(h, d)
  BY <1>1, PriorityCase, Zenon
<1>3. CASE h.length # 5
  BY <1>2, <1>3, AccountsError, Zenon DEF parse_http2_frame_priority
<1>4. CASE h.length = 5
  <2>1. ParsePayload(h, c) = NoError(g)
    BY <1>2, <1>4, Zenon DEF parse_http2_frame_priority, g
  <2>2. 5 <= Len(c) /\ Len(c) < 6 /\ Len(c) \in Int /\ 6 \in Int
    BY <1>4
  <2>3. PriorityLayout(ParsePriority(c)) \in Seq(Byte) /\ PriorityLayout(ParsePriority(c)) \o From(c, 6) = c
    BY <2>2, PriorityPut, Zenon
  <2>4. SubSeq(c, 6, Len(c)) = <<>>
    BY <2>2, SubSeqEmpty
  <2>5. PriorityLayout(ParsePriority(c)) = c
    <3>1. PICK q \in Seq(Byte) : q = PriorityLayout(ParsePriority(c))
      BY <2>3, Zenon
    <3>2. q \o <<>> = q
      BY NothingBehind, Zenon
    <3> QED
      BY <2>3, <2>4, <3>1, <3>2, Zenon DEF From
  <2> QED
    BY <1>1, <1>2, <2>1, <2>5, AccountsSame, Zenon
<1> QED
  BY <1>3, <1>4

\* Two words and d behind them.
EightIn(x, a, b, d) ==
  /\ x \in Seq(Byte) /\ Len(x) = 8 + Len(d) /\ SubSeq(x, 1, 4) = a /\ TopBit(x) = TopBit(a)
  /\ SubSeq(x, 5, 8) = b /\ From(x, 9) = d

LEMMA EightOctets ==
  ASSUME NEW a \in Seq(Byte), Len(a) = 4, NEW b \in Seq(Byte), Len(b) = 4, NEW d \in Seq(Byte)
  PROVE  EightIn((a \o b) \o d, a, b, d)
<1>1. /\ 4 \in Nat \ {0} /\ 8 \in Nat \ {0} /\ 8 + 1 = 9 /\ 1 \in Nat \ {0} /\ 4 \in Nat /\ 4 + 4 = 8
      /\ Len(a) + 1 = 5 /\ Len(a) + 4 = 8
  OBVIOUS
<1>2. Fronted(a, b, 4) /\ Fronted(b, d, 4)
  BY <1>1, FrontIs, Zenon
<1>3. PICK q \in Seq(Byte) : q = a \o b /\ Len(q) = 8
  BY <1>1, <1>2, Zenon DEF Fronted
<1>4. PICK e \in Seq(Byte) : e = b \o d /\ Len(e) = 4 + Len(d) /\ SubSeq(e, 1, 4) = b
  BY <1>2, Zenon DEF Fronted
<1>5. PICK x : x = q \o d /\ x = a \o e
  <2>1. (a \o b) \o d = a \o (b \o d)
    BY Regroup, ZenonT(60) DEF Regrouped
  <2> QED
    BY <1>3, <1>4, <2>1, Zenon
<1>6. Fronted(q, d, 8) /\ Fronted(a, e, 4)
  BY <1>1, <1>3, FrontIs, Zenon
<1>7. x \in Seq(Byte) /\ Len(x) = 8 + Len(d) /\ From(x, 9) = d /\ SubSeq(x, 1, 4) = a /\ TopBit(x) = TopBit(a)
  BY <1>1, <1>5, <1>6, Zenon DEF Fronted
<1>8. SubSeq(x, 5, 8) = b
  <2>1. PICK k \in Nat, l \in Nat \ {0} : k = 4 /\ l = 1 /\ k <= Len(e)
    BY <1>4
  <2>2. SubSeq(a \o e, Len(a) + l, Len(a) + k) = SubSeq(e, l, k)
    <3>1. Middle(a, e, l, k)
      BY <2>1, MiddleIs
    <3> QED
      BY <3>1, Zenon DEF Middle
  <2> QED
    BY <1>1, <1>4, <1>5, <2>1, <2>2, Zenon
<1> QED
  BY <1>3, <1>5, <1>7, <1>8, Zenon DEF EightIn

\* GOAWAY.
LEMMA GoAwayCase ==
  ASSUME NEW f, f.hdr.type = GoAway
  PROVE  /\ Fields(f) => f \in [hdr : Header, reserved : BOOLEAN, last_stream_id : Number,
                                error_code : Number, debug_data : Seq(Byte)]
         /\ Layout(f) = (PutWithTop(f.reserved, f.last_stream_id) \o put_uint32_in_be_stream(f.error_code))
                          \o f.debug_data
         /\ ~ShortHeaders(f)
         /\ \A c : ParsePayload(f.hdr, c) = parse_http2_frame_goaway(f.hdr, c)
<1>1. Fields(f) => f \in [hdr : Header, reserved : BOOLEAN, last_stream_id : Number,
                          error_code : Number, debug_data : Seq(Byte)]
  BY SMT DEF Fields, Data, Headers, Priority, RstStream, Settings, PushPromise, Ping, GoAway, WindowUpdate,
             Continuation
<1>2. Layout(f) = (PutWithTop(f.reserved, f.last_stream_id) \o put_uint32_in_be_stream(f.error_code))
                    \o f.debug_data
  <2>1. ~MayBePadded(f.hdr)
    BY SMT DEF MayBePadded, Data, Headers, PushPromise, GoAway
  <2>2. Body(f) = GoAwayLayout(f)
    BY SMT DEF Body, Data, Headers, Priority, RstStream, Settings, PushPromise, Ping, GoAway, WindowUpdate,
               Continuation
  <2> QED
    BY <2>1, <2>2, Zenon DEF Layout, GoAwayLayout
<1>3. ~ShortHeaders(f)
  BY SMT DEF ShortHeaders, Headers, GoAway
<1>4. \A c : ParsePayload(f.hdr, c) = parse_http2_frame_goaway(f.hdr, c)
  BY SMT DEF ParsePayload, Data, Headers, Priority, RstStream, Settings, PushPromise, Ping, GoAway, WindowUpdate,
             Continuation
<1> QED
  BY <1>1, <1>2, <1>3, <1>4, Zenon

LEMMA GoAwayParses ==
  ASSUME NEW f, WellFormed(f), f.hdr.type = GoAway
  PROVE  Parses(f)
<1>1. /\ f \in [hdr : Header, reserved : BOOLEAN, last_stream_id : Number, error_code : Number,
                debug_data : Seq(Byte)]
      /\ f.hdr.length = Len(Layout(f)) /\ ~ShortHeaders(f)
      /\ Layout(f) = (PutWithTop(f.reserved, f.last_stream_id) \o put_uint32_in_be_stream(f.error_code))
                       \o f.debug_data
      /\ \A c : ParsePayload(f.hdr, c) = parse_http2_frame_goaway(f.hdr, c)
  BY GoAwayCase, Zenon DEF WellFormed
<1>2. /\ f.reserved \in BOOLEAN /\ f.last_stream_id \in Number /\ f.error_code \in Number
      /\ f.debug_data \in Seq(Byte)
      /\ f = [hdr |-> f.hdr, reserved |-> f.reserved, last_stream_id |-> f.last_stream_id,
              error_code |-> f.error_code, debug_data |-> f.debug_data]
  BY <1>1, SMT
<1>3. PICK a \in Seq(Byte) : /\ a = PutWithTop(f.reserved, f.last_stream_id) /\ Len(a) = 4
                             /\ TopBit(a) = f.reserved /\ GetMasked(a) = f.last_stream_id
  BY <1>2, PutTop, Zenon
<1>4. PICK b \in Seq(Byte) : /\ b = put_uint32_in_be_stream(f.error_code) /\ Len(b) = 4
                             /\ get_uint32_from_be_stream(b) = f.error_code
  BY <1>2, Put32, Zenon
<1>5. PICK x : x = Layout(f) /\ EightIn(x, a, b, f.debug_data)
  BY <1>1, <1>2, <1>3, <1>4, EightOctets, Zenon
<1>6. ~(f.hdr.length < 8)
  <2>1. PICK n \in Nat : n = Len(f.debug_data)
    BY <1>2
  <2>2. ~(8 + n < 8)
    OBVIOUS
  <2> QED
    BY <1>1, <1>5, <2>1, <2>2, Zenon DEF EightIn
<1> QED
  BY <1>1, <1>2, <1>3, <1>4, <1>5, <1>6, Zenon DEF Parses, parse_http2_frame_goaway, EightIn

LEMMA GoAwayAccounts ==
  ASSUME NEW h, h.type = GoAway, NEW c \in Seq(Byte), Len(c) = h.length
  PROVE  Accounts(h, c)
<1> DEFINE g == [hdr |-> h, reserved |-> TopBit(c), last_stream_id |-> GetMasked(SubSeq(c, 1, 4)),
                 error_code |-> get_uint32_from_be_stream(SubSeq(c, 5, 8)), debug_data |-> From(c, 9)]
<1>1. /\ g.hdr = h /\ g.reserved = TopBit(c) /\ g.last_stream_id = GetMasked(SubSeq(c, 1, 4))
      /\ g.error_code = get_uint32_from_be_stream(SubSeq(c, 5, 8)) /\ g.debug_data = From(c, 9)
  OBVIOUS
<1> HIDE DEF g
<1>2. /\ Layout(g) = (PutWithTop(g.reserved, g.last_stream_id) \o put_uint32_in_be_stream(g.error_code))
                       \o g.debug_data
      /\ \A d : ParsePayload(h, d) = parse_http2_frame_goaway(h, d)
  BY <1>1, GoAwayCase, Zenon
<1>3. CASE h.length < 8
  BY <1>2, <1>3, AccountsError, Zenon DEF parse_http2_frame_goaway
<1>4. CASE ~(h.length < 8)
  <2>1. ParsePayload(h, c) = NoError(g)
    BY <1>2, <1>4, Zenon DEF parse_http2_frame_goaway, g
  <2>2. PICK a \in Seq(Byte), b \in Seq(Byte), d \in Seq(Byte) : Len(a) = 4 /\ Len(b) = 4 /\ c = (a \o b) \o d
    <3>1. PICK m \in Nat : m = Len(c) /\ ~(m < 8)
      BY <1>4
    <3>2. 4 \in Nat /\ 4 <= Len(c)
      BY <3>1
    <3>3. PICK a \in Seq(Byte), e \in Seq(Byte) : c = a \o e /\ Len(a) = 4
      BY <3>2, Cut, Zenon
    <3>4. 4 <= Len(e)
      <4>1. Len(a \o e) = Len(a) + Len(e)
        BY ConcatByPlace, Zenon
      <4>2. m = 4 + Len(e)
        BY <3>1, <3>3, <4>1, Zenon
      <4> QED
        BY <3>1, <4>2
    <3>5. PICK b \in Seq(Byte), d \in Seq(Byte) : e = b \o d /\ Len(b) = 4
      BY <3>2, <3>4, Cut, Zenon
    <3>6. (a \o b) \o d = a \o (b \o d)
      BY Regroup, ZenonT(60) DEF Regrouped
    <3> QED
      BY <3>3, <3>5, <3>6, Zenon
  <2>3. EightIn(c, a, b, d)
    BY <2>2, EightOctets, Zenon
  <2>4. PutWithTop(TopBit(a), GetMasked(a)) = a /\ put_uint32_in_be_stream(get_uint32_from_be_stream(b)) = b
    BY <2>2, PutBack, Zenon
  <2>5. Layout(g) = c
    BY <1>1, <1>2, <2>2, <2>3, <2>4, Zenon DEF EightIn
  <2> QED
    BY <2>1, <2>5, AccountsSame, Zenon
<1> QED
  BY <1>3, <1>4

\* The types that may be padded.
PaddedType(type) == type \in {Data, Headers, PushPromise}
PaddedAs(f) ==
  (MayBePadded(f.hdr) <=> Has(f.hdr.flags, Padded)) /\ Layout(f) = Framed(f.hdr, f.pad_len, Body(f))

LEMMA PaddedCase ==
  ASSUME NEW f, PaddedType(f.hdr.type)
  PROVE  PaddedAs(f)
<1>1. MayBePadded(f.hdr) <=> Has(f.hdr.flags, Padded)
  BY Zenon DEF MayBePadded, PaddedType
<1> QED
  BY <1>1, Zenon DEF Layout, Framed, Zeros, PaddedAs

LEMMA PaddedUnpad ==
  ASSUME NEW f, PaddedType(f.hdr.type), f.pad_len \in IF MayBePadded(f.hdr) THEN Byte ELSE {0},
         Body(f) \in Seq(Byte), f.hdr.length = Len(Layout(f))
  PROVE  Layout(f) \in Seq(Byte) /\ UnpadIs(Unpad(f.hdr, Layout(f)), f.pad_len, Body(f))
<1>1. (MayBePadded(f.hdr) <=> Has(f.hdr.flags, Padded)) /\ Layout(f) = Framed(f.hdr, f.pad_len, Body(f))
  BY PaddedCase, Zenon DEF PaddedAs
<1>2. 0 \in Byte
  BY DEF Byte
<1>3. f.pad_len \in Byte /\ (~Has(f.hdr.flags, Padded) => f.pad_len = 0)
  BY <1>1, <1>2, Zenon
<1> QED
  BY <1>1, <1>3, UnpadFramed, Zenon

\* DATA.
LEMMA DataCase ==
  ASSUME NEW f, f.hdr.type = Data
  PROVE  /\ Fields(f) => f \in [hdr : Header, pad_len : IF MayBePadded(f.hdr) THEN Byte ELSE {0}, data : Seq(Byte)]
         /\ Body(f) = f.data /\ ~ShortHeaders(f) /\ PaddedType(f.hdr.type)
         /\ \A c : ParsePayload(f.hdr, c) = parse_http2_frame_data(f.hdr, c)
BY SMT DEF Fields, Body, ParsePayload, ShortHeaders, PaddedType, Data, Headers, Priority, RstStream, Settings, PushPromise,
           Ping, GoAway, WindowUpdate, Continuation

LEMMA DataParses ==
  ASSUME NEW f, WellFormed(f), f.hdr.type = Data
  PROVE  Parses(f)
<1>1. /\ f \in [hdr : Header, pad_len : IF MayBePadded(f.hdr) THEN Byte ELSE {0}, data : Seq(Byte)]
      /\ f.hdr.length = Len(Layout(f)) /\ PaddedType(f.hdr.type)
      /\ Body(f) = f.data /\ ~ShortHeaders(f)
      /\ \A c : ParsePayload(f.hdr, c) = parse_http2_frame_data(f.hdr, c)
  BY DataCase, Zenon DEF WellFormed
<1>2. /\ f.pad_len \in (IF MayBePadded(f.hdr) THEN Byte ELSE {0}) /\ f.data \in Seq(Byte)
      /\ f = [hdr |-> f.hdr, pad_len |-> f.pad_len, data |-> f.data]
  BY <1>1, SMT
<1>3. Layout(f) \in Seq(Byte) /\ UnpadIs(Unpad(f.hdr, Layout(f)), f.pad_len, f.data)
  BY <1>1, <1>2, PaddedUnpad, Zenon
<1> QED
  BY <1>1, <1>2, <1>3, Zenon DEF Parses, parse_http2_frame_data, UnpadIs

LEMMA DataAccounts ==
  ASSUME NEW h, h.type = Data, NEW c \in Seq(Byte), Len(c) = h.length
  PROVE  Accounts(h, c)
<1>1. PICK u : u = Unpad(h, c)
  BY Zenon
<1> DEFINE g == [hdr |-> h, pad_len |-> u.pad_len, data |-> u.payload]
<1>2. g.hdr = h /\ g.pad_len = u.pad_len /\ g.data = u.payload
  OBVIOUS
<1> HIDE DEF g
<1>3. /\ Body(g) = g.data /\ PaddedType(h.type)
      /\ \A d : ParsePayload(h, d) = parse_http2_frame_data(h, d)
  BY <1>2, DataCase, Zenon
<1>4. MayBePadded(h) <=> Has(h.flags, Padded)
  BY <1>2, <1>3, PaddedCase, Zenon DEF PaddedAs
<1>5. CASE ~u.ok
  BY <1>1, <1>3, <1>5, AccountsError, Zenon DEF parse_http2_frame_data
<1>6. CASE u.ok
  <2>1. ParsePayload(h, c) = NoError(g)
    BY <1>1, <1>3, <1>6, Zenon DEF parse_http2_frame_data, g
  <2>2. Restores(h, g.pad_len, Body(g), c)
    BY <1>1, <1>2, <1>3, <1>6, UnpadRestores, Zenon
  <2> QED
    BY <1>2, <1>4, <2>1, <2>2, AccountsPadded, Zenon
<1> QED
  BY <1>5, <1>6

\* PUSH_PROMISE.
LEMMA PushPromiseCase ==
  ASSUME NEW f, f.hdr.type = PushPromise
  PROVE  /\ Fields(f) => f \in [hdr : Header, pad_len : IF MayBePadded(f.hdr) THEN Byte ELSE {0}, reserved : BOOLEAN,
                                promised_stream_id : Number, header_block_fragment : Seq(Byte)]
         /\ Body(f) = PutWithTop(f.reserved, f.promised_stream_id) \o f.header_block_fragment
         /\ ~ShortHeaders(f) /\ PaddedType(f.hdr.type)
         /\ \A c : ParsePayload(f.hdr, c) = parse_http2_frame_push_promise(f.hdr, c)
<1>1. Fields(f) => f \in [hdr : Header, pad_len : IF MayBePadded(f.hdr) THEN Byte ELSE {0}, reserved : BOOLEAN,
                          promised_stream_id : Number, header_block_fragment : Seq(Byte)]
  BY SMT DEF Fields, Data, Headers, Priority, RstStream, Settings, PushPromise, Ping, GoAway, WindowUpdate,
             Continuation
<1>2. Body(f) = PutWithTop(f.reserved, f.promised_stream_id) \o f.header_block_fragment
  <2>1. Body(f) = PushPromiseLayout(f)
    BY SMT DEF Body, Data, Headers, Priority, RstStream, Settings, PushPromise, Ping, GoAway, WindowUpdate, Continuation
  <2> QED
    BY <2>1, Zenon DEF PushPromiseLayout
<1>3. ~ShortHeaders(f) /\ PaddedType(f.hdr.type)
  BY SMT DEF ShortHeaders, PaddedType, Headers, PushPromise
<1>4. \A c : ParsePayload(f.hdr, c) = parse_http2_frame_push_promise(f.hdr, c)
  BY SMT DEF ParsePayload, Data, Headers, Priority, RstStream, Settings, PushPromise, Ping, GoAway, WindowUpdate,
             Continuation
<1> QED
  BY <1>1, <1>2, <1>3, <1>4, Zenon

LEMMA PushPromiseParses ==
  ASSUME NEW f, WellFormed(f), f.hdr.type = PushPromise
  PROVE  Parses(f)
<1>1. /\ f \in [hdr : Header, pad_len : IF MayBePadded(f.hdr) THEN Byte ELSE {0}, reserved : BOOLEAN,
                promised_stream_id : Number, header_block_fragment : Seq(Byte)]
      /\ f.hdr.length = Len(Layout(f)) /\ PaddedType(f.hdr.type) /\ ~ShortHeaders(f)
      /\ Body(f) = PutWithTop(f.reserved, f.promised_stream_id) \o f.header_block_fragment
      /\ \A c : ParsePayload(f.hdr, c) = parse_http2_frame_push_promise(f.hdr, c)
  BY PushPromiseCase, Zenon DEF WellFormed
<1>2. /\ f.pad_len \in (IF MayBePadded(f.hdr) THEN Byte ELSE {0}) /\ f.reserved \in BOOLEAN
      /\ f.promised_stream_id \in Number /\ f.header_block_fragment \in Seq(Byte)
      /\ f = [hdr |-> f.hdr, promised_stream_id |-> f.promised_stream_id, reserved |-> f.reserved,
              pad_len |-> f.pad_len, header_block_fragment |-> f.header_block_fragment]
  BY <1>1, SMT
<1>3. PICK a \in Seq(Byte) : /\ a = PutWithTop(f.reserved, f.promised_stream_id) /\ Len(a) = 4
                             /\ TopBit(a) = f.reserved /\ GetMasked(a) = f.promised_stream_id
  BY <1>2, PutTop, Zenon
<1>4. PICK d \in Seq(Byte) : d = f.header_block_fragment
  BY <1>2, Zenon
<1>5. 4 \in Nat \ {0} /\ 4 + 1 = 5 /\ ~(4 + Len(d) < 4)
  OBVIOUS
<1>6. Fronted(a, d, 4)
  BY <1>3, <1>5, FrontIs, Zenon
<1>7. PICK x \in Seq(Byte) : /\ x = Body(f) /\ ~(Len(x) < 4) /\ SubSeq(x, 1, 4) = a /\ From(x, 5) = d
                             /\ TopBit(x) = TopBit(a)
  BY <1>1, <1>3, <1>4, <1>5, <1>6, Zenon DEF Fronted
<1>8. Layout(f) \in Seq(Byte) /\ UnpadIs(Unpad(f.hdr, Layout(f)), f.pad_len, x)
  BY <1>1, <1>2, <1>7, PaddedUnpad, Zenon
<1>9. PICK u : u = Unpad(f.hdr, Layout(f)) /\ u.ok /\ u.pad_len = f.pad_len /\ u.payload = x
  BY <1>8, Zenon DEF UnpadIs
<1>10. ~(~u.ok \/ Len(u.payload) < 4)
  BY <1>7, <1>9, Zenon
<1>11. parse_http2_frame_push_promise(f.hdr, Layout(f)) =
         NoError([hdr |-> f.hdr, promised_stream_id |-> GetMasked(SubSeq(u.payload, 1, 4)),
                  reserved |-> TopBit(u.payload), pad_len |-> u.pad_len,
                  header_block_fragment |-> From(u.payload, 5)])
  BY <1>9, <1>10, Zenon DEF parse_http2_frame_push_promise
<1>12. /\ GetMasked(SubSeq(u.payload, 1, 4)) = f.promised_stream_id /\ TopBit(u.payload) = f.reserved
       /\ From(u.payload, 5) = f.header_block_fragment
  BY <1>3, <1>4, <1>7, <1>9, Zenon
<1>13. parse_http2_frame_push_promise(f.hdr, Layout(f)) = NoError(f)
  BY <1>2, <1>9, <1>11, <1>12, Zenon
<1> QED
  BY <1>1, <1>8, <1>13, Zenon DEF Parses

LEMMA PushPromiseAccounts ==
  ASSUME NEW h, h.type = PushPromise, NEW c \in Seq(Byte), Len(c) = h.length
  PROVE  Accounts(h, c)
<1>1. PICK u : u = Unpad(h, c)
  BY Zenon
<1> DEFINE g == [hdr |-> h, promised_stream_id |-> GetMasked(SubSeq(u.payload, 1, 4)),
                 reserved |-> TopBit(u.payload), pad_len |-> u.pad_len,
                 header_block_fragment |-> From(u.payload, 5)]
<1>2. /\ g.hdr = h /\ g.pad_len = u.pad_len /\ g.promised_stream_id = GetMasked(SubSeq(u.payload, 1, 4))
      /\ g.reserved = TopBit(u.payload) /\ g.header_block_fragment = From(u.payload, 5)
  OBVIOUS
<1> HIDE DEF g
<1>3. /\ Body(g) = PutWithTop(g.reserved, g.promised_stream_id) \o g.header_block_fragment
      /\ PaddedType(h.type) /\ \A d : ParsePayload(h, d) = parse_http2_frame_push_promise(h, d)
  BY <1>2, PushPromiseCase, Zenon
<1>4. MayBePadded(h) <=> Has(h.flags, Padded)
  BY <1>2, <1>3, PaddedCase, Zenon DEF PaddedAs
<1>5. CASE ~u.ok \/ Len(u.payload) < 4
  BY <1>1, <1>3, <1>5, AccountsError, Zenon DEF parse_http2_frame_push_promise
<1>6. CASE u.ok /\ ~(Len(u.payload) < 4)
  <2>1. ParsePayload(h, c) = NoError(g)
    BY <1>1, <1>3, <1>6, Zenon DEF parse_http2_frame_push_promise, g
  <2>2. u.payload \in Seq(Byte) /\ Restores(h, u.pad_len, u.payload, c)
    BY <1>1, <1>6, UnpadRestores, Zenon
  <2>3. PICK x \in Seq(Byte) : x = u.payload /\ ~(Len(x) < 4)
    BY <1>6, <2>2, Zenon
  <2>4. 4 \in Nat /\ 4 <= Len(x) /\ 4 \in Nat \ {0} /\ 4 + 1 = 5
    BY <2>3
  <2>5. PICK a \in Seq(Byte), d \in Seq(Byte) : x = a \o d /\ Len(a) = 4
    BY <2>4, Cut, Zenon
  <2>6. Fronted(a, d, 4)
    BY <2>4, <2>5, FrontIs, Zenon
  <2>7. PutWithTop(TopBit(a), GetMasked(a)) = a
    BY <2>5, PutBack, Zenon
  <2>8. Body(g) = x
    BY <1>2, <1>3, <2>3, <2>4, <2>5, <2>6, <2>7, Zenon DEF Fronted
  <2>9. Restores(h, g.pad_len, Body(g), c)
    BY <1>2, <2>2, <2>3, <2>8, Zenon
  <2> QED
    BY <1>2, <1>4, <2>1, <2>9, AccountsPadded, Zenon
<1> QED
  BY <1>5, <1>6, Zenon

\* HEADERS.
LEMMA HeadersCase ==
  ASSUME NEW f, f.hdr.type = Headers
  PROVE  /\ Fields(f) => f \in [hdr : Header, pad_len : IF MayBePadded(f.hdr) THEN Byte ELSE {0},
                                pspec : IF Has(f.hdr.flags, PriorityFlag) THEN PrioritySpec ELSE {NoPriority},
                                header_block_fragment : Seq(Byte)]
         /\ Body(f) = (IF Has(f.hdr.flags, PriorityFlag) THEN PriorityLayout(f.pspec) ELSE <<>>)
                        \o f.header_block_fragment
         /\ PaddedType(f.hdr.type)
         /\ \A c : ParsePayload(f.hdr, c) = parse_http2_frame_headers(f.hdr, c)
<1>1. Fields(f) => f \in [hdr : Header, pad_len : IF MayBePadded(f.hdr) THEN Byte ELSE {0},
                          pspec : IF Has(f.hdr.flags, PriorityFlag) THEN PrioritySpec ELSE {NoPriority},
                          header_block_fragment : Seq(Byte)]
  BY SMT DEF Fields, Data, Headers, Priority, RstStream, Settings, PushPromise, Ping, GoAway, WindowUpdate,
             Continuation
<1>2. Body(f) = (IF Has(f.hdr.flags, PriorityFlag) THEN PriorityLayout(f.pspec) ELSE <<>>)
                  \o f.header_block_fragment
  <2>1. Body(f) = HeadersLayout(f)
    BY SMT DEF Body, Data, Headers, Priority, RstStream, Settings, PushPromise, Ping, GoAway, WindowUpdate, Continuation
  <2> QED
    BY <2>1, Zenon DEF HeadersLayout
<1>3. PaddedType(f.hdr.type)
  BY SMT DEF PaddedType
<1>4. \A c : ParsePayload(f.hdr, c) = parse_http2_frame_headers(f.hdr, c)
  BY SMT DEF ParsePayload, Data, Headers, Priority, RstStream, Settings, PushPromise, Ping, GoAway, WindowUpdate,
             Continuation
<1> QED
  BY <1>1, <1>2, <1>3, <1>4, Zenon

LEMMA HeadersParses ==
  ASSUME NEW f, WellFormed(f), f.hdr.type = Headers
  PROVE  Parses(f)
<1>1. /\ f \in [hdr : Header, pad_len : IF MayBePadded(f.hdr) THEN Byte ELSE {0},
                pspec : IF Has(f.hdr.flags, PriorityFlag) THEN PrioritySpec ELSE {NoPriority},
                header_block_fragment : Seq(Byte)]
      /\ f.hdr.length = Len(Layout(f)) /\ PaddedType(f.hdr.type)
      /\ Body(f) = (IF Has(f.hdr.flags, PriorityFlag) THEN PriorityLayout(f.pspec) ELSE <<>>)
                     \o f.header_block_fragment
      /\ \A c : ParsePayload(f.hdr, c) = parse_http2_frame_headers(f.hdr, c)
  BY HeadersCase, Zenon DEF WellFormed
<1>2. /\ f.pad_len \in (IF MayBePadded(f.hdr) THEN Byte ELSE {0})
      /\ f.pspec \in (IF Has(f.hdr.flags, PriorityFlag) THEN PrioritySpec ELSE {NoPriority})
      /\ f.header_block_fragment \in Seq(Byte)
      /\ f = [hdr |-> f.hdr, pad_len |-> f.pad_len, pspec |-> f.pspec,
              header_block_fragment |-> f.header_block_fragment]
  BY <1>1, SMT
<1>3. PICK d \in Seq(Byte) : d = f.header_block_fragment
  BY <1>2, Zenon
<1>4. CASE Has(f.hdr.flags, PriorityFlag)
  <2>1. f.pspec \in PrioritySpec
    BY <1>2, <1>4, Zenon
  <2>2. PICK x \in Seq(Byte) : x = Body(f) /\ Len(x) = 5 + Len(d) /\ ParsePriority(x) = f.pspec /\ From(x, 6) = d
    <3>1. /\ PriorityLayout(f.pspec) \o d \in Seq(Byte) /\ Len(PriorityLayout(f.pspec) \o d) = 5 + Len(d)
          /\ ParsePriority(PriorityLayout(f.pspec) \o d) = f.pspec /\ From(PriorityLayout(f.pspec) \o d, 6) = d
      BY <2>1, PriorityBack, Zenon
    <3> QED
      BY <1>1, <1>3, <1>4, <3>1, Zenon
  <2>3. ~(5 + Len(d) < 5)
    OBVIOUS
  <2>4. Layout(f) \in Seq(Byte) /\ UnpadIs(Unpad(f.hdr, Layout(f)), f.pad_len, x)
    BY <1>1, <1>2, <2>2, PaddedUnpad, Zenon
  <2>5. ~ShortHeaders(f)
    BY <1>4, Zenon DEF ShortHeaders
  <2> QED
    BY <1>1, <1>2, <1>3, <1>4, <2>2, <2>3, <2>4, <2>5, Zenon DEF Parses, parse_http2_frame_headers, UnpadIs
<1>5. CASE ~Has(f.hdr.flags, PriorityFlag)
  <2>1. f.pspec = NoPriority
    BY <1>2, <1>5, Zenon
  <2>2. <<>> \o d = d
    OBVIOUS
  <2>3. Body(f) = d
    BY <1>1, <1>3, <1>5, <2>2, Zenon
  <2>4. Layout(f) \in Seq(Byte) /\ UnpadIs(Unpad(f.hdr, Layout(f)), f.pad_len, d)
    BY <1>1, <1>2, <2>3, PaddedUnpad, Zenon
  <2>5. ShortHeaders(f) <=> Len(d) < 5
    BY <1>3, <1>5, Zenon DEF ShortHeaders
  <2>6. CASE Len(d) < 5
    BY <1>1, <2>4, <2>5, <2>6, Zenon DEF Parses, parse_http2_frame_headers, UnpadIs
  <2>7. CASE ~(Len(d) < 5)
    BY <1>1, <1>2, <1>3, <1>5, <2>1, <2>4, <2>5, <2>7, Zenon DEF Parses, parse_http2_frame_headers, UnpadIs
  <2> QED
    BY <2>6, <2>7
<1> QED
  BY <1>4, <1>5

LEMMA HeadersAccounts ==
  ASSUME NEW h, h.type = Headers, NEW c \in Seq(Byte), Len(c) = h.length
  PROVE  Accounts(h, c)
<1>1. PICK u, pri : u = Unpad(h, c) /\ pri = Has(h.flags, PriorityFlag)
  BY Zenon
<1> DEFINE g == [hdr |-> h, pad_len |-> u.pad_len,
                 pspec |-> IF pri THEN ParsePriority(u.payload) ELSE NoPriority,
                 header_block_fragment |-> IF pri THEN From(u.payload, 6) ELSE u.payload]
<1>2. /\ g.hdr = h /\ g.pad_len = u.pad_len
      /\ g.pspec = (IF pri THEN ParsePriority(u.payload) ELSE NoPriority)
      /\ g.header_block_fragment = IF pri THEN From(u.payload, 6) ELSE u.payload
  OBVIOUS
<1> HIDE DEF g
<1>3. /\ Body(g) = (IF Has(h.flags, PriorityFlag) THEN PriorityLayout(g.pspec) ELSE <<>>) \o g.header_block_fragment
      /\ PaddedType(h.type) /\ \A d : ParsePayload(h, d) = parse_http2_frame_headers(h, d)
  BY <1>2, HeadersCase, Zenon
<1>4. MayBePadded(h) <=> Has(h.flags, Padded)
  BY <1>2, <1>3, PaddedCase, Zenon DEF PaddedAs
<1>5. CASE ~u.ok \/ Len(u.payload) < 5
  BY <1>1, <1>3, <1>5, AccountsError, Zenon DEF parse_http2_frame_headers
<1>6. CASE u.ok /\ ~(Len(u.payload) < 5)
  <2>1. ParsePayload(h, c) = NoError(g)
    BY <1>1, <1>3, <1>6, Zenon DEF parse_http2_frame_headers, g
  <2>2. u.payload \in Seq(Byte) /\ Restores(h, u.pad_len, u.payload, c)
    BY <1>1, <1>6, UnpadRestores, Zenon
  <2>3. PICK x \in Seq(Byte) : x = u.payload /\ ~(Len(x) < 5)
    BY <1>6, <2>2, Zenon
  <2>4. Body(g) = x
    <3>1. CASE pri
      <4>1. 5 <= Len(x)
        BY <2>3
      <4>2. PriorityLayout(ParsePriority(x)) \o From(x, 6) = x
        BY <4>1, PriorityPut, Zenon
      <4> QED
        BY <1>1, <1>2, <1>3, <2>3, <3>1, <4>2, Zenon
    <3>2. CASE ~pri
      <4>1. <<>> \o x = x
        OBVIOUS
      <4> QED
        BY <1>1, <1>2, <1>3, <2>3, <3>2, <4>1, Zenon
    <3> QED
      BY <3>1, <3>2
  <2>5. Restores(h, g.pad_len, Body(g), c)
    BY <1>2, <2>2, <2>3, <2>4, Zenon
  <2> QED
    BY <1>2, <1>4, <2>1, <2>5, AccountsPadded, Zenon
<1> QED
  BY <1>5, <1>6, Zenon

\* Octets in two parts.
Parted(a, e) == SubSeq(a \o e, 1, Len(a)) = a /\ From(a \o e, Len(a) + 1) = e

LEMMA PartedIs ==
  ASSUME NEW a \in Seq(Byte), NEW e \in Seq(Byte)
  PROVE  Parted(a, e)
<1>1. PICK n \in Nat : n = Len(a)
  OBVIOUS
<1>2. n <= Len(a) /\ 1 \in Nat \ {0} /\ n + 1 \in Int /\ Len(a) < n + 1 /\ Len(a) \in Int
  BY <1>1
<1>3. SubSeq(a \o e, 1, n) = SubSeq(a, 1, n)
  BY <1>2, InFront, Zenon
<1>4. SubSeq(a, 1, Len(a)) = a
  BY SubSeqFull
<1>5. From(a \o e, n + 1) = From(a, n + 1) \o e
  BY <1>2, RestOfJoined, Zenon
<1>6. SubSeq(a, n + 1, Len(a)) = <<>>
  BY <1>2, SubSeqEmpty
<1>7. <<>> \o e = e
  OBVIOUS
<1> QED
  BY <1>1, <1>3, <1>4, <1>5, <1>6, <1>7, Zenon DEF Parted, From

\* An entry of SETTINGS: two octets and four.
SixIn(p, x, y) ==
  /\ get_uint16_from_be_stream(p) = get_uint16_from_be_stream(x) /\ SubSeq(p, 3, 6) = y

LEMMA SixOctets ==
  ASSUME NEW x \in Seq(Byte), Len(x) = 2, NEW y \in Seq(Byte), Len(y) = 4, NEW d \in Seq(Byte)
  PROVE  SixIn((x \o y) \o d, x, y)
<1>1. (x \o y) \o d = x \o (y \o d)
  BY Regroup, Zenon DEF Regrouped
<1>2. PICK e \in Seq(Byte) : e = y \o d /\ Len(e) = 4 + Len(d) /\ SubSeq(e, 1, 4) = y
  <2>1. 4 \in Nat \ {0}
    OBVIOUS
  <2>2. Fronted(y, d, 4)
    BY <2>1, FrontIs, Zenon
  <2> QED
    BY <2>2, Zenon DEF Fronted
<1>3. PICK p : p = x \o e
  BY Zenon
<1>4. p[1] = x[1] /\ p[2] = x[2]
  <2>1. 1 \in 1..Len(x) /\ 2 \in 1..Len(x)
    OBVIOUS
  <2>2. \A i \in 1..Len(x) : (x \o e)[i] = x[i]
    BY ConcatByPlace, ZenonT(60)
  <2> QED
    BY <1>3, <2>1, <2>2, Zenon
<1>5. SubSeq(p, 3, 6) = y
  <2>1. PICK k \in Nat, l \in Nat \ {0} : k = 4 /\ l = 1 /\ k <= Len(e)
    BY <1>2
  <2>2. Middle(x, e, l, k)
    BY <2>1, MiddleIs
  <2>3. Len(x) + 1 = 3 /\ Len(x) + 4 = 6
    OBVIOUS
  <2> QED
    BY <1>2, <1>3, <2>1, <2>2, <2>3, Zenon DEF Middle
<1> QED
  BY <1>1, <1>2, <1>3, <1>4, <1>5, Zenon DEF SixIn, get_uint16_from_be_stream

\* Entry i, with a in front of it.
EntryIn(c, i, a, x, y) ==
  /\ SubSeq(c, 1, 6 * (i - 1)) = a /\ SubSeq(c, 1, 6 * i) = a \o (x \o y)
  /\ SixIn(From(c, 6 * i - 5), x, y)

LEMMA EntryAt ==
  ASSUME NEW i \in Nat \ {0}, NEW a \in Seq(Byte), Len(a) = 6 * (i - 1),
         NEW x \in Seq(Byte), Len(x) = 2, NEW y \in Seq(Byte), Len(y) = 4, NEW d \in Seq(Byte)
  PROVE  EntryIn((a \o (x \o y)) \o d, i, a, x, y)
<1>1. PICK e \in Seq(Byte) : e = x \o y /\ Len(e) = 6
  <2>1. x \o y \in Seq(Byte) /\ Len(x \o y) = Len(x) + Len(y)
    BY ConcatByPlace, Zenon
  <2>2. 2 + 4 = 6
    OBVIOUS
  <2> QED
    BY <2>1, <2>2, Zenon
<1>2. PICK g \in Seq(Byte) : g = e \o d
  BY ConcatByPlace, Zenon
<1>3. PICK b \in Seq(Byte) : b = a \o e /\ Len(b) = 6 * i
  <2>1. a \o e \in Seq(Byte) /\ Len(a \o e) = Len(a) + Len(e)
    BY ConcatByPlace, Zenon
  <2>2. 6 * (i - 1) + 6 = 6 * i
    OBVIOUS
  <2> QED
    BY <1>1, <2>1, <2>2, Zenon
<1>4. b \o d = a \o g
  <2>0. Regrouped(a, e, d)
    BY Regroup, Zenon
  <2>1. (a \o e) \o d = a \o (e \o d)
    BY <2>0, Zenon DEF Regrouped
  <2> QED
    BY <1>2, <1>3, <2>1, Zenon
<1>5. Parted(a, g) /\ Parted(b, d) /\ SixIn(g, x, y)
  BY <1>1, <1>2, PartedIs, SixOctets, Zenon
<1>6. 6 * (i - 1) + 1 = 6 * i - 5
  OBVIOUS
<1>7. From(a \o g, 6 * i - 5) = g /\ SubSeq(a \o g, 1, 6 * (i - 1)) = a
  BY <1>5, <1>6, Zenon DEF Parted
<1>8. SubSeq(b \o d, 1, 6 * i) = b
  BY <1>3, <1>5, Zenon DEF Parted
<1> QED
  BY <1>1, <1>3, <1>4, <1>5, <1>7, <1>8, Zenon DEF EntryIn

\* Entries one behind the other.
LEMMA SixTimes ==
  ASSUME NEW n \in Nat, NEW s, \A i \in 1..n : s[i] \in Seq(Byte) /\ Len(s[i]) = 6,
         NEW f, Builds(f, Byte, s, n)
  PROVE  \A k \in 0..n : f[k] \in Seq(Byte) /\ Len(f[k]) = 6 * k
<1>1. f \in [0..n -> Seq(Byte)] /\ f[0] = <<>> /\ \A i \in 1..n : f[i] = f[i - 1] \o s[i]
  BY Zenon DEF Builds
<1> DEFINE P(k) == f[k] \in Seq(Byte) /\ Len(f[k]) = 6 * k
           T == {k \in Nat : k <= n => P(k)}
<1>2. 0 \in T
  <2>1. <<>> \in Seq(Byte) /\ Len(<<>>) = 6 * 0
    OBVIOUS
  <2>2. P(0)
    BY <1>1, <2>1, Zenon
  <2> HIDE DEF P
  <2> QED
    BY <2>2
<1>3. ASSUME NEW k \in Nat, k \in T PROVE k + 1 \in T
  <2> HIDE DEF P
  <2> SUFFICES ASSUME k + 1 <= n PROVE P(k + 1)
    OBVIOUS
  <2>1. k + 1 \in 1..n /\ (k + 1) - 1 = k /\ 6 * k + 6 = 6 * (k + 1) /\ P(k)
    BY <1>3
  <2>2. PICK a \in Seq(Byte), b \in Seq(Byte) : a = f[k] /\ b = s[k + 1] /\ Len(a) = 6 * k /\ Len(b) = 6
    BY <2>1, Zenon DEF P
  <2>3. f[k + 1] = a \o b
    BY <1>1, <2>1, <2>2, Zenon
  <2>4. a \o b \in Seq(Byte) /\ Len(a \o b) = Len(a) + Len(b)
    BY ConcatByPlace, Zenon
  <2> QED
    BY <2>1, <2>2, <2>3, <2>4, Zenon DEF P
<1>4. Nat \subseteq T
  <2> HIDE DEF T
  <2> QED
    BY <1>2, <1>3, SetInduction
<1> HIDE DEF P
<1>5. \A k \in 0..n : P(k)
  BY <1>4
<1> QED
  BY <1>5, Zenon DEF P

\* SETTINGS.
LEMMA SettingsCase ==
  ASSUME NEW f, f.hdr.type = Settings
  PROVE  /\ Fields(f) => f \in [hdr : Header, settings : Seq(Setting)]
         /\ Layout(f) = SettingsLayout(f) /\ ~ShortHeaders(f)
         /\ \A c : ParsePayload(f.hdr, c) = parse_http2_frame_settings(f.hdr, c)
BY SMT DEF Fields, Layout, MayBePadded, Body, ParsePayload, ShortHeaders, Data, Headers, Priority, RstStream,
           Settings, PushPromise, Ping, GoAway, WindowUpdate, Continuation

\* What is parsed as entry i.
EntryOf(c, i) ==
  LET p == From(c, 6 * i - 5)
  IN  [id |-> get_uint16_from_be_stream(p), value |-> get_uint32_from_be_stream(SubSeq(p, 3, 6))]

LEMMA SettingsParse ==
  ASSUME NEW h, NEW c, NEW n \in Nat, h.length = 6 * n
  PROVE  parse_http2_frame_settings(h, c) = NoError([hdr |-> h, settings |-> [i \in 1..n |-> EntryOf(c, i)]])
<1>1. (6 * n) % 6 = 0 /\ (6 * n) \div 6 = n
  OBVIOUS
<1> QED
  BY <1>1, Zenon DEF parse_http2_frame_settings, EntryOf

\* An entry, as it is laid out.
SettingIs(o, v) ==
  \E x \in Seq(Byte), y \in Seq(Byte) :
    /\ o = x \o y /\ Len(x) = 2 /\ Len(y) = 4 /\ x \o y \in Seq(Byte) /\ Len(x \o y) = 6
    /\ v = [id |-> get_uint16_from_be_stream(x), value |-> get_uint32_from_be_stream(y)]

LEMMA SettingOctets ==
  ASSUME NEW v \in Setting
  PROVE  SettingIs(SettingLayout(v), v)
<1>1. v.id \in Word /\ v.value \in Number /\ v = [id |-> v.id, value |-> v.value]
  BY SMT DEF Setting, Word
<1>2. PICK x \in Seq(Byte) : /\ x = put_uint16_in_be_stream(v.id) /\ Len(x) = 2
                             /\ get_uint16_from_be_stream(x) = v.id
  BY <1>1, Put16, Zenon
<1>3. PICK y \in Seq(Byte) : /\ y = put_uint32_in_be_stream(v.value) /\ Len(y) = 4
                             /\ get_uint32_from_be_stream(y) = v.value
  BY <1>1, Put32, Zenon
<1>4. x \o y \in Seq(Byte) /\ Len(x \o y) = Len(x) + Len(y)
  BY ConcatByPlace, Zenon
<1>5. 2 + 4 = 6
  OBVIOUS
<1>6. SettingLayout(v) = x \o y
  BY <1>2, <1>3, Zenon DEF SettingLayout
<1> QED
  BY <1>1, <1>2, <1>3, <1>4, <1>5, <1>6, Zenon DEF SettingIs

LEMMA SettingsParses ==
  ASSUME NEW f, WellFormed(f), f.hdr.type = Settings
  PROVE  Parses(f)
<1>1. /\ f \in [hdr : Header, settings : Seq(Setting)] /\ f.hdr.length = Len(Layout(f))
      /\ Layout(f) = SettingsLayout(f) /\ ~ShortHeaders(f)
      /\ \A c : ParsePayload(f.hdr, c) = parse_http2_frame_settings(f.hdr, c)
  BY SettingsCase, Zenon DEF WellFormed
<1>2. PICK v \in Seq(Setting) : v = f.settings /\ f = [hdr |-> f.hdr, settings |-> v]
  BY <1>1, SMT
<1>3. PICK n \in Nat : n = Len(v) /\ DOMAIN v = 1..n /\ (\A i \in 1..n : v[i] \in Setting)
                       /\ v = [i \in 1..n |-> v[i]]
  OBVIOUS
<1>4. PICK s : s = [i \in 1..n |-> SettingLayout(v[i])]
  BY Zenon
<1>5. \A i \in 1..n : SettingIs(s[i], v[i])
  <2>1. \A i \in 1..n : s[i] = SettingLayout(v[i])
    BY <1>4, Zenon
  <2> QED
    BY <1>3, <2>1, SettingOctets, Zenon
<1>6. \A i \in 1..n : s[i] \in Seq(Byte) /\ Len(s[i]) = 6
  BY <1>5, Zenon DEF SettingIs
<1>7. s \in Seq(Seq(Byte)) /\ Len(s) = n
  <2>1. s = [i \in 1..n |-> s[i]]
    BY <1>4, Zenon
  <2> QED
    BY <1>6, <2>1
<1>8. Layout(f) = FlattenSeq(s)
  BY <1>1, <1>2, <1>3, <1>4, Zenon DEF SettingsLayout
<1>9. PICK b : Builds(b, Byte, s, n) /\ b[n] = Layout(f)
  BY <1>7, <1>8, FlatSteps, Zenon
<1>10. \A k \in 0..n : b[k] \in Seq(Byte) /\ Len(b[k]) = 6 * k
  BY <1>6, <1>9, SixTimes, Zenon
<1>11. n \in 0..n
  OBVIOUS
<1>12. Layout(f) \in Seq(Byte) /\ f.hdr.length = 6 * n
  BY <1>1, <1>9, <1>10, <1>11, Zenon
<1>13. ASSUME NEW i \in 1..n PROVE EntryOf(Layout(f), i) = v[i]
  <2>1. PICK x \in Seq(Byte), y \in Seq(Byte) :
           /\ s[i] = x \o y /\ Len(x) = 2 /\ Len(y) = 4
           /\ v[i] = [id |-> get_uint16_from_be_stream(x), value |-> get_uint32_from_be_stream(y)]
    BY <1>5, Zenon DEF SettingIs
  <2>2. PICK d \in Seq(Byte) : b[n] = (b[i - 1] \o s[i]) \o d
    <3>1. Within(b[n], Byte, b[i - 1], s[i])
      BY <1>6, <1>9, WholeAt, Zenon
    <3> QED
      BY <3>1, Zenon DEF Within
  <2>3. i - 1 \in 0..n /\ i \in Nat \ {0}
    OBVIOUS
  <2>4. PICK a \in Seq(Byte) : a = b[i - 1] /\ Len(a) = 6 * (i - 1)
    BY <1>10, <2>3, Zenon
  <2>5. EntryIn((a \o (x \o y)) \o d, i, a, x, y)
    BY <2>1, <2>3, <2>4, EntryAt, Zenon
  <2>6. SixIn(From(Layout(f), 6 * i - 5), x, y)
    BY <1>9, <2>1, <2>2, <2>4, <2>5, Zenon DEF EntryIn
  <2> QED
    BY <2>1, <2>6, Zenon DEF SixIn, EntryOf
<1>14. [i \in 1..n |-> EntryOf(Layout(f), i)] = v
  <2>1. [i \in 1..n |-> EntryOf(Layout(f), i)] = [i \in 1..n |-> v[i]]
    BY <1>13, Zenon
  <2> QED
    BY <1>3, <2>1, Zenon
<1>15. parse_http2_frame_settings(f.hdr, Layout(f)) =
         NoError([hdr |-> f.hdr, settings |-> [i \in 1..n |-> EntryOf(Layout(f), i)]])
  BY <1>12, SettingsParse, Zenon
<1> QED
  BY <1>1, <1>2, <1>12, <1>14, <1>15, Zenon DEF Parses

\* The octets that an entry was parsed from.
LEMMA SettingBack ==
  ASSUME NEW x \in Seq(Byte), Len(x) = 2, NEW y \in Seq(Byte), Len(y) = 4
  PROVE  SettingLayout([id |-> get_uint16_from_be_stream(x), value |-> get_uint32_from_be_stream(y)]) = x \o y
<1>1. put_uint32_in_be_stream(get_uint32_from_be_stream(y)) = y
  BY PutBack, Zenon
<1>2. PICK u \in Byte, w \in Byte : u = x[1] /\ w = x[2]
  OBVIOUS
<1>3. PICK q \in Seq(Byte) : /\ q = put_uint16_in_be_stream(256 * u + w) /\ Len(q) = 2 /\ q[1] = u /\ q[2] = w
  <2>1. /\ put_uint16_in_be_stream(256 * u + w) \in Seq(Byte) /\ Len(put_uint16_in_be_stream(256 * u + w)) = 2
        /\ put_uint16_in_be_stream(256 * u + w)[1] = u /\ put_uint16_in_be_stream(256 * u + w)[2] = w
    BY PutPair
  <2> QED
    BY <2>1, Zenon
<1>4. q = x
  BY <1>2, <1>3
<1>5. put_uint16_in_be_stream(get_uint16_from_be_stream(x)) = x
  BY <1>2, <1>3, <1>4, Zenon DEF get_uint16_from_be_stream
<1>6. \A i, j : SettingLayout([id |-> i, value |-> j]) = put_uint16_in_be_stream(i) \o put_uint32_in_be_stream(j)
  <2>1. ASSUME NEW i, NEW j
        PROVE  SettingLayout([id |-> i, value |-> j]) = put_uint16_in_be_stream(i) \o put_uint32_in_be_stream(j)
    <3>1. PICK r : r = [id |-> i, value |-> j]
      BY Zenon
    <3>2. r.id = i /\ r.value = j
      BY <3>1
    <3> QED
      BY <3>1, <3>2, Zenon DEF SettingLayout
  <2> QED
    BY <2>1, Zenon
<1> QED
  BY <1>1, <1>5, <1>6, Zenon

\* One more entry of c, octet for octet.
NextEntry(c, i) == SubSeq(c, 1, 6 * i) = SubSeq(c, 1, 6 * (i - 1)) \o SettingLayout(EntryOf(c, i))

LEMMA NextEntryIs ==
  ASSUME NEW n \in Nat, NEW c \in Seq(Byte), Len(c) = 6 * n, NEW i \in 1..n
  PROVE  NextEntry(c, i) /\ SettingLayout(EntryOf(c, i)) \in Seq(Byte)
<1>1. PICK m \in Nat : m = 6 * (i - 1) /\ m <= Len(c) /\ 6 <= Len(c) - m
  OBVIOUS
<1>2. PICK a \in Seq(Byte), e \in Seq(Byte) : c = a \o e /\ Len(a) = m
  BY <1>1, Cut, Zenon
<1>3. 6 \in Nat /\ 6 <= Len(e)
  <2>1. Len(a \o e) = Len(a) + Len(e)
    BY ConcatByPlace, Zenon
  <2>2. PICK k \in Nat, l \in Nat : k = Len(e) /\ l = Len(c)
    OBVIOUS
  <2>3. l = m + k
    BY <1>2, <2>1, <2>2, Zenon
  <2>4. 6 <= l - m
    BY <1>1, <2>2, Zenon
  <2>5. 6 <= k
    BY <2>3, <2>4
  <2> QED
    BY <2>2, <2>5
<1>4. PICK g \in Seq(Byte), d \in Seq(Byte) : e = g \o d /\ Len(g) = 6
  BY <1>3, Cut, Zenon
<1>5. 2 \in Nat /\ 2 <= Len(g)
  BY <1>4
<1>6. PICK x \in Seq(Byte), y \in Seq(Byte) : g = x \o y /\ Len(x) = 2
  BY <1>5, Cut, Zenon
<1>7. Len(y) = 4
  <2>1. Len(x \o y) = Len(x) + Len(y)
    BY ConcatByPlace, Zenon
  <2>2. PICK k \in Nat : k = Len(y)
    BY LenProperties
  <2>3. 6 = 2 + k
    BY <1>4, <1>6, <2>1, <2>2, Zenon
  <2>4. k = 4
    BY <2>3
  <2> QED
    BY <2>2, <2>4, Zenon
<1>8. c = (a \o (x \o y)) \o d
  <2>1. Regrouped(a, g, d)
    BY Regroup, Zenon
  <2> QED
    BY <1>2, <1>4, <1>6, <2>1, Zenon DEF Regrouped
<1>9. i \in Nat \ {0}
  OBVIOUS
<1>10. EntryIn((a \o (x \o y)) \o d, i, a, x, y)
  BY <1>1, <1>2, <1>6, <1>7, <1>9, EntryAt, Zenon
<1>11. EntryOf(c, i) = [id |-> get_uint16_from_be_stream(x), value |-> get_uint32_from_be_stream(y)]
  BY <1>8, <1>10, Zenon DEF EntryIn, SixIn, EntryOf
<1>12. SettingLayout([id |-> get_uint16_from_be_stream(x), value |-> get_uint32_from_be_stream(y)]) = x \o y
  BY <1>6, <1>7, SettingBack, Zenon
<1> QED
  BY <1>6, <1>8, <1>10, <1>11, <1>12, Zenon DEF EntryIn, NextEntry

LEMMA SettingsAccounts ==
  ASSUME NEW h, h.type = Settings, h.length \in Nat, NEW c \in Seq(Byte), Len(c) = h.length
  PROVE  Accounts(h, c)
<1>1. \A d : ParsePayload(h, d) = parse_http2_frame_settings(h, d)
  <2>1. PICK f : f = [hdr |-> h]
    BY Zenon
  <2>2. f.hdr = h
    BY <2>1
  <2> QED
    BY <2>2, SettingsCase, Zenon
<1>2. CASE h.length % 6 # 0
  BY <1>1, <1>2, AccountsError, Zenon DEF parse_http2_frame_settings
<1>3. CASE h.length % 6 = 0
  <2>1. PICK n \in Nat : h.length = 6 * n
    <3>1. PICK l \in Nat : l = h.length /\ l % 6 = 0
      BY <1>3, Zenon
    <3>2. l \div 6 \in Nat /\ l = 6 * (l \div 6)
      BY <3>1
    <3> QED
      BY <3>1, <3>2, Zenon
  <2>2. PICK v : v = [i \in 1..n |-> EntryOf(c, i)]
    BY Zenon
  <2>3. PICK g : g = [hdr |-> h, settings |-> v]
    BY Zenon
  <2>4. g.hdr = h /\ g.settings = v
    BY <2>3
  <2>5. ParsePayload(h, c) = NoError(g)
    <3>1. parse_http2_frame_settings(h, c) = NoError([hdr |-> h, settings |-> [i \in 1..n |-> EntryOf(c, i)]])
      BY <2>1, SettingsParse
    <3> QED
      BY <1>1, <2>2, <2>3, <3>1, Zenon
  <2>6. PICK s : s = [i \in 1..n |-> SettingLayout(EntryOf(c, i))]
    BY Zenon
  <2>7. Layout(g) = FlattenSeq(s)
    <3>1. Layout(g) = SettingsLayout(g)
      BY <2>4, SettingsCase, Zenon
    <3>2. DOMAIN v = 1..n /\ [i \in 1..n |-> SettingLayout(v[i])] = s
      BY <2>2, <2>6, Zenon
    <3> QED
      BY <2>4, <3>1, <3>2, Zenon DEF SettingsLayout
  <2>8. \A i \in 1..n : NextEntry(c, i) /\ SettingLayout(EntryOf(c, i)) \in Seq(Byte)
    BY <2>1, NextEntryIs, Zenon
  <2>9. \A i \in 1..n : s[i] = SettingLayout(EntryOf(c, i)) /\ s[i] \in Seq(Byte)
    BY <2>6, <2>8, Zenon
  <2>10. s \in Seq(Seq(Byte)) /\ Len(s) = n
    <3>1. s = [i \in 1..n |-> s[i]]
      BY <2>6, Zenon
    <3>2. \A i \in 1..n : s[i] \in Seq(Byte)
      BY <2>9, Zenon
    <3> QED
      BY <3>1, <3>2
  <2> DEFINE b == [i \in 0..n |-> SubSeq(c, 1, 6 * i)]
  <2>11. b[0] = <<>>
    <3>1. b[0] = SubSeq(c, 1, 0)
      OBVIOUS
    <3>2. SubSeq(c, 1, 0) = <<>>
      BY SubSeqEmpty
    <3> QED
      BY <3>1, <3>2, Zenon
  <2>12. \A i \in 1..n : b[i] = b[i - 1] \o s[i]
    <3>1. ASSUME NEW i \in 1..n PROVE b[i] = b[i - 1] \o s[i]
      <4>1. i \in 0..n /\ i - 1 \in 0..n
        OBVIOUS
      <4>2. b[i] = SubSeq(c, 1, 6 * i) /\ b[i - 1] = SubSeq(c, 1, 6 * (i - 1))
        BY <4>1, Zenon
      <4> HIDE DEF b
      <4> QED
        BY <2>8, <2>9, <4>2, Zenon DEF NextEntry
    <3> QED
      BY <3>1, Zenon
  <2>13. b[n] = c
    <3>1. b[n] = SubSeq(c, 1, 6 * n)
      OBVIOUS
    <3>2. SubSeq(c, 1, Len(c)) = c
      BY SubSeqFull
    <3> HIDE DEF b
    <3> QED
      BY <2>1, <3>1, <3>2, Zenon
  <2> HIDE DEF b
  <2>14. FlattenSeq(s) = b[Len(s)]
    BY <2>10, <2>11, <2>12, FlatFrom, Zenon
  <2>15. Layout(g) = c
    BY <2>7, <2>10, <2>13, <2>14, Zenon
  <2> QED
    BY <2>5, <2>15, AccountsSame, Zenon
<1> QED
  BY <1>2, <1>3

-----------------------------------------------------------------------------
(***************************************************************************)
(* Every type of frame.                                                    *)
(***************************************************************************)

\* A frame that is well formed is parsed as it was laid out, but for the short
\* HEADERS.
LEMMA EveryFrameParses ==
  ASSUME NEW f, WellFormed(f)
  PROVE  Parses(f) /\ f.hdr \in Header /\ f.hdr.type <= Continuation
<1>1. f.hdr \in Header /\ f.hdr.type \in {Data, Headers, Priority, RstStream, Settings, PushPromise, Ping, GoAway,
                                          WindowUpdate, Continuation}
  <2>1. Fields(f)
    BY Zenon DEF WellFormed
  <2> QED
    BY <2>1, SMT DEF Fields
<1>2. f.hdr.type <= Continuation
  BY <1>1, SMT DEF Data, Headers, Priority, RstStream, Settings, PushPromise, Ping, GoAway, WindowUpdate, Continuation
<1> QED
  BY <1>1, <1>2, DataParses, HeadersParses, PriorityParses, RstStreamParses, SettingsParses, PushPromiseParses,
     PingParses, GoAwayParses, WindowUpdateParses, ContinuationParses, Zenon

LEMMA KnownTypes ==
  ASSUME NEW t \in Byte, t <= Continuation
  PROVE  t \in {Data, Headers, Priority, RstStream, Settings, PushPromise, Ping, GoAway, WindowUpdate, Continuation}
BY SMT DEF Byte, Data, Headers, Priority, RstStream, Settings, PushPromise, Ping, GoAway, WindowUpdate, Continuation

\* What is parsed of any payload without an error is all of it.
LEMMA EveryPayloadAccounts ==
  ASSUME NEW h \in Header, h.type <= Continuation, NEW c \in Seq(Byte), Len(c) = h.length
  PROVE  Accounts(h, c)
<1>1. h.type \in {Data, Headers, Priority, RstStream, Settings, PushPromise, Ping, GoAway, WindowUpdate, Continuation}
  <2>1. h.type \in Byte
    BY SMT DEF Header
  <2> QED
    BY <2>1, KnownTypes, Zenon
<1>2. h.length \in Nat
  BY LenProperties
<1> QED
  BY <1>1, <1>2, DataAccounts, HeadersAccounts, PriorityAccounts, RstStreamAccounts, SettingsAccounts,
     PushPromiseAccounts, PingAccounts, GoAwayAccounts, WindowUpdateAccounts, ContinuationAccounts, Zenon

-----------------------------------------------------------------------------
(***************************************************************************)
(* The frames of this library, but for DATA: as they are built and packed, *)
(* they are laid out as RFC 7540 has it.                                   *)
(***************************************************************************)

OwnOther(f) == Fields(f) /\ f = Rebuilt(f) /\ ~MayBePadded(f.hdr)
LaidOut(f) ==
  WellFormed(f) /\ send_http2_frame(f, RemoteMax) = http2_frame_header_pack(f.hdr) \o Layout(f)

LEMMA OwnRstStream ==
  ASSUME NEW f, OwnOther(f), f.hdr.type = RstStream
  PROVE  LaidOut(f)
<1>1. f \in [hdr : Header, error_code : Number] /\ Layout(f) = put_uint32_in_be_stream(f.error_code)
  BY RstStreamCase, Zenon DEF OwnOther
<1>2. /\ Rebuilt(f) = build_http2_frame_rst_stream(f.hdr.stream_id, f.hdr.flags, f.error_code)
      /\ send_http2_frame(f, RemoteMax) = pack_http2_frame_rst_stream(f)
  BY SMT DEF Rebuilt, send_http2_frame, Data, Headers, Priority, RstStream, Settings, PushPromise, Ping, GoAway,
             WindowUpdate, Continuation
<1>3. f.hdr.length = 4
  <2>1. f = build_http2_frame_rst_stream(f.hdr.stream_id, f.hdr.flags, f.error_code)
    BY <1>2, Zenon DEF OwnOther
  <2> QED
    BY <2>1, SMT DEF build_http2_frame_rst_stream, http2_frame_header_init
<1>4. f.error_code \in Number
  BY <1>1, SMT
<1>5. Len(put_uint32_in_be_stream(f.error_code)) = 4
  BY <1>4, Put32, Zenon
<1>6. send_http2_frame(f, RemoteMax) = http2_frame_header_pack(f.hdr) \o Layout(f)
  BY <1>1, <1>2, Zenon DEF pack_http2_frame_rst_stream
<1> QED
  BY <1>1, <1>3, <1>5, <1>6, Zenon DEF OwnOther, LaidOut, WellFormed

LEMMA OwnWindowUpdate ==
  ASSUME NEW f, OwnOther(f), f.hdr.type = WindowUpdate
  PROVE  LaidOut(f)
<1>1. /\ f \in [hdr : Header, reserved : BOOLEAN, window_size_inc : Number]
      /\ Layout(f) = PutWithTop(f.reserved, f.window_size_inc)
  BY WindowUpdateCase, Zenon DEF OwnOther
<1>2. /\ Rebuilt(f) = build_http2_frame_window_update(f.hdr.stream_id, f.window_size_inc)
      /\ send_http2_frame(f, RemoteMax) = pack_http2_frame_window_update(f)
  BY SMT DEF Rebuilt, send_http2_frame, Data, Headers, Priority, RstStream, Settings, PushPromise, Ping, GoAway,
             WindowUpdate, Continuation
<1>3. f.hdr.length = 4 /\ f.reserved = FALSE
  <2>1. f = build_http2_frame_window_update(f.hdr.stream_id, f.window_size_inc)
    BY <1>2, Zenon DEF OwnOther
  <2> QED
    BY <2>1, SMT DEF build_http2_frame_window_update, http2_frame_header_init
<1>4. f.window_size_inc \in Number
  BY <1>1, SMT
<1>5. /\ Len(put_uint32_in_be_stream(f.window_size_inc)) = 4
      /\ PutWithTop(FALSE, f.window_size_inc) = put_uint32_in_be_stream(f.window_size_inc)
  BY <1>4, Put32, Zenon
<1>6. send_http2_frame(f, RemoteMax) = http2_frame_header_pack(f.hdr) \o Layout(f)
  BY <1>1, <1>2, <1>3, <1>5, Zenon DEF pack_http2_frame_window_update
<1> QED
  BY <1>1, <1>3, <1>5, <1>6, Zenon DEF OwnOther, LaidOut, WellFormed

LEMMA OwnPing ==
  ASSUME NEW f, OwnOther(f), f.hdr.type = Ping
  PROVE  LaidOut(f)
<1>1. f \in [hdr : Header, opaque_data : Seq(Byte)] /\ Len(f.opaque_data) = 8 /\ Layout(f) = f.opaque_data
  BY PingCase, Zenon DEF OwnOther
<1>2. /\ Rebuilt(f) = build_http2_frame_ping(f.opaque_data, f.hdr.flags = Ack)
      /\ send_http2_frame(f, RemoteMax) = pack_http2_frame_ping(f)
  BY SMT DEF Rebuilt, send_http2_frame, Data, Headers, Priority, RstStream, Settings, PushPromise, Ping, GoAway,
             WindowUpdate, Continuation
<1>3. f.hdr.length = 8
  <2>1. f = build_http2_frame_ping(f.opaque_data, f.hdr.flags = Ack)
    BY <1>2, Zenon DEF OwnOther
  <2> QED
    BY <2>1, SMT DEF build_http2_frame_ping, http2_frame_header_init
<1>4. send_http2_frame(f, RemoteMax) = http2_frame_header_pack(f.hdr) \o Layout(f)
  BY <1>1, <1>2, Zenon DEF pack_http2_frame_ping
<1> QED
  BY <1>1, <1>3, <1>4, Zenon DEF OwnOther, LaidOut, WellFormed

\* A weight leaves as one less.
LEMMA WeightLess ==
  ASSUME NEW s \in PrioritySpec
  PROVE  /\ PackPriority(s, (s.weight + 255) % 256) = PriorityLayout(s)
         /\ PackPriority(s, IF s.weight # 0 THEN (s.weight - 1) % 256 ELSE 0) = PriorityLayout(s)
<1>1. s.weight \in 1..256
  BY SMT DEF PrioritySpec
<1>2. \A w \in 1..256 : (w + 255) % 256 = w - 1 /\ w # 0 /\ (w - 1) % 256 = w - 1
  BY SMT
<1> QED
  BY <1>1, <1>2, ZenonT(60) DEF PackPriority, PriorityLayout

LEMMA OwnPriority ==
  ASSUME NEW f, OwnOther(f), f.hdr.type = Priority
  PROVE  LaidOut(f)
<1>1. f \in [hdr : Header, pspec : PrioritySpec] /\ Layout(f) = PriorityLayout(f.pspec)
  BY PriorityCase, Zenon DEF OwnOther
<1>2. /\ Rebuilt(f) = build_http2_frame_priority(f.hdr.stream_id, f.hdr.flags, f.pspec)
      /\ send_http2_frame(f, RemoteMax) = pack_http2_frame_priority(f)
  BY SMT DEF Rebuilt, send_http2_frame, Data, Headers, Priority, RstStream, Settings, PushPromise, Ping, GoAway,
             WindowUpdate, Continuation
<1>3. f.hdr.length = 5
  <2>1. f = build_http2_frame_priority(f.hdr.stream_id, f.hdr.flags, f.pspec)
    BY <1>2, Zenon DEF OwnOther
  <2> QED
    BY <2>1, SMT DEF build_http2_frame_priority, http2_frame_header_init
<1>4. f.pspec \in PrioritySpec
  BY <1>1, SMT
<1>5. Len(PriorityLayout(f.pspec)) = 5
  <2>1. <<>> \in Seq(Byte)
    OBVIOUS
  <2> QED
    BY <1>4, <2>1, PriorityBack, Zenon
<1>6. PackPriority(f.pspec, IF f.pspec.weight # 0 THEN (f.pspec.weight - 1) % 256 ELSE 0) = PriorityLayout(f.pspec)
  BY <1>4, WeightLess
<1>7. send_http2_frame(f, RemoteMax) = http2_frame_header_pack(f.hdr) \o Layout(f)
  BY <1>1, <1>2, <1>6, Zenon DEF pack_http2_frame_priority
<1> QED
  BY <1>1, <1>3, <1>5, <1>7, Zenon DEF OwnOther, LaidOut, WellFormed

LEMMA OwnGoAway ==
  ASSUME NEW f, OwnOther(f), f.hdr.type = GoAway
  PROVE  LaidOut(f)
<1>1. /\ f \in [hdr : Header, reserved : BOOLEAN, last_stream_id : Number, error_code : Number,
                debug_data : Seq(Byte)]
      /\ Layout(f) = (PutWithTop(f.reserved, f.last_stream_id) \o put_uint32_in_be_stream(f.error_code))
                       \o f.debug_data
  BY GoAwayCase, Zenon DEF OwnOther
<1>2. /\ Rebuilt(f) = build_http2_frame_goaway(f.last_stream_id, f.error_code, f.debug_data)
      /\ send_http2_frame(f, RemoteMax) = pack_http2_frame_goaway(f)
  BY SMT DEF Rebuilt, send_http2_frame, Data, Headers, Priority, RstStream, Settings, PushPromise, Ping, GoAway,
             WindowUpdate, Continuation
<1>3. f.hdr.length = 8 + Len(f.debug_data) /\ f.reserved = FALSE
  <2>1. f = build_http2_frame_goaway(f.last_stream_id, f.error_code, f.debug_data)
    BY <1>2, Zenon DEF OwnOther
  <2> QED
    BY <2>1, SMT DEF build_http2_frame_goaway, http2_frame_header_init
<1>4. f.last_stream_id \in Number /\ f.error_code \in Number /\ f.debug_data \in Seq(Byte) /\ f.hdr \in Header
  BY <1>1, SMT
<1>5. PICK a \in Seq(Byte) : /\ a = put_uint32_in_be_stream(f.last_stream_id) /\ Len(a) = 4
                             /\ PutWithTop(f.reserved, f.last_stream_id) = a
  BY <1>3, <1>4, Put32, Zenon
<1>6. PICK b \in Seq(Byte) : b = put_uint32_in_be_stream(f.error_code) /\ Len(b) = 4
  BY <1>4, Put32, Zenon
<1>7. PICK d \in Seq(Byte) : d = f.debug_data
  BY <1>4, Zenon
<1>8. PICK o \in Seq(Byte) : o = http2_frame_header_pack(f.hdr)
  BY <1>4, HeaderBack, Zenon
<1>9. PICK e \in Seq(Byte) : e = a \o b
  BY ConcatByPlace, Zenon
<1>10. Regrouped(o, a, b) /\ Regrouped(o, e, d)
  BY Regroup, Zenon
<1>11. ((o \o a) \o b) \o d = o \o (e \o d)
  BY <1>9, <1>10, Zenon DEF Regrouped
<1>12. send_http2_frame(f, RemoteMax) = ((o \o a) \o b) \o d
  BY <1>2, <1>5, <1>6, <1>7, <1>8, Zenon DEF pack_http2_frame_goaway
<1>13. EightIn((a \o b) \o d, a, b, d)
  BY <1>5, <1>6, EightOctets, Zenon
<1>14. PICK x : x = e \o d /\ x = Layout(f) /\ Len(x) = 8 + Len(d)
  BY <1>1, <1>5, <1>6, <1>7, <1>9, <1>13, Zenon DEF EightIn
<1>15. send_http2_frame(f, RemoteMax) = http2_frame_header_pack(f.hdr) \o Layout(f)
  BY <1>8, <1>11, <1>12, <1>14, Zenon
<1> QED
  BY <1>3, <1>7, <1>14, <1>15, Zenon DEF OwnOther, LaidOut, WellFormed

LEMMA OwnPushPromise ==
  ASSUME NEW f, OwnOther(f), f.hdr.type = PushPromise
  PROVE  LaidOut(f)
<1>1. /\ f \in [hdr : Header, pad_len : IF MayBePadded(f.hdr) THEN Byte ELSE {0}, reserved : BOOLEAN,
                promised_stream_id : Number, header_block_fragment : Seq(Byte)]
      /\ Body(f) = PutWithTop(f.reserved, f.promised_stream_id) \o f.header_block_fragment
      /\ Layout(f) = Body(f)
  BY PushPromiseCase, Zenon DEF OwnOther, Layout
<1>2. /\ Rebuilt(f) = build_http2_frame_push_promise(f.hdr.stream_id, f.promised_stream_id, f.hdr.flags,
                                                     f.header_block_fragment)
      /\ send_http2_frame(f, RemoteMax) = pack_http2_frame_push_promise(f)
  BY SMT DEF Rebuilt, send_http2_frame, Data, Headers, Priority, RstStream, Settings, PushPromise, Ping, GoAway,
             WindowUpdate, Continuation
<1>3. f.hdr.length = 4 + Len(f.header_block_fragment) /\ f.reserved = FALSE
  <2>1. f = build_http2_frame_push_promise(f.hdr.stream_id, f.promised_stream_id, f.hdr.flags,
                                           f.header_block_fragment)
    BY <1>2, Zenon DEF OwnOther
  <2> QED
    BY <2>1, SMT DEF build_http2_frame_push_promise, http2_frame_header_init
<1>4. f.promised_stream_id \in Number /\ f.header_block_fragment \in Seq(Byte) /\ f.hdr \in Header
  BY <1>1, SMT
<1>5. PICK a \in Seq(Byte) : /\ a = put_uint32_in_be_stream(f.promised_stream_id) /\ Len(a) = 4
                             /\ PutWithTop(f.reserved, f.promised_stream_id) = a
  BY <1>3, <1>4, Put32, Zenon
<1>6. PICK d \in Seq(Byte) : d = f.header_block_fragment
  BY <1>4, Zenon
<1>7. PICK o \in Seq(Byte) : o = http2_frame_header_pack(f.hdr)
  BY <1>4, HeaderBack, Zenon
<1>8. Regrouped(o, a, d)
  BY Regroup, Zenon
<1>9. (o \o a) \o d = o \o (a \o d)
  BY <1>8, Zenon DEF Regrouped
<1>10. send_http2_frame(f, RemoteMax) = (o \o a) \o d
  BY <1>2, <1>5, <1>6, <1>7, Zenon DEF pack_http2_frame_push_promise
<1>11. Fronted(a, d, 4)
  <2>1. 4 \in Nat \ {0}
    OBVIOUS
  <2> QED
    BY <1>5, <2>1, FrontIs, Zenon
<1>12. PICK x : x = a \o d /\ x = Layout(f) /\ Len(x) = 4 + Len(d)
  BY <1>1, <1>5, <1>6, <1>11, Zenon DEF Fronted
<1>13. send_http2_frame(f, RemoteMax) = http2_frame_header_pack(f.hdr) \o Layout(f)
  BY <1>7, <1>9, <1>10, <1>12, Zenon
<1> QED
  BY <1>3, <1>6, <1>12, <1>13, Zenon DEF OwnOther, LaidOut, WellFormed

LEMMA OwnHeaders ==
  ASSUME NEW f, OwnOther(f), f.hdr.type = Headers
  PROVE  LaidOut(f)
<1>1. /\ f \in [hdr : Header, pad_len : IF MayBePadded(f.hdr) THEN Byte ELSE {0},
                pspec : IF Has(f.hdr.flags, PriorityFlag) THEN PrioritySpec ELSE {NoPriority},
                header_block_fragment : Seq(Byte)]
      /\ Body(f) = (IF Has(f.hdr.flags, PriorityFlag) THEN PriorityLayout(f.pspec) ELSE <<>>)
                     \o f.header_block_fragment
      /\ Layout(f) = Body(f)
  BY HeadersCase, Zenon DEF OwnOther, Layout
<1>2. /\ Rebuilt(f) = build_http2_frame_headers(f.hdr.stream_id, f.hdr.flags, f.header_block_fragment, f.pspec)
      /\ send_http2_frame(f, RemoteMax) = pack_http2_frame_headers(f)
  BY SMT DEF Rebuilt, send_http2_frame, Data, Headers, Priority, RstStream, Settings, PushPromise, Ping, GoAway,
             WindowUpdate, Continuation
<1>3. f.hdr.length = Len(f.header_block_fragment) + (IF Has(f.hdr.flags, PriorityFlag) THEN 5 ELSE 0)
  <2>1. f = build_http2_frame_headers(f.hdr.stream_id, f.hdr.flags, f.header_block_fragment, f.pspec)
    BY <1>2, Zenon DEF OwnOther
  <2>2. PICK kept, id, block, p :
          f = [hdr     |-> http2_frame_header_init(Len(block) + (IF Has(kept, PriorityFlag) THEN 5 ELSE 0), Headers,
                                                   kept, id),
               pad_len |-> 0, header_block_fragment |-> block, pspec |-> p]
    BY <2>1, Zenon DEF build_http2_frame_headers
  <2>3. PICK m : m = Len(block) + (IF Has(kept, PriorityFlag) THEN 5 ELSE 0)
    BY Zenon
  <2>4. f.hdr.flags = kept /\ f.header_block_fragment = block /\ f.hdr.length = m
    BY <2>2, <2>3, SMT DEF http2_frame_header_init
  <2> QED
    BY <2>3, <2>4, Zenon
<1>4. /\ f.pspec \in (IF Has(f.hdr.flags, PriorityFlag) THEN PrioritySpec ELSE {NoPriority})
      /\ f.header_block_fragment \in Seq(Byte) /\ f.hdr \in Header
  BY <1>1, SMT
<1>5. PICK d \in Seq(Byte) : d = f.header_block_fragment
  BY <1>4, Zenon
<1>6. PICK o \in Seq(Byte) : o = http2_frame_header_pack(f.hdr)
  BY <1>4, HeaderBack, Zenon
<1>7. PICK a \in Seq(Byte) : /\ a = (IF Has(f.hdr.flags, PriorityFlag) THEN PriorityLayout(f.pspec) ELSE <<>>)
                             /\ a = (IF Has(f.hdr.flags, PriorityFlag)
                                     THEN PackPriority(f.pspec, (f.pspec.weight + 255) % 256) ELSE <<>>)
                             /\ Len(a) = IF Has(f.hdr.flags, PriorityFlag) THEN 5 ELSE 0
  <2>1. CASE Has(f.hdr.flags, PriorityFlag)
    <3>1. f.pspec \in PrioritySpec
      BY <1>4, <2>1, Zenon
    <3>2. PackPriority(f.pspec, (f.pspec.weight + 255) % 256) = PriorityLayout(f.pspec)
      BY <3>1, WeightLess
    <3>3. PriorityLayout(f.pspec) \in Seq(Byte) /\ Len(PriorityLayout(f.pspec)) = 5
      BY <3>1, PriorityBack, Zenon
    <3> QED
      BY <2>1, <3>2, <3>3, Zenon
  <2>2. CASE ~Has(f.hdr.flags, PriorityFlag)
    <3>1. <<>> \in Seq(Byte) /\ Len(<<>>) = 0
      OBVIOUS
    <3>2. PICK z \in Seq(Byte) : z = <<>> /\ Len(z) = 0
      BY <3>1
    <3>3. /\ z = (IF Has(f.hdr.flags, PriorityFlag) THEN PriorityLayout(f.pspec) ELSE <<>>)
          /\ z = (IF Has(f.hdr.flags, PriorityFlag)
                  THEN PackPriority(f.pspec, (f.pspec.weight + 255) % 256) ELSE <<>>)
      BY <2>2, <3>2, Zenon
    <3>4. Len(z) = IF Has(f.hdr.flags, PriorityFlag) THEN 5 ELSE 0
      BY <2>2, <3>2
    <3> QED
      BY <3>3, <3>4, Zenon
  <2> QED
    BY <2>1, <2>2
<1>8. (o \o a) \o d = o \o (a \o d)
  <2>1. Regrouped(o, a, d)
    BY Regroup, Zenon
  <2> QED
    BY <2>1, Zenon DEF Regrouped
<1>9. send_http2_frame(f, RemoteMax) = (o \o a) \o d
  BY <1>2, <1>5, <1>6, <1>7, Zenon DEF pack_http2_frame_headers
<1>10. a \o d = Layout(f)
  BY <1>1, <1>5, <1>7, Zenon
<1>11. f.hdr.length = Len(Layout(f))
  <2>1. Len(a \o d) = Len(a) + Len(d)
    BY ConcatByPlace, Zenon
  <2>2. PICK m \in Nat, n \in Nat : m = Len(a) /\ n = Len(d)
    BY LenProperties
  <2>3. m + n = n + m
    OBVIOUS
  <2> QED
    BY <1>3, <1>5, <1>7, <1>10, <2>1, <2>2, <2>3, Zenon
<1>12. send_http2_frame(f, RemoteMax) = http2_frame_header_pack(f.hdr) \o Layout(f)
  BY <1>6, <1>8, <1>9, <1>10, Zenon
<1> QED
  BY <1>11, <1>12, Zenon DEF OwnOther, LaidOut, WellFormed

\* The entries of SETTINGS take six octets each.
LEMMA SettingsLength ==
  ASSUME NEW f, f.settings \in Seq(Setting)
  PROVE  Len(SettingsLayout(f)) = 6 * Len(f.settings)
<1>1. PICK v \in Seq(Setting) : v = f.settings
  BY Zenon
<1>2. PICK n \in Nat : n = Len(v) /\ DOMAIN v = 1..n /\ (\A i \in 1..n : v[i] \in Setting)
  OBVIOUS
<1>3. PICK s : s = [i \in 1..n |-> SettingLayout(v[i])]
  BY Zenon
<1>4. \A i \in 1..n : s[i] \in Seq(Byte) /\ Len(s[i]) = 6
  <2>1. \A i \in 1..n : s[i] = SettingLayout(v[i])
    BY <1>3, Zenon
  <2>2. \A i \in 1..n : SettingIs(s[i], v[i])
    BY <1>2, <2>1, SettingOctets, Zenon
  <2> QED
    BY <2>2, Zenon DEF SettingIs
<1>5. s \in Seq(Seq(Byte)) /\ Len(s) = n
  <2>1. s = [i \in 1..n |-> s[i]]
    BY <1>3, Zenon
  <2> QED
    BY <1>4, <2>1
<1>6. SettingsLayout(f) = FlattenSeq(s)
  BY <1>1, <1>2, <1>3, Zenon DEF SettingsLayout
<1>7. PICK b : Builds(b, Byte, s, n) /\ b[n] = SettingsLayout(f)
  BY <1>5, <1>6, FlatSteps, Zenon
<1>8. \A k \in 0..n : b[k] \in Seq(Byte) /\ Len(b[k]) = 6 * k
  BY <1>4, <1>7, SixTimes, Zenon
<1>9. n \in 0..n
  OBVIOUS
<1> QED
  BY <1>1, <1>2, <1>7, <1>8, <1>9, Zenon

LEMMA OwnSettings ==
  ASSUME NEW f, OwnOther(f), f.hdr.type = Settings
  PROVE  LaidOut(f)
<1>1. f \in [hdr : Header, settings : Seq(Setting)] /\ Layout(f) = SettingsLayout(f)
  BY SettingsCase, Zenon DEF OwnOther
<1>2. /\ Rebuilt(f) = build_http2_frame_settings(f.hdr.flags, f.settings)
      /\ send_http2_frame(f, RemoteMax) = pack_http2_frame_settings(f)
  BY SMT DEF Rebuilt, send_http2_frame, Data, Headers, Priority, RstStream, Settings, PushPromise, Ping, GoAway,
             WindowUpdate, Continuation
<1>3. f.hdr.length = 6 * Len(f.settings)
  <2>1. f = build_http2_frame_settings(f.hdr.flags, f.settings)
    BY <1>2, Zenon DEF OwnOther
  <2>2. PICK v, flags : f = [hdr |-> http2_frame_header_init(6 * Len(v), Settings, flags, 0), settings |-> v]
    BY <2>1, Zenon DEF build_http2_frame_settings
  <2>3. PICK m : m = 6 * Len(v)
    BY Zenon
  <2>4. f.settings = v /\ f.hdr.length = m
    BY <2>2, <2>3, SMT DEF http2_frame_header_init
  <2> QED
    BY <2>3, <2>4, Zenon
<1>4. f.settings \in Seq(Setting)
  BY <1>1, SMT
<1>5. Len(SettingsLayout(f)) = 6 * Len(f.settings)
  BY <1>4, SettingsLength
<1>6. send_http2_frame(f, RemoteMax) = http2_frame_header_pack(f.hdr) \o Layout(f)
  BY <1>1, <1>2, Zenon DEF pack_http2_frame_settings, SettingsLayout, SettingLayout
<1> QED
  BY <1>1, <1>3, <1>5, <1>6, Zenon DEF OwnOther, LaidOut, WellFormed

LEMMA OwnIsLaidOut ==
  ASSUME NEW f, OwnFrame(f), f.hdr.type # Data
  PROVE  LaidOut(f)
<1>1. OwnOther(f)
  BY Zenon DEF OwnFrame, OwnOther
<1>2. f.hdr.type \in {Headers, Priority, RstStream, Settings, PushPromise, Ping, GoAway, WindowUpdate}
  <2>1. f.hdr.type \in Data..WindowUpdate
    BY Zenon DEF OwnFrame
  <2>2. \A t \in Data..WindowUpdate :
          t \in {Data, Headers, Priority, RstStream, Settings, PushPromise, Ping, GoAway, WindowUpdate}
    BY SMT DEF Data, Headers, Priority, RstStream, Settings, PushPromise, Ping, GoAway, WindowUpdate
  <2> QED
    BY <2>1, <2>2, Zenon
<1> QED
  BY <1>1, <1>2, OwnHeaders, OwnPriority, OwnRstStream, OwnSettings, OwnPushPromise, OwnPing, OwnGoAway,
     OwnWindowUpdate, Zenon

-----------------------------------------------------------------------------
(***************************************************************************)
(* DATA of this library, in pieces of at most RemoteMax octets.            *)
(***************************************************************************)

\* How many pieces there are, where they are, and their headers.
Count(d) == IF Len(d) = 0 THEN 1 ELSE (Len(d) + RemoteMax - 1) \div RemoteMax
EndOf(d, i) == IF i < Count(d) THEN i * RemoteMax ELSE Len(d)
PieceOf(d, i) == SubSeq(d, (i - 1) * RemoteMax + 1, EndOf(d, i))
HeaderOf(f, i) ==
  [f.hdr EXCEPT !.length = Len(PieceOf(f.data, i)),
                !.flags  = IF i = Count(f.data) THEN Without(f.hdr.flags, Padded)
                           ELSE Without(Without(f.hdr.flags, Padded), EndStream)]

LEMMA PackIs ==
  ASSUME NEW f
  PROVE  pack_http2_frame_data(f, RemoteMax) =
           FlattenSeq([i \in 1..Count(f.data) |-> http2_frame_header_pack(HeaderOf(f, i)) \o PieceOf(f.data, i)])
BY Zenon DEF pack_http2_frame_data, Count, EndOf, PieceOf, HeaderOf

LEMMA Rounding ==
  ASSUME NEW s \in Nat \ {0}, NEW m \in Nat \ {0}, NEW c, c = (s + m - 1) \div m
  PROVE  c \in Nat \ {0} /\ (c - 1) * m < s /\ s <= c * m
<1>1. PICK x \in Nat : x = s + m - 1 /\ m <= x
  OBVIOUS
<1>2. x \div m \in Nat /\ x % m \in 0..(m - 1) /\ x = (x \div m) * m + (x % m)
  BY SMT
<1>3. c \in Nat
  BY <1>1, <1>2
<1>4. PICK r \in 0..(m - 1) : x = c * m + r
  BY <1>1, <1>2, Zenon
<1>5. c # 0
  BY <1>1, <1>3, <1>4
<1>6. (c - 1) * m = c * m - m
  BY <1>3
<1>7. PICK y \in Int : y = c * m
  BY <1>3
<1>8. y - m < s /\ s <= y
  BY <1>1, <1>4, <1>7
<1> QED
  BY <1>3, <1>5, <1>6, <1>7, <1>8

LEMMA Places ==
  ASSUME NEW m \in Nat \ {0}, NEW n \in Nat \ {0}, NEW s \in Nat, (n - 1) * m <= s, s <= n * m,
         NEW i \in 1..n, NEW e, e = IF i < n THEN i * m ELSE s
  PROVE  (i - 1) * m \in Nat /\ e \in Nat /\ (i - 1) * m <= e /\ e <= s /\ e - (i - 1) * m <= m
<1>1. PICK b \in Nat : b = (i - 1) * m
  OBVIOUS
<1>2. i * m = b + m
  BY <1>1
<1>3. CASE i < n
  <2>1. i * m <= (n - 1) * m
    BY <1>3, SMT
  <2>2. PICK x \in Int, y \in Int : x = i * m /\ y = (n - 1) * m
    OBVIOUS
  <2> QED
    BY <1>1, <1>2, <1>3, <2>1, <2>2
<1>4. CASE ~(i < n)
  <2>1. i = n
    BY <1>4
  <2>2. b <= s /\ s <= b + m
    BY <1>1, <1>2, <2>1
  <2> QED
    BY <1>1, <1>4, <2>2
<1> QED
  BY <1>3, <1>4

\* Octets up to one place and on to the next.
UpTo(d, b, e) ==
  /\ SubSeq(d, b + 1, e) \in Seq(Byte) /\ Len(SubSeq(d, b + 1, e)) = e - b
  /\ SubSeq(d, 1, e) = SubSeq(d, 1, b) \o SubSeq(d, b + 1, e)

LEMMA UpToIs ==
  ASSUME NEW d \in Seq(Byte), NEW b \in Nat, NEW e \in Nat, b <= e, e <= Len(d)
  PROVE  UpTo(d, b, e)
<1>1. PICK x \in Seq(Byte), y \in Seq(Byte) : d = x \o y /\ Len(x) = e
  BY Cut, Zenon
<1>2. b <= Len(x)
  BY <1>1
<1>3. PICK a \in Seq(Byte), c \in Seq(Byte) : x = a \o c /\ Len(a) = b
  BY <1>2, Cut, Zenon
<1>4. Parted(x, y) /\ Parted(a, c)
  BY PartedIs, Zenon
<1>5. 1 \in Nat \ {0} /\ b + 1 \in Nat \ {0} /\ b <= Len(x) /\ e <= Len(x)
  BY <1>1
<1>6. SubSeq(x \o y, 1, b) = SubSeq(x, 1, b) /\ SubSeq(x \o y, b + 1, e) = SubSeq(x, b + 1, e)
  BY <1>5, InFront, ZenonT(60)
<1>7. SubSeq(d, 1, e) = x /\ SubSeq(d, 1, b) = a /\ SubSeq(d, b + 1, e) = c
  BY <1>1, <1>3, <1>4, <1>6, Zenon DEF Parted, From
<1>8. Len(c) = e - b
  <2>1. Len(a \o c) = Len(a) + Len(c)
    BY ConcatByPlace, Zenon
  <2>2. PICK k \in Nat : k = Len(c)
    BY LenProperties
  <2>3. e = b + k
    BY <1>1, <1>3, <2>1, <2>2, Zenon
  <2>4. k = e - b
    BY <2>3
  <2> QED
    BY <2>2, <2>4, Zenon
<1> QED
  BY <1>3, <1>7, <1>8, Zenon DEF UpTo

LEMMA RemoteMaxType == RemoteMax \in Nat \ {0}
<1>1. MaxLength \in Nat
  BY SMT DEF MaxLength
<1>2. RemoteMax \in 1..MaxLength
  BY FrameTrafficAssumption, Zenon
<1> QED
  BY <1>1, <1>2, SMT

LEMMA PieceIs ==
  ASSUME NEW d \in Seq(Byte)
  PROVE  /\ Count(d) \in Nat \ {0} /\ EndOf(d, Count(d)) = Len(d) /\ (Count(d) = 1 => RemoteMax >= Len(d))
         /\ \A i \in 1..Count(d) :
              /\ UpTo(d, (i - 1) * RemoteMax, EndOf(d, i)) /\ (i < Count(d) => EndOf(d, i) = i * RemoteMax)
              /\ EndOf(d, i) - (i - 1) * RemoteMax <= RemoteMax
<1>1. PICK m \in Nat \ {0} : m = RemoteMax
  BY RemoteMaxType, Zenon
<1>2. PICK s \in Nat : s = Len(d)
  OBVIOUS
<1>3. PICK n \in Nat \ {0} : n = Count(d) /\ (n - 1) * m <= s /\ s <= n * m
  <2>1. CASE s = 0
    <3>1. Count(d) = 1
      BY <1>2, <2>1, Zenon DEF Count
    <3>2. 1 \in Nat \ {0} /\ (1 - 1) * m <= s /\ s <= 1 * m
      BY <2>1
    <3> QED
      BY <3>1, <3>2, Zenon
  <2>2. CASE s # 0
    <3>1. Count(d) = (s + m - 1) \div m
      BY <1>1, <1>2, <2>2, Zenon DEF Count
    <3>2. s \in Nat \ {0}
      BY <2>2
    <3>3. PICK c : c = Count(d)
      BY Zenon
    <3>4. c \in Nat \ {0} /\ (c - 1) * m < s /\ s <= c * m
      BY <3>1, <3>2, <3>3, Rounding, Zenon
    <3>5. (c - 1) * m <= s
      <4>1. PICK x \in Int : x = (c - 1) * m
        BY <3>4
      <4> QED
        BY <3>4, <4>1
    <3> QED
      BY <3>3, <3>4, <3>5, Zenon
  <2> QED
    BY <2>1, <2>2
<1>4. EndOf(d, Count(d)) = Len(d)
  <2>1. ~(n < n)
    OBVIOUS
  <2> QED
    BY <1>3, <2>1, Zenon DEF EndOf
<1>5. Count(d) = 1 => RemoteMax >= Len(d)
  <2>1. n = 1 => m >= s
    BY <1>3
  <2> QED
    BY <1>1, <1>2, <1>3, <2>1, Zenon
<1>6. ASSUME NEW i \in 1..n
      PROVE  /\ UpTo(d, (i - 1) * m, EndOf(d, i)) /\ (i < n => EndOf(d, i) = i * m)
             /\ EndOf(d, i) - (i - 1) * m <= m
  <2>1. PICK e : e = EndOf(d, i) /\ e = IF i < n THEN i * m ELSE s
    BY <1>1, <1>2, <1>3, Zenon DEF EndOf
  <2>2. (i - 1) * m \in Nat /\ e \in Nat /\ (i - 1) * m <= e /\ e <= s /\ e - (i - 1) * m <= m
    BY <1>3, <2>1, Places, Zenon
  <2>3. UpTo(d, (i - 1) * m, e)
    BY <1>2, <2>2, UpToIs, Zenon
  <2> QED
    BY <2>1, <2>2, <2>3, Zenon
<1> QED
  BY <1>1, <1>3, <1>4, <1>5, <1>6, Zenon

LEMMA FlagsWithout ==
  ASSUME NEW flags \in Byte, ~Has(flags, Padded)
  PROVE  /\ Without(flags, Padded) = flags
         /\ Without(flags, EndStream) \in Byte /\ ~Has(Without(flags, EndStream), EndStream)
         /\ ~Has(Without(flags, EndStream), Padded)
<1>1. Without(flags, Padded) = flags
  BY Zenon DEF Without
<1>2. PICK w \in Int : w = Without(flags, EndStream) /\ w = IF flags % 2 = 1 THEN flags - 1 ELSE flags
  <2>1. flags \div 1 = flags /\ flags \in 0..255
    BY SMT DEF Byte
  <2> QED
    BY <2>1, SMT DEF Without, Has, EndStream
<1>3. w \in Byte /\ w \div 1 = w /\ w % 2 = 0 /\ w \div 8 = flags \div 8
  BY <1>2, SMT DEF Byte
<1> QED
  BY <1>1, <1>2, <1>3, SMT DEF Has, EndStream, Padded

\* DATA as build_http2_frame_data makes it, without padding.
OwnData(f) ==
  /\ f.hdr.type = Data /\ f.hdr.stream_id \in Number /\ f.hdr.flags \in Byte /\ f.data \in Seq(Byte)
  /\ ~Has(f.hdr.flags, Padded)
  /\ f = [hdr     |-> [length |-> Len(f.data), type |-> Data, flags |-> f.hdr.flags, stream_id |-> f.hdr.stream_id],
          pad_len |-> 0, data |-> f.data]

LEMMA OwnDataIs ==
  ASSUME NEW f, OwnFrame(f), f.hdr.type = Data
  PROVE  OwnData(f)
<1>1. f.hdr.stream_id \in Number /\ f.hdr.flags \in Byte /\ f.data \in Seq(Byte) /\ ~MayBePadded(f.hdr) /\ f = Rebuilt(f)
  BY Zenon DEF OwnFrame
<1>2. ~Has(f.hdr.flags, Padded)
  BY <1>1, Zenon DEF MayBePadded
<1>3. Rebuilt(f) = build_http2_frame_data(f.hdr.stream_id, f.hdr.flags, f.data)
  BY SMT DEF Rebuilt, Data, Headers, Priority, RstStream, Settings, PushPromise, Ping, GoAway, WindowUpdate
<1>4. f = [hdr     |-> [length |-> Len(f.data), type |-> Data, flags |-> f.hdr.flags, stream_id |-> f.hdr.stream_id],
           pad_len |-> 0, data |-> f.data]
  BY <1>1, <1>3, Zenon DEF build_http2_frame_data, http2_frame_header_init
<1> QED
  BY <1>1, <1>2, <1>4, Zenon DEF OwnData

\* A piece, as it is logged.
PieceFrame(f, i) == [hdr |-> HeaderOf(f, i), pad_len |-> 0, data |-> PieceOf(f.data, i)]

Changed(h, l, t, w, s) ==
  [h EXCEPT !.length = l, !.flags = w] = [length |-> l, type |-> t, flags |-> w, stream_id |-> s]

LEMMA HeaderChanged ==
  ASSUME NEW n, NEW t, NEW g, NEW s, NEW h, h = [length |-> n, type |-> t, flags |-> g, stream_id |-> s],
         NEW l, NEW w
  PROVE  Changed(h, l, t, w, s)
<1>1. PICK k : k = [h EXCEPT !.length = l]
  BY Zenon
<1>2. k = [length |-> l, type |-> t, flags |-> g, stream_id |-> s]
  BY <1>1
<1>3. [k EXCEPT !.flags = w] = [length |-> l, type |-> t, flags |-> w, stream_id |-> s]
  BY <1>2
<1> QED
  BY <1>1, <1>3, Zenon DEF Changed

LEMMA HeaderType ==
  ASSUME NEW l \in Length, NEW t \in Byte, NEW g \in Byte, NEW s \in Number
  PROVE  [length |-> l, type |-> t, flags |-> g, stream_id |-> s] \in Header
BY DEF Header, Length

LEMMA PieceHeader ==
  ASSUME NEW f, OwnData(f), NEW i \in 1..Count(f.data)
  PROVE  /\ HeaderOf(f, i) \in Header /\ HeaderOf(f, i).type = Data
         /\ HeaderOf(f, i).length = Len(PieceOf(f.data, i)) /\ PieceOf(f.data, i) \in Seq(Byte)
         /\ Len(PieceOf(f.data, i)) <= RemoteMax
         /\ ~Has(HeaderOf(f, i).flags, Padded)
         /\ (i # Count(f.data) => ~Has(HeaderOf(f, i).flags, EndStream))
         /\ (i = Count(f.data) => HeaderOf(f, i).flags = f.hdr.flags)
         /\ HeaderOf(f, i).stream_id = f.hdr.stream_id
<1>1. PICK d \in Seq(Byte), flags \in Byte, id \in Number :
        /\ d = f.data /\ flags = f.hdr.flags /\ id = f.hdr.stream_id /\ ~Has(flags, Padded)
        /\ f = [hdr |-> [length |-> Len(d), type |-> Data, flags |-> flags, stream_id |-> id],
                pad_len |-> 0, data |-> d]
  BY Zenon DEF OwnData
<1>2. PICK b, e, p : /\ b = (i - 1) * RemoteMax /\ e = EndOf(d, i) /\ p = PieceOf(d, i) /\ p \in Seq(Byte)
                     /\ Len(p) = e - b /\ e - b <= RemoteMax
  <2>1. UpTo(d, (i - 1) * RemoteMax, EndOf(d, i)) /\ EndOf(d, i) - (i - 1) * RemoteMax <= RemoteMax
    BY <1>1, PieceIs, Zenon
  <2> QED
    BY <2>1, Zenon DEF UpTo, PieceOf
<1>3. PICK w \in Byte : /\ w = (IF i = Count(d) THEN Without(flags, Padded) ELSE Without(Without(flags, Padded), EndStream))
                        /\ ~Has(w, Padded) /\ (i # Count(d) => ~Has(w, EndStream)) /\ (i = Count(d) => w = flags)
  <2>1. /\ Without(flags, Padded) = flags
        /\ Without(flags, EndStream) \in Byte /\ ~Has(Without(flags, EndStream), EndStream)
        /\ ~Has(Without(flags, EndStream), Padded)
    BY <1>1, FlagsWithout
  <2> QED
    BY <1>1, <2>1, Zenon
<1>4. PICK l : l = Len(p)
  BY Zenon
<1>5. l \in Length /\ l <= RemoteMax
  <2>1. MaxLength \in Nat
    BY SMT DEF MaxLength
  <2>2. RemoteMax \in 1..MaxLength /\ l \in Nat /\ l <= RemoteMax
    BY <1>2, <1>4, FrameTrafficAssumption, LenProperties, Zenon
  <2> QED
    BY <2>1, <2>2, SMT DEF Length
<1>6. f.hdr = [length |-> Len(d), type |-> Data, flags |-> flags, stream_id |-> id]
  BY <1>1
<1>7. HeaderOf(f, i) = [f.hdr EXCEPT !.length = l, !.flags = w]
  BY <1>1, <1>2, <1>3, <1>4, Zenon DEF HeaderOf
<1>8. [f.hdr EXCEPT !.length = l, !.flags = w] = [length |-> l, type |-> Data, flags |-> w, stream_id |-> id]
  <2>1. Changed(f.hdr, l, Data, w, id)
    BY <1>6, HeaderChanged, Zenon
  <2> QED
    BY <2>1, Zenon DEF Changed
<1>9. PICK h : h = HeaderOf(f, i) /\ h = [length |-> l, type |-> Data, flags |-> w, stream_id |-> id]
  BY <1>7, <1>8, Zenon
<1>10. h.length = l /\ h.type = Data /\ h.flags = w /\ h.stream_id = id
  BY <1>9
<1>11. Data \in Byte
  BY DEF Data, Byte
<1>12. h \in Header
  BY <1>5, <1>9, <1>11, HeaderType, Zenon
<1> QED
  BY <1>1, <1>2, <1>3, <1>4, <1>5, <1>9, <1>10, <1>12, Zenon

LEMMA PieceReads ==
  ASSUME NEW f, OwnData(f), NEW i \in 1..Count(f.data)
  PROVE  Reads(http2_frame_header_pack(HeaderOf(f, i)) \o PieceOf(f.data, i), <<NoError(PieceFrame(f, i))>>)
<1>1. PICK h \in Header, p \in Seq(Byte) :
        /\ h = HeaderOf(f, i) /\ p = PieceOf(f.data, i) /\ h.type = Data /\ Len(p) = h.length /\ ~Has(h.flags, Padded)
  BY PieceHeader, Zenon
<1>2. Reads(http2_frame_header_pack(h) \o p, <<Logged(h, p)>>)
  BY <1>1, ReadsFrame, Zenon
<1>3. PICK g : g = [hdr |-> h, pad_len |-> 0, data |-> p]
  BY Zenon
<1>4. g.hdr = h
  BY <1>3
<1>5. ParsePayload(h, p) = parse_http2_frame_data(h, p)
  BY <1>1, <1>4, DataCase, Zenon
<1>6. ~(h.type > Continuation)
  BY <1>1, SMT DEF Data, Continuation
<1>7. PICK u : u = Unpad(h, p) /\ u = [ok |-> TRUE, pad_len |-> 0, payload |-> p]
  BY <1>1, Zenon DEF Unpad
<1>8. u.ok /\ u.pad_len = 0 /\ u.payload = p
  BY <1>7
<1>9. parse_http2_frame_data(h, p) = NoError(g)
  BY <1>3, <1>7, <1>8, Zenon DEF parse_http2_frame_data
<1>10. Logged(h, p) = NoError(g)
  BY <1>5, <1>6, <1>9, Zenon DEF Logged
<1> QED
  BY <1>1, <1>2, <1>3, <1>10, Zenon DEF PieceFrame

\* One by one, they make the sequence.
Listed(l, S, n, x) == l \in Seq(S) /\ Len(l) = n /\ \A i \in 1..n : l[i] = x[i]

LEMMA Singles ==
  ASSUME NEW S, NEW n \in Nat, NEW x, \A i \in 1..n : x[i] \in S, NEW t, \A i \in 1..n : t[i] = <<x[i]>>,
         NEW g, Builds(g, S, t, n)
  PROVE  Listed(g[n], S, n, x)
<1>1. g \in [0..n -> Seq(S)] /\ g[0] = <<>> /\ \A i \in 1..n : g[i] = g[i - 1] \o t[i]
  BY Zenon DEF Builds
<1> DEFINE P(k) == g[k] \in Seq(S) /\ Len(g[k]) = k /\ \A i \in 1..k : g[k][i] = x[i]
           T == {k \in Nat : k <= n => P(k)}
<1>2. 0 \in T
  <2>1. PICK z \in Seq(S) : z = g[0] /\ Len(z) = 0
    BY <1>1
  <2>2. ~\E i : i \in 1..0
    OBVIOUS
  <2>3. P(0)
    BY <2>1, <2>2, Zenon
  <2> HIDE DEF P
  <2> QED
    BY <2>3
<1>3. ASSUME NEW k \in Nat, k \in T PROVE k + 1 \in T
  <2> HIDE DEF P
  <2> SUFFICES ASSUME k + 1 <= n PROVE P(k + 1)
    OBVIOUS
  <2>1. k + 1 \in 1..n /\ (k + 1) - 1 = k /\ P(k)
    BY <1>3
  <2>2. PICK a \in Seq(S), e \in S : a = g[k] /\ e = x[k + 1] /\ Len(a) = k /\ \A i \in 1..k : a[i] = x[i]
    BY <2>1, Zenon DEF P
  <2>3. g[k + 1] = a \o <<e>>
    BY <1>1, <2>1, <2>2, Zenon
  <2>4. PICK c : c = Append(a, e) /\ c = a \o <<e>> /\ c \in Seq(S) /\ Len(c) = Len(a) + 1 /\ c[Len(a) + 1] = e
                 /\ \A i \in 1..Len(a) : c[i] = a[i]
    <3>1. /\ Append(a, e) = a \o <<e>> /\ Append(a, e) \in Seq(S) /\ Len(Append(a, e)) = Len(a) + 1
          /\ Append(a, e)[Len(a) + 1] = e /\ \A i \in 1..Len(a) : Append(a, e)[i] = a[i]
      BY AppendJoins
    <3> QED
      BY <3>1, Zenon
  <2>5. ASSUME NEW i \in 1..(k + 1) PROVE c[i] = x[i]
    <3>1. i \in 1..k \/ i = k + 1
      OBVIOUS
    <3> QED
      BY <2>2, <2>4, <3>1, Zenon
  <2> QED
    BY <2>2, <2>3, <2>4, <2>5, Zenon DEF P
<1>4. Nat \subseteq T
  <2> HIDE DEF T
  <2> QED
    BY <1>2, <1>3, SetInduction
<1> HIDE DEF P
<1>5. P(n)
  BY <1>4
<1> QED
  BY <1>5, Zenon DEF P, Listed

LEMMA SeqByPlace ==
  ASSUME NEW S, NEW n \in Nat, NEW s, s = [i \in 1..n |-> s[i]], \A i \in 1..n : s[i] \in S
  PROVE  s \in Seq(S) /\ Len(s) = n
OBVIOUS

\* The pieces, one behind the other, are what was sent.
LEMMA PiecesJoin ==
  ASSUME NEW d \in Seq(Byte), NEW s, s = [i \in 1..Count(d) |-> PieceOf(d, i)]
  PROVE  FlattenSeq(s) = d
<1>1. PICK n \in Nat \ {0} : n = Count(d)
  BY PieceIs, Zenon
<1>2. \A i \in 1..n : /\ UpTo(d, (i - 1) * RemoteMax, EndOf(d, i)) /\ (i < n => EndOf(d, i) = i * RemoteMax)
  BY <1>1, PieceIs, Zenon
<1>3. \A i \in 1..n : s[i] = PieceOf(d, i) /\ s[i] \in Seq(Byte)
  BY <1>1, <1>2, Zenon DEF UpTo, PieceOf
<1>4. s \in Seq(Seq(Byte)) /\ Len(s) = n
  <2>1. s = [i \in 1..n |-> s[i]]
    BY <1>1, <1>3, Zenon
  <2>2. n \in Nat
    OBVIOUS
  <2>3. \A i \in 1..n : s[i] \in Seq(Byte)
    BY <1>3, Zenon
  <2>4. ASSUME NEW r, r = [i \in 1..n |-> r[i]], \A i \in 1..n : r[i] \in Seq(Byte)
        PROVE  r \in Seq(Seq(Byte)) /\ Len(r) = n
    BY <2>2, <2>4, SeqByPlace, Zenon
  <2> QED
    BY <2>1, <2>3, <2>4, Zenon
<1> DEFINE b == [i \in 0..n |-> IF i = 0 THEN <<>> ELSE SubSeq(d, 1, EndOf(d, i))]
<1>5. b[0] = <<>>
  OBVIOUS
<1>6. ASSUME NEW i \in 1..n PROVE b[i] = SubSeq(d, 1, EndOf(d, i))
  <2>1. i \in 0..n /\ i # 0
    OBVIOUS
  <2> QED
    BY <2>1, Zenon
<1>7. SubSeq(d, 1, 0) = <<>>
  BY SubSeqEmpty
<1> HIDE DEF b
<1>8. ASSUME NEW i \in 1..n PROVE b[i] = b[i - 1] \o s[i]
  <2>1. SubSeq(d, 1, EndOf(d, i)) = SubSeq(d, 1, (i - 1) * RemoteMax) \o PieceOf(d, i)
    BY <1>2, Zenon DEF UpTo, PieceOf
  <2>2. b[i - 1] = SubSeq(d, 1, (i - 1) * RemoteMax)
    <3>1. CASE i = 1
      <4>1. i - 1 = 0 /\ (i - 1) * RemoteMax = 0
        <5>1. RemoteMax \in Int
          BY RemoteMaxType
        <5> QED
          BY <3>1, <5>1
      <4> QED
        BY <1>5, <1>7, <4>1, Zenon
    <3>2. CASE i # 1
      <4>1. i - 1 \in 1..n /\ i - 1 < n
        BY <3>2
      <4> QED
        BY <1>2, <1>6, <4>1, Zenon
    <3> QED
      BY <3>1, <3>2
  <2> QED
    BY <1>3, <1>6, <2>1, <2>2, Zenon
<1>9. FlattenSeq(s) = b[Len(s)]
  BY <1>4, <1>5, <1>8, FlatFrom, Zenon
<1>10. b[n] = d
  <2>1. n \in 1..n
    OBVIOUS
  <2>2. b[n] = SubSeq(d, 1, Len(d))
    BY <1>1, <1>6, <2>1, PieceIs, Zenon
  <2>3. SubSeq(d, 1, Len(d)) = d
    BY SubSeqFull
  <2> QED
    BY <2>2, <2>3, Zenon
<1> QED
  BY <1>4, <1>9, <1>10, Zenon

\* What the loop makes of DATA of this library.
LEMMA DataReads ==
  ASSUME NEW f, OwnData(f)
  PROVE  \E l : Reads(pack_http2_frame_data(f, RemoteMax), l) /\ Len(l) = Count(f.data) /\ JoinTo(l, f)
<1>1. PICK d \in Seq(Byte) : d = f.data
  BY Zenon DEF OwnData
<1>2. PICK n \in Nat \ {0} : n = Count(d)
  BY PieceIs, Zenon
<1>3. n \in Nat /\ n \in 1..n
  OBVIOUS
<1> DEFINE s == [i \in 1..n |-> http2_frame_header_pack(HeaderOf(f, i)) \o PieceOf(d, i)]
           x == [i \in 1..n |-> NoError(PieceFrame(f, i))]
           t == [i \in 1..n |-> <<x[i]>>]
<1>4. s = [i \in 1..n |-> s[i]] /\ \A i \in 1..n : s[i] = http2_frame_header_pack(HeaderOf(f, i)) \o PieceOf(d, i)
  BY Zenon
<1>5. \A i \in 1..n : x[i] = NoError(PieceFrame(f, i)) /\ t[i] = <<x[i]>>
  BY Zenon
<1>6. pack_http2_frame_data(f, RemoteMax) = FlattenSeq(s)
  <2>1. pack_http2_frame_data(f, RemoteMax) =
          FlattenSeq([i \in 1..Count(f.data) |-> http2_frame_header_pack(HeaderOf(f, i)) \o PieceOf(f.data, i)])
    BY PackIs
  <2> QED
    BY <1>1, <1>2, <2>1, Zenon
<1> HIDE DEF s, x, t
<1>7. \A i \in 1..n : Reads(s[i], t[i])
  <2>1. ASSUME NEW i \in 1..n PROVE Reads(s[i], t[i])
    <3>1. Reads(http2_frame_header_pack(HeaderOf(f, i)) \o PieceOf(f.data, i), <<NoError(PieceFrame(f, i))>>)
      BY <1>1, <1>2, PieceReads, Zenon
    <3> QED
      BY <1>1, <1>4, <1>5, <3>1, Zenon
  <2> QED
    BY <2>1, Zenon
<1>8. \A i \in 1..n : s[i] \in Seq(Byte) /\ t[i] \in Seq(Entries)
  BY <1>7, Zenon DEF Reads
<1>9. s \in Seq(Seq(Byte)) /\ Len(s) = n
  BY <1>3, <1>4, <1>8, SeqByPlace, Zenon
<1>10. PICK b : Builds(b, Byte, s, n) /\ b[n] = FlattenSeq(s)
  BY <1>9, FlatSteps, Zenon
<1>11. PICK g : Builds(g, Entries, t, n)
  BY <1>3, <1>8, BuildsExists, Zenon
<1>12. Reads(pack_http2_frame_data(f, RemoteMax), g[n])
  <2>1. Reads(b[n], g[n])
    BY <1>3, <1>7, <1>10, <1>11, ReadsAll, Zenon
  <2> QED
    BY <1>6, <1>10, <2>1, Zenon
<1>13. \A i \in 1..n : x[i] \in Entries
  <2>1. ASSUME NEW i \in 1..n PROVE x[i] \in Entries
    <3>1. PICK e : e = x[i] /\ <<e>> \in Seq(Entries)
      BY <1>5, <1>8, Zenon
    <3>2. e \in Entries
      BY <3>1
    <3> QED
      BY <3>1, <3>2, Zenon
  <2> QED
    BY <2>1, Zenon
<1>14. PICK l \in Seq(Entries) : l = g[n] /\ Len(l) = n /\ \A i \in 1..n : l[i] = x[i]
  <2>1. \A i \in 1..n : t[i] = <<x[i]>>
    BY <1>5, Zenon
  <2>2. Listed(g[n], Entries, n, x)
    BY <1>3, <1>11, <1>13, <2>1, Singles, Zenon
  <2> QED
    BY <2>2, Zenon DEF Listed
<1>15. ASSUME NEW i \in 1..n
       PROVE  /\ l[i].error = 0 /\ l[i].frame.hdr = HeaderOf(f, i) /\ l[i].frame.data = PieceOf(d, i)
  <2>1. l[i] = NoError(PieceFrame(f, i))
    BY <1>5, <1>14, Zenon
  <2>2. PICK q, h, p : q = PieceFrame(f, i) /\ h = HeaderOf(f, i) /\ p = PieceOf(d, i)
                       /\ q = [hdr |-> h, pad_len |-> 0, data |-> p]
    BY <1>1, Zenon DEF PieceFrame
  <2>3. q.hdr = h /\ q.data = p
    BY <2>2
  <2>4. l[i].error = 0 /\ l[i].frame = q
    BY <2>1, <2>2, ErrorIs, Zenon
  <2> QED
    BY <2>2, <2>3, <2>4, Zenon
<1>16. JoinTo(l, f)
  <2>1. \A i \in 1..n : l[i].error = 0 /\ l[i].frame.hdr.length <= RemoteMax
    <3>1. ASSUME NEW i \in 1..n PROVE l[i].error = 0 /\ l[i].frame.hdr.length <= RemoteMax
      <4>1. HeaderOf(f, i).length = Len(PieceOf(d, i)) /\ Len(PieceOf(d, i)) <= RemoteMax
        BY <1>1, <1>2, PieceHeader, Zenon
      <4>2. l[i].error = 0 /\ l[i].frame.hdr = HeaderOf(f, i)
        BY <1>15, Zenon
      <4> QED
        BY <4>1, <4>2, Zenon
    <3> QED
      BY <3>1, Zenon
  <2>2. \A i \in 1..(n - 1) : ~Has(l[i].frame.hdr.flags, EndStream)
    <3>1. \A i \in 1..(n - 1) : i \in 1..n /\ i # n
      OBVIOUS
    <3> QED
      BY <1>1, <1>2, <1>15, <3>1, PieceHeader, ZenonT(60)
  <2>3. l[n].frame.hdr.flags = f.hdr.flags
    <3>1. l[n].frame.hdr = HeaderOf(f, n)
      BY <1>3, <1>15, Zenon
    <3>2. HeaderOf(f, n).flags = f.hdr.flags
      BY <1>1, <1>2, <1>3, PieceHeader, Zenon
    <3> QED
      BY <3>1, <3>2, Zenon
  <2>4. FlattenSeq([i \in 1..n |-> l[i].frame.data]) = d
    <3>1. PICK p : p = [i \in 1..Count(d) |-> PieceOf(d, i)]
      BY Zenon
    <3>2. p = [i \in 1..n |-> l[i].frame.data]
      BY <1>2, <1>15, <3>1, Zenon
    <3> QED
      BY <3>1, <3>2, PiecesJoin, Zenon
  <2> QED
    BY <1>1, <1>14, <2>1, <2>2, <2>3, <2>4, Zenon DEF JoinTo
<1> QED
  BY <1>1, <1>2, <1>12, <1>14, <1>16, Zenon

\* Of a single piece it is laid out as RFC 7540 has it.
LEMMA DataFields ==
  ASSUME NEW f, f.hdr.type = Data
  PROVE  /\ f \in [hdr : Header, pad_len : IF MayBePadded(f.hdr) THEN Byte ELSE {0}, data : Seq(Byte)] => Fields(f)
         /\ send_http2_frame(f, RemoteMax) = pack_http2_frame_data(f, RemoteMax)
BY SMT DEF Fields, send_http2_frame, Data, Headers, Priority, RstStream, Settings, PushPromise, Ping, GoAway,
           WindowUpdate, Continuation

LEMMA OnePiece ==
  ASSUME NEW f, OwnData(f), Count(f.data) = 1
  PROVE  LaidOut(f)
<1>1. PICK d \in Seq(Byte) : d = f.data
  BY Zenon DEF OwnData
<1>2. PieceOf(d, 1) = d
  <2>1. (1 - 1) * RemoteMax + 1 = 1
    BY RemoteMaxType
  <2>2. EndOf(d, 1) = Len(d)
    BY <1>1, PieceIs, Zenon
  <2>3. SubSeq(d, 1, Len(d)) = d
    BY SubSeqFull
  <2> QED
    BY <2>1, <2>2, <2>3, Zenon DEF PieceOf
<1>3. 1 \in 1..1
  OBVIOUS
<1>4. PICK h : h = HeaderOf(f, 1) /\ h \in Header /\ h.type = Data /\ h.length = Len(d) /\ h.flags = f.hdr.flags
               /\ h.stream_id = f.hdr.stream_id
  BY <1>1, <1>2, <1>3, PieceHeader, Zenon
<1>5. f = [hdr |-> h, pad_len |-> 0, data |-> d]
  <2>1. h = http2_frame_header_init(h.length, h.type, h.flags, h.stream_id)
    BY <1>4, HeaderFields, Zenon
  <2>2. f = [hdr     |-> [length |-> Len(d), type |-> Data, flags |-> f.hdr.flags, stream_id |-> f.hdr.stream_id],
             pad_len |-> 0, data |-> d]
    BY <1>1, Zenon DEF OwnData
  <2> QED
    BY <1>4, <2>1, <2>2, Zenon DEF http2_frame_header_init
<1>6. f.hdr = h /\ f.pad_len = 0
  BY <1>5
<1>7. ~MayBePadded(f.hdr) /\ f.hdr.type = Data
  BY Zenon DEF OwnData, MayBePadded
<1>8. Layout(f) = d
  BY <1>1, <1>7, DataCase, Zenon DEF Layout
<1>9. WellFormed(f)
  <2>1. f \in [hdr : Header, pad_len : {0}, data : Seq(Byte)]
    BY <1>4, <1>5
  <2>2. Fields(f)
    BY <1>7, <2>1, DataFields, Zenon
  <2> QED
    BY <1>4, <1>6, <1>8, <2>2, Zenon DEF WellFormed
<1>10. PICK o \in Seq(Byte) : o = http2_frame_header_pack(h) \o d
  BY <1>4, PacketFirst, Zenon
<1> DEFINE s == [i \in 1..1 |-> http2_frame_header_pack(HeaderOf(f, i)) \o PieceOf(d, i)]
           b == [i \in 0..1 |-> IF i = 0 THEN <<>> ELSE o]
<1>11. pack_http2_frame_data(f, RemoteMax) = FlattenSeq(s)
  <2>1. pack_http2_frame_data(f, RemoteMax) =
          FlattenSeq([i \in 1..Count(f.data) |-> http2_frame_header_pack(HeaderOf(f, i)) \o PieceOf(f.data, i)])
    BY PackIs
  <2> QED
    BY <1>1, <2>1, Zenon
<1>12. s[1] = o /\ s = [i \in 1..1 |-> s[i]]
  BY <1>2, <1>3, <1>4, <1>10, Zenon
<1>13. b[0] = <<>> /\ b[1] = o
  OBVIOUS
<1> HIDE DEF s, b
<1>14. \A i \in 1..1 : i = 1
  OBVIOUS
<1>15. \A i \in 1..1 : s[i] \in Seq(Byte)
  BY <1>12, <1>14, Zenon
<1>16. s \in Seq(Seq(Byte)) /\ Len(s) = 1
  <2>1. 1 \in Nat
    OBVIOUS
  <2> QED
    BY <1>12, <1>15, <2>1, SeqByPlace, Zenon
<1>17. \A i \in 1..1 : b[i] = b[i - 1] \o s[i]
  <2>1. 1 - 1 = 0 /\ <<>> \o o = o
    OBVIOUS
  <2>2. b[1] = b[1 - 1] \o s[1]
    BY <1>12, <1>13, <2>1, Zenon
  <2> QED
    BY <1>14, <2>2, Zenon
<1>18. FlattenSeq(s) = b[Len(s)]
  BY <1>13, <1>16, <1>17, FlatFrom, Zenon
<1>19. send_http2_frame(f, RemoteMax) = http2_frame_header_pack(f.hdr) \o Layout(f)
  BY <1>6, <1>7, <1>8, <1>10, <1>11, <1>13, <1>16, <1>18, DataFields, Zenon
<1> QED
  BY <1>9, <1>19, Zenon DEF LaidOut

-----------------------------------------------------------------------------
(***************************************************************************)
(* A message.                                                              *)
(***************************************************************************)

\* What FramesSurvive and ParsedIsThePayload say of the entries l for m.
Survives(m, l) ==
  LET f == m.frame
  IN  m.whole =>
        \/ ShortHeaders(f)
        \/ l = <<NoError(f)>>
        \/ m.pieces > 1 /\ JoinTo(l, f)
AllThere(m, l) ==
  m.pieces = 1 /\ m.frame.hdr.type <= Continuation /\ l[1].error = 0 => LaysOut(l[1].frame, From(m.octets, 10))

ReadAs(m, l) == Reads(m.octets, l) /\ Len(l) = m.pieces /\ Survives(m, l) /\ AllThere(m, l)

LEMMA OneFrame ==
  ASSUME NEW m, NEW h \in Header, NEW c \in Seq(Byte), Len(c) = h.length, m.octets = http2_frame_header_pack(h) \o c,
         m.pieces = 1, m.frame.hdr = h, m.whole => h.type <= Continuation /\ Parses(m.frame) /\ c = Layout(m.frame)
  PROVE  \E l : ReadAs(m, l)
<1>1. PICK e : e = Logged(h, c)
  BY Zenon
<1>2. PICK l : l = <<e>>
  BY Zenon
<1>3. Len(l) = 1 /\ l[1] = e
  BY <1>2
<1>4. Reads(m.octets, l)
  BY <1>1, <1>2, ReadsFrame, Zenon
<1>5. From(m.octets, 10) = c
  <2>1. From(http2_frame_header_pack(h) \o c, 10) = c
    BY PacketFirst
  <2> QED
    BY <2>1, Zenon
<1>6. ASSUME h.type <= Continuation PROVE e = ParsePayload(h, c)
  <2>1. h.type \in Byte
    BY HeaderFields, Zenon
  <2>2. ~(h.type > Continuation)
    <3>1. \A t \in Byte : t <= Continuation => ~(t > Continuation)
      BY SMT DEF Byte, Continuation
    <3> QED
      BY <1>6, <2>1, <3>1, Zenon
  <2> QED
    BY <1>1, <2>2, Zenon DEF Logged
<1>7. Survives(m, l)
  <2>1. SUFFICES ASSUME m.whole PROVE ShortHeaders(m.frame) \/ l = <<NoError(m.frame)>>
    BY Zenon DEF Survives
  <2>2. e = IF ShortHeaders(m.frame) THEN FrameSizeError ELSE NoError(m.frame)
    BY <1>6, <2>1, Zenon DEF Parses
  <2> QED
    BY <1>2, <2>2, Zenon
<1>8. AllThere(m, l)
  <2>1. SUFFICES ASSUME h.type <= Continuation, e.error = 0 PROVE LaysOut(e.frame, c)
    BY <1>3, <1>5, Zenon DEF AllThere
  <2>2. Accounts(h, c)
    BY <2>1, EveryPayloadAccounts, Zenon
  <2> QED
    BY <1>6, <2>1, <2>2, Zenon DEF Accounts
<1> QED
  BY <1>3, <1>4, <1>7, <1>8, Zenon DEF ReadAs

LEMMA MessageReads ==
  ASSUME NEW m, IsMessage(m)
  PROVE  m.pieces \in Nat /\ \E l : ReadAs(m, l)
<1>0. 1 \in Nat
  OBVIOUS
<1>1. ASSUME NEW f, WellFormed(f), m.frame = f, m.pieces = 1, m.octets = http2_frame_header_pack(f.hdr) \o Layout(f)
      PROVE  m.pieces \in Nat /\ \E l : ReadAs(m, l)
  <2>1. Parses(f) /\ f.hdr \in Header /\ f.hdr.type <= Continuation
    BY <1>1, EveryFrameParses, Zenon
  <2>2. Layout(f) \in Seq(Byte) /\ Len(Layout(f)) = f.hdr.length
    BY <1>1, <2>1, Zenon DEF Parses, WellFormed
  <2> QED
    BY <1>0, <1>1, <2>1, <2>2, OneFrame, Zenon
<1>2. CASE m.whole /\ OwnFrame(m.frame) /\ m = Own(m.frame)
  <2>1. PICK f : f = m.frame /\ OwnFrame(f) /\ m = Own(f)
    BY <1>2, Zenon
  <2>2. /\ m.octets = send_http2_frame(f, RemoteMax)
        /\ m.pieces = IF f.hdr.type = Data /\ f.data # <<>>
                      THEN (Len(f.data) + RemoteMax - 1) \div RemoteMax ELSE 1
    BY <2>1 DEF Own
  <2>3. CASE f.hdr.type # Data
    <3>1. LaidOut(f)
      BY <2>1, <2>3, OwnIsLaidOut, Zenon
    <3>2. m.pieces = 1
      BY <2>2, <2>3, Zenon
    <3> QED
      BY <1>1, <2>1, <2>2, <3>1, <3>2, Zenon DEF LaidOut
  <2>4. CASE f.hdr.type = Data
    <3>1. OwnData(f)
      BY <2>1, <2>4, OwnDataIs, Zenon
    <3>2. PICK d \in Seq(Byte) : d = f.data
      BY <3>1, Zenon DEF OwnData
    <3>3. m.pieces = Count(d) /\ Count(d) \in Nat \ {0}
      <4>1. d # <<>> <=> ~(Len(d) = 0)
        OBVIOUS
      <4> QED
        BY <2>2, <2>4, <3>2, <4>1, PieceIs, Zenon DEF Count
    <3>4. PICK n \in Nat \ {0} : n = Count(d)
      BY <3>3, Zenon
    <3>5. CASE n = 1
      <4>1. LaidOut(f)
        BY <3>1, <3>2, <3>4, <3>5, OnePiece, Zenon
      <4> QED
        BY <1>1, <2>1, <2>2, <3>3, <3>4, <3>5, <4>1, Zenon DEF LaidOut
    <3>6. CASE n # 1
      <4>1. PICK l : Reads(pack_http2_frame_data(f, RemoteMax), l) /\ Len(l) = n /\ JoinTo(l, f)
        BY <3>1, <3>2, <3>4, DataReads, Zenon
      <4>2. n > 1 /\ n \in Nat
        BY <3>6
      <4>3. m.octets = pack_http2_frame_data(f, RemoteMax)
        BY <2>2, <2>4, DataFields, Zenon
      <4>4. Survives(m, l)
        BY <2>1, <3>3, <3>4, <4>1, <4>2, Zenon DEF Survives
      <4>5. AllThere(m, l)
        BY <3>3, <3>4, <3>6, Zenon DEF AllThere
      <4> QED
        BY <3>3, <3>4, <4>1, <4>2, <4>3, <4>4, <4>5, Zenon DEF ReadAs
    <3> QED
      BY <3>5, <3>6
  <2> QED
    BY <2>3, <2>4
<1>3. CASE m.whole /\ WellFormed(m.frame) /\ m = Foreign(m.frame)
  <2>1. PICK f : f = m.frame /\ WellFormed(f) /\ m = Foreign(f)
    BY <1>3, Zenon
  <2>2. PICK o : o = http2_frame_header_pack(f.hdr) \o Layout(f)
    BY Zenon
  <2>3. m.octets = o /\ m.pieces = 1
    BY <2>1, <2>2 DEF Foreign
  <2> QED
    BY <1>1, <2>1, <2>2, <2>3, Zenon
<1>4. CASE /\ ~m.whole /\ m.frame.hdr \in Header /\ From(m.octets, 10) \in Seq(Byte)
           /\ Len(From(m.octets, 10)) = m.frame.hdr.length
           /\ m = AnyPayload(m.frame.hdr, From(m.octets, 10))
  <2>1. PICK h \in Header, c \in Seq(Byte) : h = m.frame.hdr /\ c = From(m.octets, 10) /\ Len(c) = h.length
                                             /\ m = AnyPayload(h, c)
    BY <1>4, Zenon
  <2>2. PICK o : o = http2_frame_header_pack(h) \o c
    BY Zenon
  <2>3. m.octets = o /\ m.pieces = 1
    BY <2>1, <2>2 DEF AnyPayload
  <2> QED
    BY <1>0, <1>4, <2>1, <2>2, <2>3, OneFrame, Zenon
<1> QED
  BY <1>2, <1>3, <1>4, Zenon DEF IsMessage

-----------------------------------------------------------------------------
(***************************************************************************)
(* Messages one behind the other.                                          *)
(***************************************************************************)

Messages == sent \in Seq(Range(sent)) /\ \A k \in DOMAIN sent : IsMessage(sent[k])

\* Where the entries of message k are.
PlaceOf(a, k) == SubSeq(a, Earlier(k) + 1, Earlier(k) + sent[k].pieces)

LEMMA TrafficReads ==
  ASSUME Messages
  PROVE  \E a : /\ Reads(Traffic, a) /\ Len(a) = Earlier(Len(sent) + 1)
                /\ \A k \in DOMAIN sent : ReadAs(sent[k], PlaceOf(a, k))
<1>1. PICK n \in Nat : n = Len(sent) /\ DOMAIN sent = 1..n
  <2>1. sent \in Seq(Range(sent))
    BY Zenon DEF Messages
  <2>2. Len(sent) \in Nat /\ DOMAIN sent = 1..Len(sent)
    BY <2>1, LenProperties
  <2> QED
    BY <2>2, Zenon
<1>2. \A k \in 1..n : sent[k].pieces \in Nat /\ \E l : ReadAs(sent[k], l)
  <2>1. \A k \in 1..n : IsMessage(sent[k])
    BY <1>1, Zenon DEF Messages
  <2> QED
    BY <2>1, MessageReads, Zenon
<1> DEFINE t == [k \in 1..n |-> CHOOSE l : ReadAs(sent[k], l)]
           s == [k \in 1..n |-> sent[k].octets]
<1>3. \A k \in 1..n : ReadAs(sent[k], t[k]) /\ s[k] = sent[k].octets
  BY <1>2, Zenon
<1>4. s = [k \in 1..n |-> s[k]] /\ Traffic = FlattenSeq(s)
  BY <1>1, Zenon DEF Traffic
<1> HIDE DEF s, t
<1>5. \A k \in 1..n : Reads(s[k], t[k]) /\ Len(t[k]) = sent[k].pieces
  BY <1>3, Zenon DEF ReadAs
<1>6. \A k \in 1..n : s[k] \in Seq(Byte)
  BY <1>5, Zenon DEF Reads
<1>7. \A k \in 1..n : t[k] \in Seq(Entries)
  BY <1>5, Zenon DEF Reads
<1>8. s \in Seq(Seq(Byte)) /\ Len(s) = n
  BY <1>4, <1>6, SeqByPlace, Zenon
<1>9. PICK b : Builds(b, Byte, s, n) /\ b[n] = FlattenSeq(s)
  BY <1>8, FlatSteps, Zenon
<1>10. PICK g : Builds(g, Entries, t, n)
  BY <1>7, BuildsExists, Zenon
<1>11. g \in [0..n -> Seq(Entries)] /\ g[0] = <<>> /\ \A i \in 1..n : g[i] = g[i - 1] \o t[i]
  BY <1>10, Zenon DEF Builds
<1>12. Reads(Traffic, g[n])
  <2>1. \A k \in 1..n : Reads(s[k], t[k])
    BY <1>5, Zenon
  <2>2. Reads(b[n], g[n])
    BY <1>9, <1>10, <2>1, ReadsAll, Zenon
  <2> QED
    BY <1>4, <1>9, <2>2, Zenon
<1>13. ASSUME NEW k \in 0..n PROVE Earlier(k + 1) = Len(g[k])
  <2> DEFINE w == [i \in 1..k |-> sent[i].pieces]
             f == [j \in 0..k |-> Len(g[j])]
  <2>1. (k + 1) - 1 = k /\ k \in Nat
    OBVIOUS
  <2>2. Earlier(k + 1) = Total(w)
    BY <2>1, Zenon DEF Earlier
  <2>3. \A i \in 1..k : i \in 1..n /\ i \in 0..k /\ i - 1 \in 0..k /\ i - 1 \in 0..n
    OBVIOUS
  <2>4. w = [i \in 1..k |-> w[i]] /\ \A i \in 1..k : w[i] = sent[i].pieces
    BY Zenon
  <2>5. \A j \in 0..k : f[j] = Len(g[j])
    BY Zenon
  <2>6. f = [j \in 0..k |-> f[j]]
    BY Zenon
  <2>7. 0 \in 0..k /\ k \in 0..k /\ \A j \in 0..k : j \in 0..n
    BY <2>1
  <2> HIDE DEF w, f
  <2>8. \A i \in 1..k : w[i] \in Nat
    BY <1>2, <2>3, <2>4, Zenon
  <2>9. \A i \in 1..k : w[i] \in Int
    BY <2>8
  <2>10. w \in Seq(Int) /\ Len(w) = k
    <3>1. w = [i \in 1..k |-> w[i]]
      BY <2>4, Zenon
    <3> QED
      BY <2>1, <2>9, <3>1, SeqByPlace, Zenon
  <2>11. \A j \in 0..k : f[j] \in Int
    <3>1. \A j \in 0..k : g[j] \in Seq(Entries)
      BY <1>11, <2>7, Zenon
    <3>2. \A j \in 0..k : Len(g[j]) \in Nat
      BY <3>1, LenProperties
    <3>3. \A j \in 0..k : f[j] \in Nat
      BY <2>5, <3>2, Zenon
    <3> QED
      BY <3>3
  <2>12. f \in [0..Len(w) -> Int]
    BY <2>6, <2>10, <2>11, Zenon
  <2>13. f[0] = 0
    <3>1. PICK z \in Seq(Entries) : z = g[0] /\ Len(z) = 0
      BY <1>11
    <3> QED
      BY <2>5, <2>7, <3>1, Zenon
  <2>14. ASSUME NEW i \in 1..k PROVE f[i] = f[i - 1] + w[i]
    <3>1. PICK a \in Seq(Entries), c \in Seq(Entries) : a = g[i - 1] /\ c = t[i] /\ g[i] = a \o c
      BY <1>7, <1>11, <2>3, Zenon
    <3>2. Len(a \o c) = Len(a) + Len(c)
      BY ConcatByPlace, Zenon
    <3>3. f[i] = Len(a \o c) /\ f[i - 1] = Len(a) /\ w[i] = Len(c)
      BY <1>5, <2>3, <2>4, <2>5, <3>1, Zenon
    <3> QED
      BY <3>2, <3>3, Zenon
  <2>15. \A i \in 1..Len(w) : f[i] = f[i - 1] + w[i]
    BY <2>10, <2>14, Zenon
  <2>16. Total(w) = f[Len(w)]
    BY <2>10, <2>12, <2>13, <2>15, TotalFrom
  <2> QED
    BY <2>2, <2>5, <2>7, <2>10, <2>16, Zenon
<1>14. ASSUME NEW k \in 1..n PROVE PlaceOf(g[n], k) = t[k]
  <2>1. k - 1 \in 0..n /\ (k - 1) + 1 = k
    OBVIOUS
  <2>2. Earlier(k) = Len(g[k - 1]) /\ Len(t[k]) = sent[k].pieces
    BY <1>5, <1>13, <2>1, Zenon
  <2>3. PartAt(g[n], g[k - 1], t[k])
    BY <1>7, <1>10, PartInWhole, Zenon
  <2> QED
    BY <2>2, <2>3, Zenon DEF PlaceOf, PartAt
<1>15. Len(g[n]) = Earlier(Len(sent) + 1)
  <2>1. n \in 0..n
    OBVIOUS
  <2> QED
    BY <1>1, <1>13, <2>1, Zenon
<1> QED
  BY <1>1, <1>3, <1>12, <1>14, <1>15, Zenon

\* With the preface in front of them, or without one if none is expected.
LEMMA AtOnceReads ==
  ASSUME NEW a, Reads(Traffic, a), Prefaced, server \in BOOLEAN, ~AtOnce.failed
  PROVE  AtOnce.log = a
<1>1. PICK c \in Seq(Byte) : c = Traffic
  BY Zenon DEF Reads
<1>2. PICK r : r = FrameLoop(c) /\ (~r.failed => r.log = a)
  BY <1>1, Zenon DEF Reads
<1>3. CASE server
  <2>1. PICK p \in Seq(Byte) : p = Preface
    BY PrefaceLength, Zenon
  <2>2. octets = p \o c
    BY <1>1, <1>3, <2>1, Zenon DEF Prefaced
  <2>3. ~(Len(p \o c) < Len(p))
    <3>1. Len(p \o c) = Len(p) + Len(c) /\ Len(p) \in Nat /\ Len(c) \in Nat
      BY ConcatByPlace, LenProperties
    <3> QED
      BY <3>1
  <2>4. SubSeq(p \o c, 1, Len(p)) = p /\ From(p \o c, Len(p) + 1) = c
    <3>1. Parted(p, c)
      BY PartedIs, Zenon
    <3> QED
      BY <3>1, Zenon DEF Parted
  <2>5. Result(Outcome(TRUE, octets), FALSE, r.buf, r.log, r.failed)
    BY <1>2, <2>1, <2>2, <2>3, <2>4, OutcomeIs, Zenon
  <2>6. server = TRUE
    BY <1>3
  <2> QED
    BY <1>2, <2>5, <2>6, Zenon DEF Result, AtOnce
<1>4. CASE ~server
  <2>1. <<>> \o c = c
    OBVIOUS
  <2>2. octets = c
    BY <1>1, <1>4, <2>1, Zenon DEF Prefaced
  <2>3. Result(Outcome(FALSE, octets), FALSE, r.buf, r.log, r.failed)
    BY <1>2, <2>2, OutcomeIs, Zenon
  <2>4. server = FALSE
    BY <1>4
  <2> QED
    BY <1>2, <2>3, <2>4, Zenon DEF Result, AtOnce
<1> QED
  BY <1>3, <1>4

TrafficInv == StreamInv /\ Messages

LEMMA TrafficInvImplies ==
  ASSUME TrafficInv
  PROVE  FramesSurvive /\ ParsedIsThePayload
<1>1. PortionsDoNotMatter /\ server \in BOOLEAN
  BY StreamInvImplies, Zenon DEF TrafficInv, StreamInv, StreamType
<1>2. PICK a : /\ Reads(Traffic, a) /\ Len(a) = Earlier(Len(sent) + 1)
               /\ \A k \in DOMAIN sent : ReadAs(sent[k], PlaceOf(a, k))
  BY TrafficReads, Zenon DEF TrafficInv
<1>3. ASSUME wire = <<>>, ~closed, Prefaced PROVE log = a
  <2>1. log = AtOnce.log /\ ~AtOnce.failed
    BY <1>1, <1>3, Zenon DEF PortionsDoNotMatter
  <2> QED
    BY <1>1, <1>2, <1>3, <2>1, AtOnceReads, Zenon
<1>4. ASSUME wire = <<>>, ~closed, Prefaced, NEW k \in DOMAIN sent
      PROVE  Survives(sent[k], LogOf(k)) /\ AllThere(sent[k], LogOf(k))
  BY <1>2, <1>3, <1>4, Zenon DEF ReadAs, PlaceOf, LogOf
<1>5. FramesSurvive
  BY <1>2, <1>3, <1>4, Zenon DEF FramesSurvive, Survives
<1>6. ParsedIsThePayload
  BY <1>4, Zenon DEF ParsedIsThePayload, AllThere
<1> QED
  BY <1>5, <1>6

LEMMA TrafficInvHolds == TrafficSpec => []TrafficInv
<1>1. TrafficInit => TrafficInv
  <2> SUFFICES ASSUME TrafficInit PROVE TrafficInv
    OBVIOUS
  <2>1. StreamInv
    BY StreamInvInit, Zenon DEF TrafficInit
  <2>2. Messages
    BY Zenon DEF TrafficInit, Messages
  <2> QED
    BY <2>1, <2>2, Zenon DEF TrafficInv
<1>2. ASSUME TrafficInv, [TrafficNext]_trafficVars PROVE TrafficInv'
  <2>1. StreamInv /\ Messages /\ [StreamNext]_vars /\ sent' = sent
    BY <1>2, Zenon DEF TrafficInv, TrafficNext, trafficVars
  <2>2. StreamInv'
    BY <2>1, StreamInvKept, Zenon
  <2>3. Messages'
    BY <2>1, Zenon DEF Messages
  <2> QED
    BY <2>2, <2>3, Zenon DEF TrafficInv
<1> QED
  BY <1>1, <1>2, PTL DEF TrafficSpec

\* Every frame that this library builds and packs and every well-formed frame of
\* another implementation, padded or not, with any fields, in any number and in
\* any order, comes out of ReceivedData once and as it went in, unless it is HEADERS
\* without PRIORITY and below five octets, or exceeds MAX_FRAME_SIZE; DATA that
\* pack_http2_frame_data has cut comes in pieces that together are what was sent.
THEOREM FramesAlwaysSurvive == TrafficSpec => []FramesSurvive
<1>1. TrafficInv => FramesSurvive
  BY TrafficInvImplies, Zenon
<1> QED
  BY <1>1, TrafficInvHolds, PTL

\* Whatever payload a frame has, what the parse_http2_frame_* functions make of
\* it without an error is all there is: laid out again, it is the payload, octet
\* for octet up to the padding.
THEOREM ParsedIsThePayloadAlways == TrafficSpec => []ParsedIsThePayload
<1>1. TrafficInv => ParsedIsThePayload
  BY TrafficInvImplies, Zenon
<1> QED
  BY <1>1, TrafficInvHolds, PTL

=============================================================================
