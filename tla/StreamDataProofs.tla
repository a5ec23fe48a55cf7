-------------------------- MODULE StreamDataProofs --------------------------
(***************************************************************************)
(* Slices and the data cache of a stream: counts are exact, windows are    *)
(* within their blocks, and peeked bytes stay, for any blocks, slice       *)
(* objects, payloads and sizes.                                            *)
(*                                                                         *)
(* A heap is owned by the callers' objects and a sequence of slices: the   *)
(* vector of the buffer, with the temporaries of an operation behind it.   *)
(* Every operation is made of a few steps on what is owned: a slice is     *)
(* appended with its reference, swapped with one of an object, cut, or     *)
(* removed at either end with its reference.                               *)
(***************************************************************************)
EXTENDS StreamData, TotalsProofs, FiniteSetTheorems

SliceType == [block : Blocks \cup {NoBlock, StaticBlock}, off : Nat, len : Nat]
HeapType == [refs : [Blocks -> Nat], mem : [Blocks -> Seq(Byte)]]
BufferType == [vs : Seq(SliceType), start : Nat, length : Nat]
PeekType == [slice : SliceType, bytes : Seq(Byte)]

Shows(s, b) == IF s.block = b THEN 1 ELSE 0
Marks(b) == [s \in SliceType |-> Shows(s, b)]
Lengths == [s \in SliceType |-> s.len]

\* How many objects, and how many places of a sequence, show a block.
Holders(os, b) == Cardinality({o \in Objects : os[o].block = b})
Places(ss, b) == Weighed(Marks(b), ss)

Within(h, s) == s.off + s.len <= Len(Memory(h, s))

Owned(h, os, ss) ==
  /\ h \in HeapType /\ os \in [Objects -> SliceType] /\ ss \in Seq(SliceType)
  /\ \A b \in Blocks : h.refs[b] = Holders(os, b) + Places(ss, b)
  /\ \A o \in Objects : Within(h, os[o])
  /\ \A i \in 1..Len(ss) : Within(h, ss[i])

\* The bytes behind the slices ss are the same in g.
Kept(h, g, ss) == \A i \in 1..Len(ss) : Memory(g, ss[i]) = Memory(h, ss[i])

\* And those behind the objects' slices.
KeptObjects(h, g, os) == \A o \in Objects : Memory(g, os[o]) = Memory(h, os[o])

\* How many bytes the slices have together.
Size(ss) == Weighed(Lengths, ss)

BufferOK(q) == q \in BufferType /\ q.start <= Len(q.vs) /\ q.length = Size(Current(q))

\* Peeked bytes are where they were; their block is that of the first slice.
PeekOK(h, q, p) ==
  /\ p \in PeekType /\ Content(h, p.slice) = p.bytes
  /\ p.slice.block \in Blocks =>
       Current(q) # <<>> /\ Current(q)[1].block = p.slice.block

\* The inductive invariant, of any heap, objects, buffer and peeked bytes.
DataOK(h, os, q, p) == Owned(h, os, q.vs) /\ BufferOK(q) /\ PeekOK(h, q, p)

StreamDataInv == DataOK(heap, obj, buf, peeked)

-----------------------------------------------------------------------------
(***************************************************************************)
(* Numbers and sequences.                                                  *)
(***************************************************************************)

\* The lesser of two numbers.
LEMMA LesserOf ==
  ASSUME NEW a \in Nat, NEW b \in Nat
  PROVE  Min({a, b}) \in Nat /\ Min({a, b}) = IF a <= b THEN a ELSE b
<1>1. \E x \in {a, b} : \A y \in {a, b} : x <= y
  OBVIOUS
<1>2. Min({a, b}) \in {a, b} /\ \A y \in {a, b} : Min({a, b}) <= y
  BY <1>1, Zenon DEF Min
<1> QED
  BY <1>2

\* Concatenating is associative.
LEMMA JoinThree ==
  ASSUME NEW s \in Seq(Byte), NEW t \in Seq(Byte), NEW u \in Seq(Byte)
  PROVE  (s \o t) \o u = s \o (t \o u)
BY ConcatAssociative

\* A part that is longer by one.
LEMMA PartAppend ==
  ASSUME NEW S, NEW s \in Seq(S), NEW a \in Nat, NEW i \in Nat, (a + i) + 1 <= Len(s)
  PROVE  SubSeq(s, a + 1, (a + i) + 1) = Append(SubSeq(s, a + 1, a + i), s[(a + i) + 1])
<1>1. PICK n \in Nat : n = Len(s) /\ (a + i) + 1 <= n
  OBVIOUS
<1>2. \A k \in 1..n : s[k] \in S
  BY <1>1
<1>3. PICK p \in Seq(S) : p = SubSeq(s, a + 1, a + i) /\ Len(p) = i /\ \A k \in 1..i : p[k] = s[a + k]
  <2>1. /\ SubSeq(s, a + 1, a + i) \in Seq(S) /\ Len(SubSeq(s, a + 1, a + i)) = i
        /\ \A k \in 1..i : SubSeq(s, a + 1, a + i)[k] = s[a + k]
    BY <1>1, <1>2
  <2> QED
    BY <2>1, Zenon
<1>4. PICK t \in Seq(S) : t = SubSeq(s, a + 1, (a + i) + 1) /\ Len(t) = i + 1 /\ \A k \in 1..(i + 1) : t[k] = s[a + k]
  <2>1. /\ SubSeq(s, a + 1, (a + i) + 1) \in Seq(S) /\ Len(SubSeq(s, a + 1, (a + i) + 1)) = i + 1
        /\ \A k \in 1..(i + 1) : SubSeq(s, a + 1, (a + i) + 1)[k] = s[a + k]
    BY <1>1, <1>2
  <2> QED
    BY <2>1, Zenon
<1>5. PICK x \in S : x = s[(a + i) + 1]
  BY <1>1, <1>2
<1>6. PICK u \in Seq(S) : u = Append(p, x) /\ Len(u) = i + 1 /\ u[i + 1] = x /\ \A k \in 1..i : u[k] = p[k]
  <2>1. /\ Append(p, x) \in Seq(S) /\ Len(Append(p, x)) = Len(p) + 1
        /\ Append(p, x)[Len(p) + 1] = x /\ \A k \in 1..Len(p) : Append(p, x)[k] = p[k]
    BY AppendJoins
  <2> QED
    BY <1>3, <2>1, Zenon
<1>7. ASSUME NEW k \in 1..(i + 1) PROVE t[k] = u[k]
  <2>1. CASE k = i + 1
    <3>1. a + k = (a + i) + 1
      BY <2>1
    <3> QED
      BY <1>4, <1>5, <1>6, <2>1, <3>1, Zenon
  <2>2. CASE k # i + 1
    <3>1. k \in 1..i
      BY <2>2
    <3> QED
      BY <1>3, <1>4, <1>6, <3>1, Zenon
  <2> QED
    BY <2>1, <2>2
<1>8. t = u
  BY <1>4, <1>6, <1>7, SeqEqual, Zenon
<1> QED
  BY <1>3, <1>4, <1>5, <1>6, <1>8, Zenon

\* The first element of the rest of a sequence.
LEMMA RestIs ==
  ASSUME NEW S, NEW s \in Seq(S), NEW k \in Nat, k < Len(s)
  PROVE  /\ s[k + 1] \in S /\ SubSeq(s, k + 1, Len(s)) \in Seq(S) /\ SubSeq(s, (k + 1) + 1, Len(s)) \in Seq(S)
         /\ SubSeq(s, k + 1, Len(s)) = <<s[k + 1]>> \o SubSeq(s, (k + 1) + 1, Len(s))
<1>1. PICK n \in Nat : n = Len(s) /\ k < n
  OBVIOUS
<1>2. k + 1 \in 1..(n + 1) /\ k + 1 \in ((k + 1) - 1)..n /\ n \in (k + 1)..n /\ k + 1 \in 1..n /\ k + 1 \in 0..n /\ k \in 0..n
  BY <1>1
<1>3. SubSeq(s, k + 1, k + 1) \o SubSeq(s, (k + 1) + 1, n) = SubSeq(s, k + 1, n)
  BY <1>1, <1>2, ConcatAdjacentSubSeq
<1>4. SubSeq(s, k + 1, k + 1) = <<s[k + 1]>>
  <2>1. PICK m \in 1..n : m = k + 1 /\ s[m] \in S
    BY <1>1, <1>2
  <2>2. SubSeq(s, m, m) \in Seq(S) /\ Len(SubSeq(s, m, m)) = 1 /\ SubSeq(s, m, m)[1] = s[m]
    BY <1>1, <2>1
  <2>3. \A e \in S : <<e>> \in Seq(S) /\ Len(<<e>>) = 1 /\ <<e>>[1] = e
    OBVIOUS
  <2>4. \A a, b \in Seq(S) : Len(a) = 1 /\ Len(b) = 1 /\ a[1] = b[1] => a = b
    BY SeqEqual
  <2> QED
    BY <2>1, <2>2, <2>3, <2>4, Zenon
<1>5. s[k + 1] \in S /\ SubSeq(s, k + 1, Len(s)) \in Seq(S) /\ SubSeq(s, (k + 1) + 1, Len(s)) \in Seq(S)
  BY <1>1, <1>2
<1> QED
  BY <1>1, <1>3, <1>4, <1>5, Zenon

-----------------------------------------------------------------------------
(***************************************************************************)
(* Counting.                                                               *)
(***************************************************************************)

\* Marks and lengths are numbers.
LEMMA MarksType ==
  ASSUME NEW b
  PROVE  /\ \A s \in SliceType : Marks(b)[s] \in Nat /\ Marks(b)[s] = Shows(s, b)
         /\ \A s \in SliceType : Lengths[s] \in Nat /\ Lengths[s] = s.len
BY DEF Marks, Lengths, Shows, SliceType

\* An object that gets another slice changes two counts.
LEMMA HoldersChange ==
  ASSUME NEW os \in [Objects -> SliceType], NEW o \in Objects, NEW s \in SliceType, NEW b
  PROVE  /\ Holders(os, b) \in Nat /\ Holders([os EXCEPT ![o] = s], b) \in Nat
         /\ Holders([os EXCEPT ![o] = s], b) + Shows(os[o], b) = Holders(os, b) + Shows(s, b)
<1> DEFINE ps == [os EXCEPT ![o] = s]
           A == {x \in Objects : os[x].block = b}
           B == {x \in Objects : ps[x].block = b}
<1>1. ps[o] = s /\ \A x \in Objects : x # o => ps[x] = os[x]
  OBVIOUS
<1> HIDE DEF ps
<1>2. A \ {o} = B \ {o}
  BY <1>1
<1>3. IsFiniteSet(A) /\ IsFiniteSet(B)
  <2>1. A \in SUBSET Objects /\ B \in SUBSET Objects
    OBVIOUS
  <2> HIDE DEF A, B
  <2> QED
    BY <2>1, FS_Subset, StreamDataAssumption, Zenon
<1>4. (o \in A <=> os[o].block = b) /\ (o \in B <=> s.block = b)
  BY <1>1
<1> HIDE DEF A, B
<1>5. /\ Cardinality(A) \in Nat /\ Cardinality(B) \in Nat
      /\ Cardinality(A \ {o}) = IF o \in A THEN Cardinality(A) - 1 ELSE Cardinality(A)
      /\ Cardinality(B \ {o}) = IF o \in B THEN Cardinality(B) - 1 ELSE Cardinality(B)
  BY <1>3, FS_RemoveElement, FS_CardinalityType, Zenon
<1>6. Cardinality(B) + Shows(os[o], b) = Cardinality(A) + Shows(s, b)
  <2>1. PICK m \in Nat, n \in Nat : m = Cardinality(A) /\ n = Cardinality(B)
    BY <1>5, Zenon
  <2>2. (IF os[o].block = b THEN m - 1 ELSE m) = IF s.block = b THEN n - 1 ELSE n
    BY <1>2, <1>4, <1>5, <2>1, Zenon
  <2>3. n + (IF os[o].block = b THEN 1 ELSE 0) = m + (IF s.block = b THEN 1 ELSE 0)
    BY <2>2
  <2> QED
    BY <2>1, <2>3, Zenon DEF Shows
<1> QED
  BY <1>5, <1>6, Zenon DEF Holders, A, B, ps

\* An object that shows a block counts.
LEMMA HoldersCount ==
  ASSUME NEW os \in [Objects -> SliceType], NEW o \in Objects
  PROVE  Holders(os, os[o].block) \in Nat /\ Holders(os, os[o].block) > 0
<1> DEFINE A == {x \in Objects : os[x].block = os[o].block}
<1>1. IsFiniteSet(A)
  <2>1. A \in SUBSET Objects
    OBVIOUS
  <2> HIDE DEF A
  <2> QED
    BY <2>1, FS_Subset, StreamDataAssumption, Zenon
<1>2. A # {}
  OBVIOUS
<1> HIDE DEF A
<1>3. Cardinality(A) \in Nat /\ Cardinality(A) # 0
  BY <1>1, <1>2, FS_EmptySet, FS_CardinalityType, Zenon
<1>4. Cardinality(A) > 0
  BY <1>3
<1> QED
  BY <1>3, <1>4, Zenon DEF Holders, A

\* Places of sequences.
LEMMA PlacesOf ==
  ASSUME NEW b, NEW s \in Seq(SliceType), NEW t \in Seq(SliceType), NEW x \in SliceType
  PROVE  /\ Places(s, b) \in Nat /\ Places(<<>>, b) = 0 /\ Places(<<x>>, b) = Shows(x, b)
         /\ Shows(x, b) \in Nat
         /\ Places(s \o t, b) = Places(s, b) + Places(t, b)
         /\ Places(Append(s, x), b) = Places(s, b) + Shows(x, b)
<1>1. \A y \in SliceType : Marks(b)[y] \in Nat /\ Marks(b)[y] \in Int /\ Marks(b)[y] = Shows(y, b)
  BY MarksType
<1>2. Append(s, x) = s \o <<x>> /\ <<x>> \in Seq(SliceType)
  OBVIOUS
<1>3. Weighed(Marks(b), s) \in Nat
  BY <1>1, WeighedNat, Zenon
<1>4. /\ Weighed(Marks(b), s \o t) = Weighed(Marks(b), s) + Weighed(Marks(b), t)
      /\ Weighed(Marks(b), s \o <<x>>) = Weighed(Marks(b), s) + Weighed(Marks(b), <<x>>)
  BY <1>1, <1>2, WeighedConcat, Zenon
<1>5. Weighed(Marks(b), <<x>>) = Marks(b)[x]
  BY <1>1, WeighedOne, Zenon
<1> QED
  BY <1>1, <1>2, <1>3, <1>4, <1>5, WeighedEmpty, Zenon DEF Places

\* A slice in a sequence counts.
LEMMA PlacesCount ==
  ASSUME NEW s \in Seq(SliceType), NEW i \in 1..Len(s)
  PROVE  Places(s, s[i].block) \in Nat /\ Places(s, s[i].block) > 0
<1> DEFINE b == s[i].block
<1>1. PICK x \in SliceType : x = s[i]
  BY ElementOfSeq
<1>2. PICK k \in 0..Len(s) : k = i
  OBVIOUS
<1>3. PICK u \in Seq(SliceType), v \in Seq(SliceType) :
        s = u \o v /\ Len(u) = i /\ \A j \in 1..i : u[j] = s[j]
  <2>1. /\ SubSeq(s, 1, k) \in Seq(SliceType) /\ Len(SubSeq(s, 1, k)) = k
        /\ SubSeq(s, k + 1, Len(s)) \in Seq(SliceType) /\ s = SubSeq(s, 1, k) \o SubSeq(s, k + 1, Len(s))
    BY PartIs, ZenonT(60)
  <2>2. \A j \in 1..k : SubSeq(s, 1, k)[j] = s[j]
    BY PartIs
  <2> QED
    BY <1>2, <2>1, <2>2, Zenon
<1>4. PICK t \in Seq(SliceType) : u = Append(t, x)
  <2>1. u # <<>> /\ u[Len(u)] = x
    BY <1>1, <1>3
  <2>2. SubSeq(u, 1, Len(u) - 1) \in Seq(SliceType) /\ u = Append(SubSeq(u, 1, Len(u) - 1), u[Len(u)])
    BY <2>1
  <2> QED
    BY <2>1, <2>2, Zenon
<1> HIDE DEF b
<1>5. /\ Places(s, b) = Places(u, b) + Places(v, b) /\ Places(u, b) = Places(t, b) + Shows(x, b)
      /\ Places(v, b) \in Nat /\ Places(t, b) \in Nat /\ Places(s, b) \in Nat
  BY <1>3, <1>4, PlacesOf, ZenonT(60)
<1>6. Shows(x, b) = 1
  BY <1>1, Zenon DEF Shows, b
<1>7. Places(s, b) > 0
  BY <1>5, <1>6
<1> QED
  BY <1>5, <1>7, Zenon DEF b

\* The model counts places by their set.
LEMMA PlacesIs ==
  ASSUME NEW b, NEW s \in Seq(SliceType)
  PROVE  Cardinality({i \in 1..Len(s) : s[i].block = b}) = Places(s, b)
<1> DEFINE At(t) == {i \in 1..Len(t) : t[i].block = b}
           P(t) == IsFiniteSet(At(t)) /\ Cardinality(At(t)) = Places(t, b)
           T == {n \in Nat : \A t \in Seq(SliceType) : Len(t) = n => P(t)}
<1>1. 0 \in T
  <2> SUFFICES ASSUME NEW t \in Seq(SliceType), Len(t) = 0 PROVE P(t)
    OBVIOUS
  <2>1. t = <<>> /\ At(t) = {}
    OBVIOUS
  <2>2. Places(<<>>, b) = 0
    BY WeighedEmpty, Zenon DEF Places
  <2> HIDE DEF At
  <2> QED
    BY <2>1, <2>2, FS_EmptySet, Zenon
<1>2. ASSUME NEW n \in Nat, n \in T PROVE n + 1 \in T
  <2> SUFFICES ASSUME NEW t \in Seq(SliceType), Len(t) = n + 1 PROVE P(t)
    OBVIOUS
  <2>1. PICK x \in SliceType : x = t[n + 1]
    BY ElementOfSeq
  <2>2. PICK u \in Seq(SliceType) : /\ t = Append(u, x) /\ Len(u) = n /\ \A i \in 1..n : t[i] = u[i]
    <3>1. /\ SubSeq(t, 1, n) \in Seq(SliceType) /\ t = Append(SubSeq(t, 1, n), t[n + 1])
          /\ Len(SubSeq(t, 1, n)) = n /\ \A i \in 1..n : t[i] = SubSeq(t, 1, n)[i]
      OBVIOUS
    <3> QED
      BY <2>1, <3>1, Zenon
  <2>3. P(u)
    BY <1>2, <2>2, Zenon
  <2>4. n + 1 \notin At(u) /\ (t[n + 1].block = b => At(t) = At(u) \cup {n + 1})
        /\ (t[n + 1].block # b => At(t) = At(u))
    BY <2>2
  <2>5. Places(t, b) = Places(u, b) + Shows(x, b) /\ Places(u, b) \in Nat
    BY <2>2, PlacesOf, Zenon
  <2>6. Shows(x, b) = IF t[n + 1].block = b THEN 1 ELSE 0
    BY <2>1, Zenon DEF Shows
  <2> HIDE DEF At
  <2>7. CASE t[n + 1].block = b
    <3>1. IsFiniteSet(At(t)) /\ Cardinality(At(t)) = Cardinality(At(u)) + 1
      BY <2>3, <2>4, <2>7, FS_AddElement, ZenonT(60)
    <3> QED
      BY <2>3, <2>5, <2>6, <2>7, <3>1, Zenon
  <2>8. CASE t[n + 1].block # b
    <3>1. Places(t, b) = Places(u, b) + 0
      BY <2>5, <2>6, <2>8, Zenon
    <3>2. Places(t, b) = Places(u, b)
      BY <2>5, <3>1
    <3> QED
      BY <2>3, <2>4, <2>8, <3>2, Zenon
  <2> QED
    BY <2>7, <2>8
<1>3. Nat \subseteq T
  <2> HIDE DEF T
  <2> QED
    BY <1>1, <1>2, SetInduction
<1>4. P(s)
  BY <1>3
<1> QED
  BY <1>4, Zenon

-----------------------------------------------------------------------------
(***************************************************************************)
(* The heap.                                                               *)
(***************************************************************************)

\* Bytes are a sequence.
LEMMA MemoryType ==
  ASSUME NEW h \in HeapType, NEW s \in SliceType
  PROVE  Memory(h, s) \in Seq(Byte) /\ Len(Memory(h, s)) \in Nat
<1>1. Memory(h, s) \in Seq(Byte)
  <2>1. h.mem \in [Blocks -> Seq(Byte)]
    BY DEF HeapType
  <2>2. s.block \in Blocks => h.mem[s.block] \in Seq(Byte)
    BY <2>1
  <2>3. <<>> \in Seq(Byte)
    OBVIOUS
  <2> QED
    BY <2>2, <2>3, SliceAssumption, Zenon DEF Memory
<1> QED
  BY <1>1

\* One reference less; a block that is still counted keeps its bytes.
LEMMA UnrefIs ==
  ASSUME NEW h \in HeapType, NEW s \in SliceType, s.block \in Blocks => h.refs[s.block] > 0
  PROVE  /\ Unref(h, s) \in HeapType
         /\ \A b \in Blocks : Unref(h, s).refs[b] = h.refs[b] - Shows(s, b)
         /\ \A b \in Blocks : Unref(h, s).refs[b] > 0 => Unref(h, s).mem[b] = h.mem[b]
<1>1. h.refs \in [Blocks -> Nat] /\ h.mem \in [Blocks -> Seq(Byte)]
  BY DEF HeapType
<1>2. CASE s.block \notin Blocks
  <2>1. Unref(h, s) = h
    BY <1>2, Zenon DEF Unref
  <2>2. \A b \in Blocks : Shows(s, b) = 0
    BY <1>2, Zenon DEF Shows
  <2>3. \A b \in Blocks : h.refs[b] = h.refs[b] - 0
    BY <1>1
  <2> QED
    BY <2>1, <2>2, <2>3, Zenon
<1>3. CASE s.block \in Blocks
  <2>1. PICK a \in Blocks : a = s.block /\ h.refs[a] > 0
    BY <1>3, Zenon
  <2> DEFINE refs == [h.refs EXCEPT ![a] = @ - 1]
             mem == [h.mem EXCEPT ![a] = IF h.refs[a] = 1 THEN <<>> ELSE @]
  <2>2. PICK g : g = [refs |-> refs, mem |-> mem] /\ g = Unref(h, s)
    <3>1. PICK x, y, q : x = refs /\ y = mem /\ q = [h EXCEPT !.refs = x, !.mem = y]
      BY Zenon
    <3>2. q = [refs |-> x, mem |-> y]
      BY <3>1 DEF HeapType
    <3>3. [h EXCEPT !.refs[a] = @ - 1, !.mem[a] = IF h.refs[a] = 1 THEN <<>> ELSE @] = q
      BY <3>1 DEF HeapType
    <3> QED
      BY <1>3, <2>1, <3>1, <3>2, <3>3, Zenon DEF Unref
  <2>3. /\ refs \in [Blocks -> Nat] /\ mem \in [Blocks -> Seq(Byte)]
        /\ refs[a] = h.refs[a] - 1 /\ (\A b \in Blocks : b # a => refs[b] = h.refs[b])
        /\ (\A b \in Blocks : b # a => mem[b] = h.mem[b])
        /\ (h.refs[a] # 1 => mem[a] = h.mem[a])
    BY <1>1, <2>1
  <2> HIDE DEF refs, mem
  <2>4. g \in HeapType /\ g.refs = refs /\ g.mem = mem
    BY <2>2, <2>3 DEF HeapType
  <2>5. ASSUME NEW b \in Blocks PROVE refs[b] = h.refs[b] - Shows(s, b)
    <3>1. Shows(s, b) = IF b = a THEN 1 ELSE 0
      BY <2>1, Zenon DEF Shows
    <3> QED
      BY <1>1, <2>3, <3>1
  <2>6. ASSUME NEW b \in Blocks, refs[b] > 0 PROVE mem[b] = h.mem[b]
    BY <1>1, <2>3, <2>6
  <2> QED
    BY <2>2, <2>4, <2>5, <2>6, Zenon
<1> QED
  BY <1>2, <1>3

\* One reference more.
LEMMA RefIs ==
  ASSUME NEW h \in HeapType, NEW s \in SliceType
  PROVE  /\ Ref(h, s) \in HeapType /\ Ref(h, s).mem = h.mem
         /\ \A b \in Blocks : Ref(h, s).refs[b] = h.refs[b] + Shows(s, b)
<1>1. h.refs \in [Blocks -> Nat] /\ h.mem \in [Blocks -> Seq(Byte)]
  BY DEF HeapType
<1>2. CASE s.block \notin Blocks
  <2>1. Ref(h, s) = h
    BY <1>2, Zenon DEF Ref
  <2>2. \A b \in Blocks : Shows(s, b) = 0
    BY <1>2, Zenon DEF Shows
  <2>3. \A b \in Blocks : h.refs[b] = h.refs[b] + 0
    BY <1>1
  <2> QED
    BY <2>1, <2>2, <2>3, Zenon
<1>3. CASE s.block \in Blocks
  <2>1. PICK a \in Blocks : a = s.block
    BY <1>3, Zenon
  <2> DEFINE refs == [h.refs EXCEPT ![a] = @ + 1]
  <2>2. PICK g : g = [refs |-> refs, mem |-> h.mem] /\ g = Ref(h, s)
    <3>1. PICK x, q : x = refs /\ q = [h EXCEPT !.refs = x]
      BY Zenon
    <3>2. q = [refs |-> x, mem |-> h.mem]
      BY <3>1 DEF HeapType
    <3>3. [h EXCEPT !.refs[a] = @ + 1] = q
      BY <3>1 DEF HeapType
    <3> QED
      BY <1>3, <2>1, <3>1, <3>2, <3>3, Zenon DEF Ref
  <2>3. /\ refs \in [Blocks -> Nat] /\ refs[a] = h.refs[a] + 1
        /\ (\A b \in Blocks : b # a => refs[b] = h.refs[b])
    BY <1>1
  <2> HIDE DEF refs
  <2>4. g \in HeapType /\ g.refs = refs /\ g.mem = h.mem
    BY <1>1, <2>2, <2>3 DEF HeapType
  <2>5. ASSUME NEW b \in Blocks PROVE refs[b] = h.refs[b] + Shows(s, b)
    <3>1. Shows(s, b) = IF b = a THEN 1 ELSE 0
      BY <2>1, Zenon DEF Shows
    <3> QED
      BY <1>1, <2>3, <3>1
  <2> QED
    BY <2>2, <2>4, <2>5, Zenon
<1> QED
  BY <1>2, <1>3

\* A new block with its bytes, for one reference, or no block for no bytes.
LEMMA ConstructIs ==
  ASSUME NEW h \in HeapType, NEW bs \in Seq(Byte), NEW a \in Free(h), NEW r, r = Construct(h, bs, a)
  PROVE  /\ r.heap \in HeapType /\ r.slice \in SliceType
         /\ \A b \in Blocks : r.heap.refs[b] = h.refs[b] + Shows(r.slice, b)
         /\ \A b \in Blocks : h.refs[b] > 0 => r.heap.mem[b] = h.mem[b]
         /\ r.slice.off = 0 /\ r.slice.len = Len(bs) /\ Memory(r.heap, r.slice) = bs
<1>1. h.refs \in [Blocks -> Nat] /\ h.mem \in [Blocks -> Seq(Byte)] /\ a \in Blocks /\ h.refs[a] = 0
  BY DEF HeapType, Free
<1>2. CASE bs = <<>>
  <2>1. EmptySlice \in SliceType /\ EmptySlice.off = 0 /\ EmptySlice.len = 0 /\ EmptySlice.block = NoBlock
    BY DEF EmptySlice, SliceType
  <2>2. r = [heap |-> h, slice |-> EmptySlice]
    BY <1>2, Zenon DEF Construct
  <2>3. r.heap = h /\ r.slice = EmptySlice
    BY <2>2
  <2>4. NoBlock \notin Blocks /\ NoBlock # StaticBlock
    BY SliceAssumption
  <2>5. \A b \in Blocks : Shows(EmptySlice, b) = 0
    BY <2>1, <2>4, Zenon DEF Shows
  <2>6. Memory(h, EmptySlice) = <<>> /\ Len(<<>>) = 0
    BY <2>1, <2>4 DEF Memory
  <2>7. \A b \in Blocks : h.refs[b] = h.refs[b] + 0
    BY <1>1
  <2> QED
    BY <1>2, <2>1, <2>3, <2>5, <2>6, <2>7, Zenon
<1>3. CASE bs # <<>>
  <2> DEFINE refs == [h.refs EXCEPT ![a] = 1]
             mem == [h.mem EXCEPT ![a] = bs]
             s == [block |-> a, off |-> 0, len |-> Len(bs)]
  <2>1. PICK g : g = [refs |-> refs, mem |-> mem] /\ r = [heap |-> g, slice |-> s]
    <3>1. PICK x, y, q : x = refs /\ y = mem /\ q = [h EXCEPT !.refs = x, !.mem = y]
      BY Zenon
    <3>2. q = [refs |-> x, mem |-> y]
      BY <3>1 DEF HeapType
    <3>3. [h EXCEPT !.refs[a] = 1, !.mem[a] = bs] = q
      BY <3>1 DEF HeapType
    <3> QED
      BY <1>3, <3>1, <3>2, <3>3, Zenon DEF Construct
  <2>2. /\ refs \in [Blocks -> Nat] /\ mem \in [Blocks -> Seq(Byte)]
        /\ refs[a] = 1 /\ (\A b \in Blocks : b # a => refs[b] = h.refs[b])
        /\ mem[a] = bs /\ (\A b \in Blocks : b # a => mem[b] = h.mem[b])
    BY <1>1
  <2>3. s \in SliceType /\ s.block = a /\ s.off = 0 /\ s.len = Len(bs)
    BY <1>1 DEF SliceType
  <2> HIDE DEF refs, mem, s
  <2>4. r.heap = g /\ r.slice = s /\ g \in HeapType /\ g.refs = refs /\ g.mem = mem
    BY <2>1, <2>2 DEF HeapType
  <2>5. ASSUME NEW b \in Blocks PROVE refs[b] = h.refs[b] + Shows(s, b)
    <3>1. Shows(s, b) = IF b = a THEN 1 ELSE 0
      BY <2>3, Zenon DEF Shows
    <3> QED
      BY <1>1, <2>2, <3>1
  <2>6. ASSUME NEW b \in Blocks, h.refs[b] > 0 PROVE mem[b] = h.mem[b]
    BY <1>1, <2>2, <2>6
  <2>7. Memory(g, s) = bs
    BY <1>1, <2>2, <2>3, <2>4, Zenon DEF Memory
  <2> QED
    BY <2>3, <2>4, <2>5, <2>6, <2>7, Zenon
<1> QED
  BY <1>2, <1>3

\* Whoever is counted sees the same bytes when the counted blocks keep them.
LEMMA HeldMemory ==
  ASSUME NEW h, NEW g, NEW os \in [Objects -> SliceType], NEW ss \in Seq(SliceType),
         \A b \in Blocks : Holders(os, b) + Places(ss, b) > 0 => g.mem[b] = h.mem[b]
  PROVE  /\ \A o \in Objects : Memory(g, os[o]) = Memory(h, os[o])
         /\ Kept(h, g, ss)
<1>1. ASSUME NEW o \in Objects PROVE Memory(g, os[o]) = Memory(h, os[o])
  <2>1. CASE os[o].block \in Blocks
    <3>1. PICK b \in Blocks : b = os[o].block
      BY <2>1
    <3>2. Holders(os, b) \in Nat /\ Holders(os, b) > 0 /\ Places(ss, b) \in Nat
      <4>1. PICK x \in SliceType : x = os[o]
        OBVIOUS
      <4> QED
        BY <3>1, HoldersCount, PlacesOf, Zenon
    <3>3. Holders(os, b) + Places(ss, b) > 0
      BY <3>2
    <3> QED
      BY <2>1, <3>1, <3>3, Zenon DEF Memory
  <2>2. CASE os[o].block \notin Blocks
    BY <2>2, Zenon DEF Memory
  <2> QED
    BY <2>1, <2>2
<1>2. ASSUME NEW i \in 1..Len(ss) PROVE Memory(g, ss[i]) = Memory(h, ss[i])
  <2>1. CASE ss[i].block \in Blocks
    <3>1. PICK b \in Blocks : b = ss[i].block
      BY <2>1
    <3>2. Places(ss, b) \in Nat /\ Places(ss, b) > 0
      BY <3>1, PlacesCount, Zenon
    <3>3. Holders(os, b) \in Nat
      <4>1. {o \in Objects : os[o].block = b} \in SUBSET Objects
        OBVIOUS
      <4> QED
        BY <4>1, FS_Subset, FS_CardinalityType, StreamDataAssumption, Zenon DEF Holders
    <3>4. Holders(os, b) + Places(ss, b) > 0
      BY <3>2, <3>3
    <3> QED
      BY <2>1, <3>1, <3>4, Zenon DEF Memory
  <2>2. CASE ss[i].block \notin Blocks
    BY <2>2, Zenon DEF Memory
  <2> QED
    BY <2>1, <2>2
<1> QED
  BY <1>1, <1>2, Zenon DEF Kept

-----------------------------------------------------------------------------
(***************************************************************************)
(* Steps on what is owned.                                                 *)
(***************************************************************************)

\* What is owned, in parts.
LEMMA OwnedParts ==
  ASSUME NEW h, NEW os, NEW ss, Owned(h, os, ss)
  PROVE  /\ h \in HeapType /\ os \in [Objects -> SliceType] /\ ss \in Seq(SliceType)
         /\ h.refs \in [Blocks -> Nat]
         /\ \A b \in Blocks : /\ Holders(os, b) \in Nat /\ Places(ss, b) \in Nat
                              /\ h.refs[b] = Holders(os, b) + Places(ss, b)
         /\ \A o \in Objects : os[o] \in SliceType /\ Within(h, os[o])
         /\ \A i \in 1..Len(ss) : ss[i] \in SliceType /\ Within(h, ss[i])
<1>1. /\ h \in HeapType /\ os \in [Objects -> SliceType] /\ ss \in Seq(SliceType)
      /\ (\A b \in Blocks : h.refs[b] = Holders(os, b) + Places(ss, b))
      /\ (\A o \in Objects : Within(h, os[o])) /\ \A i \in 1..Len(ss) : Within(h, ss[i])
  BY Zenon DEF Owned
<1>2. h.refs \in [Blocks -> Nat]
  BY <1>1 DEF HeapType
<1>3. (\A o \in Objects : os[o] \in SliceType) /\ \A i \in 1..Len(ss) : ss[i] \in SliceType
  BY <1>1, ElementOfSeq
<1>4. ASSUME NEW b \in Blocks PROVE Holders(os, b) \in Nat /\ Places(ss, b) \in Nat
  <2>1. {o \in Objects : os[o].block = b} \in SUBSET Objects
    OBVIOUS
  <2>2. Holders(os, b) \in Nat
    BY <2>1, FS_Subset, FS_CardinalityType, StreamDataAssumption, Zenon DEF Holders
  <2>3. \A y \in SliceType : Marks(b)[y] \in Nat
    BY MarksType, Zenon
  <2> QED
    BY <1>1, <2>2, <2>3, WeighedNat, Zenon DEF Places
<1> QED
  BY <1>1, <1>2, <1>3, <1>4, Zenon

\* A slice that shows the same bytes is within them as before.
LEMMA WithinSame ==
  ASSUME NEW h, NEW g, NEW s, Within(h, s), Memory(g, s) = Memory(h, s)
  PROVE  Within(g, s)
BY Zenon DEF Within

\* Counts that are exact again, with the bytes of the counted blocks as they
\* were, for slices that were within these bytes.
LEMMA OwnChange ==
  ASSUME NEW h, NEW g \in HeapType, NEW os \in [Objects -> SliceType], NEW ss \in Seq(SliceType),
         \A b \in Blocks : g.refs[b] = Holders(os, b) + Places(ss, b),
         \A b \in Blocks : g.refs[b] > 0 => g.mem[b] = h.mem[b],
         \A o \in Objects : Within(h, os[o]), \A i \in 1..Len(ss) : Within(h, ss[i])
  PROVE  /\ Owned(g, os, ss) /\ Kept(h, g, ss)
         /\ \A o \in Objects : Memory(g, os[o]) = Memory(h, os[o])
<1>1. \A b \in Blocks : Holders(os, b) + Places(ss, b) > 0 => g.mem[b] = h.mem[b]
  BY Zenon
<1>2. Kept(h, g, ss) /\ \A o \in Objects : Memory(g, os[o]) = Memory(h, os[o])
  BY <1>1, HeldMemory, Zenon
<1>3. \A i \in 1..Len(ss) : Memory(g, ss[i]) = Memory(h, ss[i])
  BY <1>2, Zenon DEF Kept
<1>4. (\A o \in Objects : Within(g, os[o])) /\ \A i \in 1..Len(ss) : Within(g, ss[i])
  BY <1>2, <1>3, WithinSame, Zenon
<1> QED
  BY <1>2, <1>4, Zenon DEF Owned

\* What is owned with one slice more.
LEMMA OwnedAppend ==
  ASSUME NEW h, NEW os, NEW ss \in Seq(SliceType), NEW s \in SliceType
  PROVE  /\ Append(ss, s) \in Seq(SliceType)
         /\ \A b : Places(Append(ss, s), b) = Places(ss, b) + Shows(s, b)
         /\ (\A i \in 1..Len(Append(ss, s)) : Within(h, Append(ss, s)[i]))
              <=> (\A i \in 1..Len(ss) : Within(h, ss[i])) /\ Within(h, s)
<1>1. PICK n \in Nat : n = Len(ss)
  OBVIOUS
<1>2. /\ Append(ss, s) \in Seq(SliceType) /\ Len(Append(ss, s)) = Len(ss) + 1
      /\ Append(ss, s)[Len(ss) + 1] = s /\ \A i \in 1..Len(ss) : Append(ss, s)[i] = ss[i]
  BY AppendJoins
<1>3. PICK u \in Seq(SliceType) : /\ u = Append(ss, s) /\ Len(u) = n + 1
                                  /\ u[n + 1] = s /\ \A i \in 1..n : u[i] = ss[i]
  BY <1>1, <1>2, Zenon
<1>4. \A b : Places(Append(ss, s), b) = Places(ss, b) + Shows(s, b)
  BY PlacesOf, Zenon
<1>5. n + 1 \in 1..(n + 1) /\ (\A i \in 1..n : i \in 1..(n + 1)) /\ \A i \in 1..(n + 1) : i = n + 1 \/ i \in 1..n
  OBVIOUS
<1>6. (\A i \in 1..(n + 1) : Within(h, u[i])) <=> (\A i \in 1..n : Within(h, ss[i])) /\ Within(h, s)
  BY <1>3, <1>5, Zenon
<1> QED
  BY <1>1, <1>2, <1>3, <1>4, <1>6, Zenon

\* Another reference.
LEMMA OwnRef ==
  ASSUME NEW h, NEW os, NEW ss, Owned(h, os, ss), NEW s \in SliceType, Within(h, s)
  PROVE  /\ Owned(Ref(h, s), os, Append(ss, s)) /\ Kept(h, Ref(h, s), ss)
         /\ \A x : Memory(Ref(h, s), x) = Memory(h, x)
<1>1. PICK g \in HeapType : /\ g = Ref(h, s) /\ g.mem = h.mem
                            /\ \A b \in Blocks : g.refs[b] = h.refs[b] + Shows(s, b)
  BY OwnedParts, RefIs, Zenon
<1>2. \A x : Memory(g, x) = Memory(h, x)
  BY <1>1, Zenon DEF Memory
<1>3. /\ os \in [Objects -> SliceType] /\ ss \in Seq(SliceType)
      /\ (\A o \in Objects : Within(h, os[o])) /\ \A i \in 1..Len(ss) : Within(h, ss[i])
  BY OwnedParts, Zenon
<1>4. PICK u \in Seq(SliceType) : /\ u = Append(ss, s) /\ \A b : Places(u, b) = Places(ss, b) + Shows(s, b)
                                  /\ \A i \in 1..Len(u) : Within(h, u[i])
  BY <1>3, OwnedAppend, ZenonT(60)
<1>5. ASSUME NEW b \in Blocks PROVE g.refs[b] = Holders(os, b) + Places(u, b)
  <2>1. /\ g.refs[b] = h.refs[b] + Shows(s, b) /\ h.refs[b] = Holders(os, b) + Places(ss, b)
        /\ Places(u, b) = Places(ss, b) + Shows(s, b) /\ Holders(os, b) \in Nat /\ Places(ss, b) \in Nat
    <3>1. h.refs[b] = Holders(os, b) + Places(ss, b) /\ Holders(os, b) \in Nat /\ Places(ss, b) \in Nat
      BY OwnedParts, Zenon
    <3>2. g.refs[b] = h.refs[b] + Shows(s, b) /\ Places(u, b) = Places(ss, b) + Shows(s, b)
      BY <1>1, <1>4, Zenon
    <3> QED
      BY <3>1, <3>2, Zenon
  <2>2. Shows(s, b) \in Nat
    BY DEF Shows
  <2> QED
    BY <2>1, <2>2
<1>6. Owned(g, os, u)
  BY <1>1, <1>3, <1>4, <1>5, OwnChange, Zenon
<1> QED
  BY <1>1, <1>2, <1>4, <1>6, Zenon DEF Kept

\* A new block, or none.
LEMMA OwnConstruct ==
  ASSUME NEW h, NEW os, NEW ss, Owned(h, os, ss), NEW bs \in Seq(Byte), NEW a \in Free(h),
         NEW r, r = Construct(h, bs, a)
  PROVE  /\ Owned(r.heap, os, Append(ss, r.slice)) /\ Kept(h, r.heap, ss)
         /\ r.slice \in SliceType /\ r.slice.off = 0 /\ r.slice.len = Len(bs)
         /\ Memory(r.heap, r.slice) = bs
<1>1. PICK g \in HeapType, s \in SliceType :
        /\ g = r.heap /\ s = r.slice
        /\ \A b \in Blocks : g.refs[b] = h.refs[b] + Shows(s, b)
        /\ \A b \in Blocks : h.refs[b] > 0 => g.mem[b] = h.mem[b]
        /\ s.off = 0 /\ s.len = Len(bs) /\ Memory(g, s) = bs
  <2>1. h \in HeapType
    BY OwnedParts, Zenon
  <2>2. /\ r.heap \in HeapType /\ r.slice \in SliceType
        /\ (\A b \in Blocks : r.heap.refs[b] = h.refs[b] + Shows(r.slice, b))
        /\ (\A b \in Blocks : h.refs[b] > 0 => r.heap.mem[b] = h.mem[b])
        /\ r.slice.off = 0 /\ r.slice.len = Len(bs) /\ Memory(r.heap, r.slice) = bs
    BY <2>1, ConstructIs
  <2> QED
    BY <2>2, Zenon
<1>2. /\ os \in [Objects -> SliceType] /\ ss \in Seq(SliceType)
      /\ (\A o \in Objects : Within(h, os[o])) /\ (\A i \in 1..Len(ss) : Within(h, ss[i]))
      /\ \A b \in Blocks : h.refs[b] = Holders(os, b) + Places(ss, b)
  BY OwnedParts, ZenonT(60)
<1>3. Kept(h, g, ss) /\ \A o \in Objects : Memory(g, os[o]) = Memory(h, os[o])
  <2>1. \A b \in Blocks : Holders(os, b) + Places(ss, b) > 0 => g.mem[b] = h.mem[b]
    BY <1>1, <1>2, Zenon
  <2> QED
    BY <1>2, <2>1, HeldMemory, Zenon
<1>4. /\ \A o \in Objects : Within(g, os[o])
      /\ \A i \in 1..Len(ss) : Within(g, ss[i])
  BY <1>2, <1>3, WithinSame, Zenon DEF Kept
<1>5. Within(g, s)
  <2>1. s.off + s.len <= Len(bs)
    BY <1>1
  <2> QED
    BY <1>1, <2>1, Zenon DEF Within
<1>6. PICK u \in Seq(SliceType) : /\ u = Append(ss, s) /\ \A b : Places(u, b) = Places(ss, b) + Shows(s, b)
                                  /\ \A i \in 1..Len(u) : Within(g, u[i])
  <2>1. /\ Append(ss, s) \in Seq(SliceType)
        /\ \A b : Places(Append(ss, s), b) = Places(ss, b) + Shows(s, b)
    BY <1>2, OwnedAppend, Zenon
  <2>2. \A i \in 1..Len(Append(ss, s)) : Within(g, Append(ss, s)[i])
    BY <1>2, <1>4, <1>5, OwnedAppend, Zenon
  <2> QED
    BY <2>1, <2>2, Zenon
<1>7. ASSUME NEW b \in Blocks PROVE g.refs[b] = Holders(os, b) + Places(u, b)
  <2>1. /\ g.refs[b] = h.refs[b] + Shows(s, b) /\ h.refs[b] = Holders(os, b) + Places(ss, b)
        /\ Places(u, b) = Places(ss, b) + Shows(s, b) /\ Holders(os, b) \in Nat /\ Places(ss, b) \in Nat
    <3>1. h.refs[b] = Holders(os, b) + Places(ss, b) /\ Holders(os, b) \in Nat /\ Places(ss, b) \in Nat
      BY OwnedParts, Zenon
    <3>2. g.refs[b] = h.refs[b] + Shows(s, b) /\ Places(u, b) = Places(ss, b) + Shows(s, b)
      BY <1>1, <1>6, Zenon
    <3> QED
      BY <3>1, <3>2, Zenon
  <2>2. Shows(s, b) \in Nat
    BY DEF Shows
  <2> QED
    BY <2>1, <2>2
<1>8. Owned(g, os, u)
  BY <1>2, <1>4, <1>6, <1>7, Zenon DEF Owned
<1> QED
  BY <1>1, <1>3, <1>6, <1>8, Zenon

\* The empty slice shows no block and no bytes.
LEMMA EmptyIs ==
  /\ EmptySlice \in SliceType /\ EmptySlice.block = NoBlock /\ EmptySlice.len = 0 /\ EmptySlice.off = 0
  /\ \A b \in Blocks : Shows(EmptySlice, b) = 0
  /\ \A h : Memory(h, EmptySlice) = <<>> /\ Within(h, EmptySlice) /\ Unref(h, EmptySlice) = h
<1>1. EmptySlice \in SliceType /\ EmptySlice.off = 0 /\ EmptySlice.len = 0 /\ EmptySlice.block = NoBlock
  BY DEF EmptySlice, SliceType
<1>2. NoBlock \notin Blocks /\ NoBlock # StaticBlock
  BY SliceAssumption
<1>3. \A b \in Blocks : Shows(EmptySlice, b) = 0
  BY <1>1, <1>2, Zenon DEF Shows
<1>4. ASSUME NEW h PROVE Memory(h, EmptySlice) = <<>> /\ Unref(h, EmptySlice) = h
  BY <1>1, <1>2, Zenon DEF Memory, Unref
<1>5. 0 + 0 <= Len(<<>>)
  OBVIOUS
<1> QED
  BY <1>1, <1>3, <1>4, <1>5, Zenon DEF Within

\* Slices without a block are owned for nothing.
LEMMA OwnFree ==
  ASSUME NEW h, NEW os, NEW ss, Owned(h, os, ss), NEW s \in SliceType, s.block \notin Blocks, Within(h, s)
  PROVE  Owned(h, os, Append(ss, s))
<1>1. Ref(h, s) = h
  BY Zenon DEF Ref
<1> QED
  BY <1>1, OwnRef, Zenon

\* A slice goes with its reference.
LEMMA OwnDrop ==
  ASSUME NEW h, NEW os, NEW u, NEW ss \in Seq(SliceType), NEW s \in SliceType, Owned(h, os, u),
         \A b \in Blocks : Places(u, b) = Places(ss, b) + Shows(s, b),
         \A i \in 1..Len(ss) : Within(h, ss[i])
  PROVE  /\ Owned(Unref(h, s), os, ss) /\ Kept(h, Unref(h, s), ss)
         /\ KeptObjects(h, Unref(h, s), os)
<1>1. /\ h \in HeapType /\ os \in [Objects -> SliceType] /\ h.refs \in [Blocks -> Nat]
      /\ \A o \in Objects : Within(h, os[o])
  BY OwnedParts, Zenon
<1>2. ASSUME NEW b \in Blocks
      PROVE  /\ h.refs[b] = Holders(os, b) + (Places(ss, b) + Shows(s, b)) /\ Holders(os, b) \in Nat
             /\ Places(ss, b) \in Nat /\ Shows(s, b) \in Nat
  <2>1. h.refs[b] = Holders(os, b) + Places(u, b) /\ Holders(os, b) \in Nat
    BY OwnedParts, ZenonT(60)
  <2>2. Places(u, b) = Places(ss, b) + Shows(s, b)
    BY Zenon
  <2>3. Places(ss, b) \in Nat /\ Shows(s, b) \in Nat
    BY PlacesOf, Zenon
  <2> QED
    BY <2>1, <2>2, <2>3, Zenon
<1>3. s.block \in Blocks => h.refs[s.block] > 0
  <2> SUFFICES ASSUME s.block \in Blocks PROVE h.refs[s.block] > 0
    OBVIOUS
  <2>1. PICK b \in Blocks : b = s.block
    OBVIOUS
  <2>2. Shows(s, b) = 1
    BY <2>1, Zenon DEF Shows
  <2>3. h.refs[b] > 0
    BY <1>2, <2>2
  <2> QED
    BY <2>1, <2>3, Zenon
<1>4. PICK g \in HeapType : /\ g = Unref(h, s) /\ (\A b \in Blocks : g.refs[b] = h.refs[b] - Shows(s, b))
                            /\ \A b \in Blocks : g.refs[b] > 0 => g.mem[b] = h.mem[b]
  BY <1>1, <1>3, UnrefIs, Zenon
<1>5. ASSUME NEW b \in Blocks PROVE g.refs[b] = Holders(os, b) + Places(ss, b)
  <2>1. g.refs[b] = h.refs[b] - Shows(s, b)
    BY <1>4, Zenon
  <2> QED
    BY <1>2, <2>1
<1>6. Owned(g, os, ss) /\ Kept(h, g, ss) /\ KeptObjects(h, g, os)
  BY <1>1, <1>4, <1>5, OwnChange, Zenon DEF KeptObjects
<1> QED
  BY <1>4, <1>6, Zenon

\* The last one.
LEMMA OwnDropLast ==
  ASSUME NEW h, NEW os, NEW ss \in Seq(SliceType), NEW s \in SliceType, Owned(h, os, Append(ss, s))
  PROVE  /\ Owned(Unref(h, s), os, ss) /\ Kept(h, Unref(h, s), ss)
         /\ KeptObjects(h, Unref(h, s), os)
<1>1. \A b \in Blocks : Places(Append(ss, s), b) = Places(ss, b) + Shows(s, b)
  BY OwnedAppend, Zenon
<1>2. \A i \in 1..Len(ss) : Within(h, ss[i])
  <2>1. \A i \in 1..Len(Append(ss, s)) : Within(h, Append(ss, s)[i])
    BY OwnedParts, Zenon
  <2> QED
    BY <2>1, OwnedAppend, Zenon
<1> QED
  BY <1>1, <1>2, OwnDrop, Zenon

\* An object with another slice.
LEMMA ObjectSet ==
  ASSUME NEW os \in [Objects -> SliceType], NEW o \in Objects, NEW s \in SliceType,
         NEW ps, ps = [os EXCEPT ![o] = s]
  PROVE  /\ os[o] \in SliceType /\ ps \in [Objects -> SliceType]
         /\ ps[o] = s /\ \A p \in Objects : p # o => ps[p] = os[p]
OBVIOUS

\* An object and the last slice change places.
LEMMA OwnSwap ==
  ASSUME NEW h, NEW os, NEW ss \in Seq(SliceType), NEW s \in SliceType, Owned(h, os, Append(ss, s)),
         NEW o \in Objects, NEW ps, ps = [os EXCEPT ![o] = s]
  PROVE  Owned(h, ps, Append(ss, os[o])) /\ os[o] \in SliceType
<1>1. h \in HeapType /\ os \in [Objects -> SliceType] /\ \A p \in Objects : Within(h, os[p])
  BY OwnedParts, Zenon
<1>2. os[o] \in SliceType /\ ps \in [Objects -> SliceType] /\ ps[o] = s /\ \A p \in Objects : p # o => ps[p] = os[p]
  BY <1>1, ObjectSet
<1>3. PICK t \in SliceType : t = os[o]
  BY <1>2, Zenon
<1>4. PICK u \in Seq(SliceType) : /\ u = Append(ss, s) /\ \A b : Places(u, b) = Places(ss, b) + Shows(s, b)
  BY OwnedAppend, Zenon
<1>5. PICK v \in Seq(SliceType) : /\ v = Append(ss, t) /\ \A b : Places(v, b) = Places(ss, b) + Shows(t, b)
  BY OwnedAppend, Zenon
<1>6. (\A i \in 1..Len(ss) : Within(h, ss[i])) /\ Within(h, s)
  <2>1. \A i \in 1..Len(Append(ss, s)) : Within(h, Append(ss, s)[i])
    BY OwnedParts, Zenon
  <2> QED
    BY <2>1, OwnedAppend, Zenon
<1>7. \A i \in 1..Len(v) : Within(h, v[i])
  <2>1. Within(h, t)
    BY <1>1, <1>3, Zenon
  <2>2. \A i \in 1..Len(Append(ss, t)) : Within(h, Append(ss, t)[i])
    BY <1>6, <2>1, OwnedAppend, Zenon
  <2> QED
    BY <1>5, <2>2, Zenon
<1>8. \A p \in Objects : Within(h, ps[p])
  <2>1. ASSUME NEW p \in Objects PROVE Within(h, ps[p])
    <3>1. CASE p = o
      BY <1>2, <1>6, <3>1, Zenon
    <3>2. CASE p # o
      BY <1>1, <1>2, <3>2, Zenon
    <3> QED
      BY <3>1, <3>2, Zenon
  <2> QED
    BY <2>1, Zenon
<1>9. ASSUME NEW b \in Blocks PROVE h.refs[b] = Holders(ps, b) + Places(v, b)
  <2>1. h.refs[b] = Holders(os, b) + Places(u, b) /\ Holders(os, b) \in Nat
    BY <1>4, OwnedParts, ZenonT(60)
  <2>2. Places(u, b) = Places(ss, b) + Shows(s, b) /\ Places(v, b) = Places(ss, b) + Shows(t, b)
    BY <1>4, <1>5, Zenon
  <2>3. Places(ss, b) \in Nat /\ Shows(s, b) \in Nat
    BY PlacesOf, Zenon
  <2>4. Shows(t, b) \in Nat
    BY PlacesOf, Zenon
  <2>5. Holders(ps, b) \in Nat /\ Holders(ps, b) + Shows(t, b) = Holders(os, b) + Shows(s, b)
    BY <1>1, <1>3, HoldersChange
  <2>6. PICK i \in Nat, j \in Nat, k \in Nat, l \in Nat, m \in Nat :
           /\ i = Holders(os, b) /\ j = Places(ss, b) /\ k = Shows(s, b)
           /\ l = Holders(ps, b) /\ m = Shows(t, b)
    BY <2>1, <2>3, <2>4, <2>5, Zenon
  <2>7. l + m = i + k
    BY <2>5, <2>6, Zenon
  <2>8. i + (j + k) = l + (j + m)
    BY <2>7
  <2> QED
    BY <2>1, <2>2, <2>6, <2>8, Zenon
<1>10. Owned(h, ps, v)
  BY <1>1, <1>2, <1>7, <1>8, <1>9, Zenon DEF Owned
<1> QED
  BY <1>3, <1>5, <1>10, Zenon

\* An object takes over the last slice and lets go of its own.
LEMMA OwnReceive ==
  ASSUME NEW h, NEW os, NEW ss \in Seq(SliceType), NEW s \in SliceType, Owned(h, os, Append(ss, s)),
         NEW o \in Objects, NEW ps, ps = [os EXCEPT ![o] = s]
  PROVE  Owned(Unref(h, os[o]), ps, ss) /\ Kept(h, Unref(h, os[o]), ss)
<1>1. Owned(h, ps, Append(ss, os[o])) /\ os[o] \in SliceType
  BY OwnSwap
<1> QED
  BY <1>1, OwnDropLast, Zenon

\* An object shows less of its block.
LEMMA OwnCut ==
  ASSUME NEW h, NEW os, NEW ss, Owned(h, os, ss), NEW o \in Objects, NEW s \in SliceType,
         s.block = os[o].block, Within(h, s), NEW ps, ps = [os EXCEPT ![o] = s]
  PROVE  Owned(h, ps, ss)
<1>1. /\ h \in HeapType /\ os \in [Objects -> SliceType] /\ ss \in Seq(SliceType)
      /\ (\A p \in Objects : Within(h, os[p])) /\ \A i \in 1..Len(ss) : Within(h, ss[i])
  BY OwnedParts, Zenon
<1>2. os[o] \in SliceType /\ ps \in [Objects -> SliceType] /\ ps[o] = s /\ \A p \in Objects : p # o => ps[p] = os[p]
  BY <1>1, ObjectSet
<1>3. ASSUME NEW b \in Blocks PROVE h.refs[b] = Holders(ps, b) + Places(ss, b)
  <2>1. h.refs[b] = Holders(os, b) + Places(ss, b) /\ Holders(os, b) \in Nat
    BY OwnedParts, ZenonT(60)
  <2>2. Holders(ps, b) \in Nat /\ Holders(ps, b) + Shows(os[o], b) = Holders(os, b) + Shows(s, b)
    BY <1>1, HoldersChange
  <2>3. Shows(os[o], b) = Shows(s, b)
    BY Zenon DEF Shows
  <2>4. Shows(s, b) \in Nat
    BY DEF Shows
  <2>5. Holders(ps, b) = Holders(os, b)
    BY <2>1, <2>2, <2>3, <2>4
  <2> QED
    BY <2>1, <2>5, Zenon
<1>4. ASSUME NEW p \in Objects PROVE Within(h, ps[p])
  <2>1. CASE p = o
    BY <1>2, <2>1, Zenon
  <2>2. CASE p # o
    BY <1>1, <1>2, <2>2, Zenon
  <2> QED
    BY <2>1, <2>2, Zenon
<1> QED
  BY <1>1, <1>2, <1>3, <1>4, Zenon DEF Owned

-----------------------------------------------------------------------------
\* Counts that may be any number, as far as the order of the steps goes.
LooseHeap == [refs : [Blocks -> Int], mem : [Blocks -> Seq(Byte)]]

\* One reference less, whatever the count.
LEMMA UnrefLoose ==
  ASSUME NEW h \in LooseHeap, NEW s \in SliceType
  PROVE  Unref(h, s) \in LooseHeap
<1>1. h.refs \in [Blocks -> Int] /\ h.mem \in [Blocks -> Seq(Byte)]
  BY DEF LooseHeap
<1>2. CASE s.block \notin Blocks
  BY <1>2, Zenon DEF Unref
<1>3. CASE s.block \in Blocks
  <2>1. PICK a \in Blocks : a = s.block
    BY <1>3, Zenon
  <2> DEFINE refs == [h.refs EXCEPT ![a] = @ - 1]
             mem == [h.mem EXCEPT ![a] = IF h.refs[a] = 1 THEN <<>> ELSE @]
  <2>2. PICK g : g = [refs |-> refs, mem |-> mem] /\ g = Unref(h, s)
    <3>1. PICK x, y, q : x = refs /\ y = mem /\ q = [h EXCEPT !.refs = x, !.mem = y]
      BY Zenon
    <3>2. q = [refs |-> x, mem |-> y]
      BY <3>1 DEF LooseHeap
    <3>3. [h EXCEPT !.refs[a] = @ - 1, !.mem[a] = IF h.refs[a] = 1 THEN <<>> ELSE @] = q
      BY <3>1 DEF LooseHeap
    <3> QED
      BY <1>3, <2>1, <3>1, <3>2, <3>3, Zenon DEF Unref
  <2>3. refs \in [Blocks -> Int] /\ mem \in [Blocks -> Seq(Byte)]
    BY <1>1, <2>1
  <2> HIDE DEF refs, mem
  <2> QED
    BY <2>2, <2>3 DEF LooseHeap
<1> QED
  BY <1>2, <1>3

\* UnrefAll lets the slices go one after the other.
LEMMA UnrefAllSteps ==
  ASSUME NEW h \in HeapType, NEW tt \in Seq(SliceType)
  PROVE  \E f : /\ f[0] = h /\ f[Len(tt)] = UnrefAll(h, tt)
                /\ \A i \in 1..Len(tt) : f[i] = Unref(f[i - 1], tt[i])
<1>1. PICK n \in Nat : n = Len(tt)
  OBVIOUS
<1>2. \A i \in 1..n : tt[i] \in SliceType
  BY <1>1, ElementOfSeq
<1>3. h \in LooseHeap
  BY DEF HeapType, LooseHeap
<1> DEFINE next == [i \in 1..n |-> [g \in LooseHeap |-> Unref(g, tt[i])]]
<1>4. next \in [1..n -> [LooseHeap -> LooseHeap]]
  <2>1. \A i \in 1..n : [g \in LooseHeap |-> Unref(g, tt[i])] \in [LooseHeap -> LooseHeap]
    BY <1>2, UnrefLoose
  <2> QED
    BY <2>1
<1>5. \A i \in 1..n : \A g \in LooseHeap : next[i][g] = Unref(g, tt[i])
  OBVIOUS
<1> HIDE DEF next
<1>6. PICK f : Steps(f, LooseHeap, h, next, n)
  BY <1>3, <1>4, Iterate, Zenon
<1>7. f \in [0..n -> LooseHeap] /\ f[0] = h /\ \A i \in 1..n : f[i] = next[i][f[i - 1]]
  BY <1>6, Zenon DEF Steps
<1>8. \A i \in 1..n : f[i] = Unref(f[i - 1], tt[i])
  <2>1. \A i \in 1..n : f[i - 1] \in LooseHeap
    BY <1>7
  <2> QED
    BY <1>5, <1>7, <2>1, Zenon
<1> DEFINE Is(u) == u = [i \in 0..n |-> IF i = 0 THEN h ELSE Unref(u[i - 1], tt[i])]
           u == CHOOSE v : Is(v)
<1>9. Is(f)
  <2>1. ASSUME NEW i \in 0..n PROVE f[i] = IF i = 0 THEN h ELSE Unref(f[i - 1], tt[i])
    BY <1>7, <1>8
  <2> QED
    BY <1>7, <2>1
<1>10. Is(u)
  <2> HIDE DEF Is
  <2> QED
    BY <1>9, Zenon
<1>11. UnrefAll(h, tt) = u[n]
  BY <1>1, Zenon DEF UnrefAll
<1> HIDE DEF u
<1>12. u[0] = h /\ \A i \in 1..n : u[i] = Unref(u[i - 1], tt[i])
  BY <1>10
<1> QED
  BY <1>1, <1>11, <1>12, Zenon

\* The first slices of a sequence go with their references.
LEMMA OwnUnrefAll ==
  ASSUME NEW h, NEW os, NEW u, Owned(h, os, u), NEW k \in 0..Len(u)
  PROVE  LET ss == SubSeq(u, k + 1, Len(u))
             g == UnrefAll(h, SubSeq(u, 1, k))
         IN  Owned(g, os, ss) /\ Kept(h, g, ss)
<1>1. /\ h \in HeapType /\ os \in [Objects -> SliceType] /\ u \in Seq(SliceType)
      /\ \A i \in 1..Len(u) : Within(h, u[i])
  BY OwnedParts, Zenon
<1>2. PICK n \in Nat : n = Len(u) /\ k \in 0..n
  BY <1>1
<1>3. PICK tt \in Seq(SliceType) : tt = SubSeq(u, 1, k) /\ Len(tt) = k /\ \A i \in 1..k : tt[i] = u[i]
  <2>1. SubSeq(u, 1, k) \in Seq(SliceType) /\ Len(SubSeq(u, 1, k)) = k /\ \A i \in 1..k : SubSeq(u, 1, k)[i] = u[i]
    BY <1>1, PartIs
  <2> QED
    BY <2>1, Zenon
<1>4. PICK f : f[0] = h /\ f[k] = UnrefAll(h, tt) /\ \A i \in 1..k : f[i] = Unref(f[i - 1], u[i])
  <2>1. PICK f : /\ f[0] = h /\ f[Len(tt)] = UnrefAll(h, tt)
                 /\ \A i \in 1..Len(tt) : f[i] = Unref(f[i - 1], tt[i])
    BY <1>1, UnrefAllSteps, Zenon
  <2> QED
    BY <1>3, <2>1, Zenon
<1> DEFINE Rest(j) == SubSeq(u, j + 1, Len(u))
           P(j) == Owned(f[j], os, Rest(j)) /\ \A i \in (j + 1)..n : Memory(f[j], u[i]) = Memory(h, u[i])
           T == {j \in Nat : j <= k => P(j)}
<1>5. 0 \in T
  <2>1. Rest(0) = u
    BY <1>1
  <2> HIDE DEF Rest
  <2> QED
    BY <1>4, <2>1
<1>6. ASSUME NEW j \in Nat, j \in T PROVE j + 1 \in T
  <2> SUFFICES ASSUME j + 1 <= k PROVE P(j + 1)
    OBVIOUS
  <2>1. j < n /\ j + 1 \in 1..k /\ j + 1 \in 1..n /\ j + 1 \in 0..n /\ (j + 1) - 1 = j /\ P(j)
    BY <1>2, <1>6
  <2>2. PICK x \in SliceType, r \in Seq(SliceType) : x = u[j + 1] /\ r = Rest(j + 1) /\ Rest(j) = <<x>> \o r
    <3>1. j < Len(u)
      BY <1>2, <2>1, Zenon
    <3>2. /\ u[j + 1] \in SliceType /\ SubSeq(u, (j + 1) + 1, Len(u)) \in Seq(SliceType)
          /\ SubSeq(u, j + 1, Len(u)) = <<u[j + 1]>> \o SubSeq(u, (j + 1) + 1, Len(u))
      BY <1>1, <3>1, RestIs
    <3> QED
      BY <3>2, Zenon
  <2>3. Len(r) = n - (j + 1) /\ \A i \in 1..(n - (j + 1)) : r[i] = u[(j + 1) + i]
    <3>1. j + 1 \in 0..Len(u)
      BY <1>2, <2>1, Zenon
    <3>2. /\ Len(SubSeq(u, (j + 1) + 1, Len(u))) = Len(u) - (j + 1)
          /\ \A i \in 1..(Len(u) - (j + 1)) : SubSeq(u, (j + 1) + 1, Len(u))[i] = u[(j + 1) + i]
      BY <1>1, <3>1, PartIs
    <3> QED
      BY <1>2, <2>2, <3>2, Zenon
  <2>4. f[j + 1] = Unref(f[j], x)
    BY <1>4, <2>1, <2>2, Zenon
  <2>5. \A i \in 1..(n - (j + 1)) : (j + 1) + i \in (j + 1)..n /\ (j + 1) + i \in 1..n
    BY <2>1
  <2>6. \A i \in 1..(n - (j + 1)) : Within(f[j], r[i]) /\ Memory(f[j], r[i]) = Memory(h, r[i])
    <3>1. ASSUME NEW i \in 1..(n - (j + 1)) PROVE Within(f[j], r[i]) /\ Memory(f[j], r[i]) = Memory(h, r[i])
      <4>1. PICK m \in (j + 1)..n : m = (j + 1) + i /\ m \in 1..n /\ r[i] = u[m]
        BY <2>3, <2>5, Zenon
      <4>2. Memory(f[j], u[m]) = Memory(h, u[m]) /\ Within(h, u[m])
        BY <1>1, <1>2, <2>1, <4>1, Zenon
      <4> QED
        BY <4>1, <4>2, WithinSame, Zenon
    <3> QED
      BY <3>1, Zenon
  <2>7. Owned(f[j], os, Rest(j))
    BY <2>1, Zenon
  <2> HIDE DEF Rest
  <2>8. \A b \in Blocks : Places(Rest(j), b) = Places(r, b) + Shows(x, b)
    <3>1. ASSUME NEW b \in Blocks PROVE Places(<<x>> \o r, b) = Places(r, b) + Shows(x, b)
      <4>1. <<x>> \in Seq(SliceType)
        OBVIOUS
      <4>2. Places(<<x>> \o r, b) = Places(<<x>>, b) + Places(r, b) /\ Places(<<x>>, b) = Shows(x, b)
        BY <4>1, PlacesOf, Zenon
      <4>3. Places(r, b) \in Nat /\ Shows(x, b) \in Nat
        BY PlacesOf, Zenon
      <4> QED
        BY <4>2, <4>3
    <3> QED
      BY <2>2, <3>1, Zenon
  <2>9. Owned(f[j + 1], os, r) /\ Kept(f[j], f[j + 1], r)
    <3>1. \A i \in 1..Len(r) : Within(f[j], r[i])
      BY <2>3, <2>6, Zenon
    <3>2. Owned(Unref(f[j], x), os, r) /\ Kept(f[j], Unref(f[j], x), r)
      BY <2>7, <2>8, <3>1, OwnDrop, Zenon
    <3> QED
      BY <2>4, <3>2, Zenon
  <2>10. ASSUME NEW i \in ((j + 1) + 1)..n PROVE Memory(f[j + 1], u[i]) = Memory(h, u[i])
    <3>1. PICK m \in 1..(n - (j + 1)) : (j + 1) + m = i
      <4>1. i - (j + 1) \in 1..(n - (j + 1)) /\ (j + 1) + (i - (j + 1)) = i
        BY <2>1
      <4> QED
        BY <4>1, Zenon
    <3>2. r[m] = u[i] /\ Memory(f[j], r[m]) = Memory(h, r[m]) /\ Memory(f[j + 1], r[m]) = Memory(f[j], r[m])
      BY <2>3, <2>6, <2>9, <3>1, Zenon DEF Kept
    <3> QED
      BY <3>2, Zenon
  <2> QED
    BY <2>2, <2>9, <2>10, Zenon
<1>7. Nat \subseteq T
  <2> HIDE DEF T
  <2> QED
    BY <1>5, <1>6, SetInduction
<1>8. P(k)
  BY <1>2, <1>7
<1>9. Kept(h, f[k], Rest(k))
  <2>1. /\ Len(SubSeq(u, k + 1, Len(u))) = Len(u) - k
        /\ \A i \in 1..(Len(u) - k) : SubSeq(u, k + 1, Len(u))[i] = u[k + i]
    BY <1>1, PartIs
  <2>2. \A i \in 1..(n - k) : k + i \in (k + 1)..n
    BY <1>2
  <2> QED
    BY <1>2, <1>8, <2>1, <2>2, Zenon DEF Kept
<1> QED
  BY <1>3, <1>4, <1>8, <1>9, Zenon

-----------------------------------------------------------------------------
(***************************************************************************)
(* What slices show.                                                       *)
(***************************************************************************)

\* Cutting a slice at either end.
LEMMA CutIs ==
  ASSUME NEW s \in SliceType, NEW n \in Nat
  PROVE  LET k == IF n <= s.len THEN n ELSE s.len IN
         /\ SlicePopFront(s, n) \in SliceType /\ SlicePopFront(s, n).block = s.block
         /\ SlicePopFront(s, n).off = s.off + k /\ SlicePopFront(s, n).len = s.len - k
         /\ SlicePopBack(s, n) \in SliceType /\ SlicePopBack(s, n).block = s.block
         /\ SlicePopBack(s, n).off = s.off /\ SlicePopBack(s, n).len = s.len - k
<1>1. s.off \in Nat /\ s.len \in Nat /\ s.block \in Blocks \cup {NoBlock, StaticBlock}
  BY DEF SliceType
<1>2. PICK k \in Nat : k = Min({n, s.len}) /\ k = IF n <= s.len THEN n ELSE s.len
  BY <1>1, LesserOf
<1>3. PICK i \in Nat, l \in Nat : i = s.off + k /\ l = s.len - k
  BY <1>1, <1>2
<1>4. PICK t : t = [s EXCEPT !.off = i, !.len = l]
  BY Zenon
<1>5. t = SlicePopFront(s, n)
  <2>1. [s EXCEPT !.off = @ + k, !.len = @ - k] = t
    BY <1>3, <1>4 DEF SliceType
  <2> QED
    BY <1>2, <2>1 DEF SlicePopFront
<1>6. PICK u : u = [s EXCEPT !.len = l]
  BY Zenon
<1>7. u = SlicePopBack(s, n) /\ u = [s EXCEPT !.off = s.off, !.len = l]
  <2>1. [s EXCEPT !.len = @ - k] = u /\ u = [s EXCEPT !.off = s.off, !.len = l]
    BY <1>3, <1>6 DEF SliceType
  <2> QED
    BY <1>2, <2>1 DEF SlicePopBack
<1>8. t \in SliceType /\ t.block = s.block /\ t.off = i /\ t.len = l
  BY <1>4 DEF SliceType
<1>9. u \in SliceType /\ u.block = s.block /\ u.off = s.off /\ u.len = l
  BY <1>1, <1>7 DEF SliceType
<1> QED
  BY <1>2, <1>3, <1>5, <1>7, <1>8, <1>9, Zenon

\* Slices of one block have the same bytes behind them.
LEMMA BlockMemory ==
  ASSUME NEW s, NEW t, s.block = t.block
  PROVE  \A h : Memory(h, s) = Memory(h, t)
BY Zenon DEF Memory

\* A cut slice is within its block.
LEMMA CutWithin ==
  ASSUME NEW h \in HeapType, NEW s \in SliceType, NEW n \in Nat, Within(h, s)
  PROVE  Within(h, SlicePopFront(s, n)) /\ Within(h, SlicePopBack(s, n))
<1>1. PICK i \in Nat, l \in Nat, m \in Nat : i = s.off /\ l = s.len /\ m = Len(Memory(h, s)) /\ i + l <= m
  <2>1. s.off \in Nat /\ s.len \in Nat
    BY DEF SliceType
  <2> QED
    BY <2>1, MemoryType, Zenon DEF Within
<1>2. PICK k \in Nat : k = IF n <= l THEN n ELSE l
  OBVIOUS
<1>3. /\ SlicePopFront(s, n).block = s.block /\ SlicePopBack(s, n).block = s.block
      /\ SlicePopFront(s, n).off = i + k /\ SlicePopFront(s, n).len = l - k
      /\ SlicePopBack(s, n).off = i /\ SlicePopBack(s, n).len = l - k
  BY <1>1, <1>2, CutIs, Zenon
<1>4. (i + k) + (l - k) <= m /\ i + (l - k) <= m
  <2>1. i + l <= m
    BY <1>1, Zenon
  <2> QED
    BY <1>2, <2>1
<1>5. Memory(h, SlicePopFront(s, n)) = Memory(h, s) /\ Memory(h, SlicePopBack(s, n)) = Memory(h, s)
  BY <1>3, BlockMemory, Zenon
<1> QED
  BY <1>1, <1>3, <1>4, <1>5, Zenon DEF Within

\* What a slice shows, byte by byte.
LEMMA ContentIs ==
  ASSUME NEW h \in HeapType, NEW s \in SliceType, Within(h, s)
  PROVE  /\ Content(h, s) \in Seq(Byte) /\ Len(Content(h, s)) = s.len
         /\ Content(h, s) = SubSeq(Memory(h, s), s.off + 1, s.off + s.len)
<1>1. PICK m \in Seq(Byte), k \in Nat : m = Memory(h, s) /\ k = Len(m)
  BY MemoryType, Zenon
<1>2. PICK i \in Nat, l \in Nat : i = s.off /\ l = s.len /\ i + l <= k
  <2>1. s.off \in Nat /\ s.len \in Nat
    BY DEF SliceType
  <2> QED
    BY <1>1, <2>1, Zenon DEF Within
<1>3. Min({i + l, k}) = i + l
  <2>1. i + l \in Nat
    OBVIOUS
  <2> QED
    BY <1>2, <2>1, LesserOf, Zenon
<1>4. Content(h, s) = SubSeq(m, i + 1, i + l)
  BY <1>1, <1>2, <1>3, Zenon DEF Content
<1>5. SubSeq(m, i + 1, i + l) \in Seq(Byte) /\ Len(SubSeq(m, i + 1, i + l)) = l
  <2>1. i + l <= Len(m)
    BY <1>1, <1>2, Zenon
  <2>2. \A j \in (i + 1)..(i + l) : m[j] \in Byte
    BY <2>1
  <2>3. SubSeq(m, i + 1, i + l) \in Seq(Byte)
    BY <2>2
  <2>4. Len(SubSeq(m, i + 1, i + l)) = l
    BY <2>1
  <2> QED
    BY <2>3, <2>4
<1> QED
  BY <1>1, <1>2, <1>4, <1>5, Zenon

\* It depends on the bytes behind the slice only.
LEMMA ContentSame ==
  ASSUME NEW h, NEW g, NEW s, Memory(g, s) = Memory(h, s)
  PROVE  Content(g, s) = Content(h, s)
BY Zenon DEF Content

\* In any heap it is a sequence of bytes.
LEMMA ContentType ==
  ASSUME NEW h \in HeapType, NEW s \in SliceType
  PROVE  Content(h, s) \in Seq(Byte)
<1>1. PICK m \in Seq(Byte), k \in Nat : m = Memory(h, s) /\ k = Len(m)
  BY MemoryType, Zenon
<1>2. PICK i \in Nat, l \in Nat : i = s.off /\ l = s.len
  BY DEF SliceType
<1>3. PICK j \in Nat : j = Min({i + l, k}) /\ j <= k
  <2>1. i + l \in Nat
    OBVIOUS
  <2>2. Min({i + l, k}) \in Nat /\ Min({i + l, k}) = IF i + l <= k THEN i + l ELSE k
    BY <2>1, LesserOf, Zenon
  <2> QED
    BY <2>2
<1>4. Content(h, s) = SubSeq(m, i + 1, j)
  BY <1>1, <1>2, <1>3, Zenon DEF Content
<1>5. SubSeq(m, i + 1, j) \in Seq(Byte)
  <2>1. j <= Len(m) /\ Len(m) \in Nat
    BY <1>1, <1>3, Zenon
  <2>2. CASE i + 1 > j
    BY <2>2
  <2>3. CASE i + 1 <= j
    BY <2>1, <2>3
  <2> QED
    BY <2>2, <2>3
<1> QED
  BY <1>4, <1>5, Zenon

\* Joined shows the slices one after the other.
LEMMA JoinedSteps ==
  ASSUME NEW h \in HeapType, NEW ss \in Seq(SliceType)
  PROVE  \E f \in [0..Len(ss) -> Seq(Byte)] :
           /\ f[0] = <<>> /\ f[Len(ss)] = Joined(h, ss)
           /\ \A i \in 1..Len(ss) : f[i] = f[i - 1] \o Content(h, ss[i])
<1>1. PICK n \in Nat : n = Len(ss)
  OBVIOUS
<1>2. \A i \in 1..n : Content(h, ss[i]) \in Seq(Byte)
  <2>1. \A i \in 1..n : ss[i] \in SliceType
    BY <1>1, ElementOfSeq
  <2> QED
    BY <2>1, ContentType, Zenon
<1>3. <<>> \in Seq(Byte)
  OBVIOUS
<1> DEFINE next == [i \in 1..n |-> [a \in Seq(Byte) |-> a \o Content(h, ss[i])]]
<1>4. next \in [1..n -> [Seq(Byte) -> Seq(Byte)]]
  <2>1. \A i \in 1..n : [a \in Seq(Byte) |-> a \o Content(h, ss[i])] \in [Seq(Byte) -> Seq(Byte)]
    BY <1>2
  <2> QED
    BY <2>1
<1>5. \A i \in 1..n : \A a \in Seq(Byte) : next[i][a] = a \o Content(h, ss[i])
  OBVIOUS
<1> HIDE DEF next
<1>6. PICK f : Steps(f, Seq(Byte), <<>>, next, n)
  BY <1>3, <1>4, Iterate, Zenon
<1>7. f \in [0..n -> Seq(Byte)] /\ f[0] = <<>> /\ \A i \in 1..n : f[i] = next[i][f[i - 1]]
  BY <1>6, Zenon DEF Steps
<1>8. \A i \in 1..n : f[i] = f[i - 1] \o Content(h, ss[i])
  <2>1. \A i \in 1..n : f[i - 1] \in Seq(Byte)
    BY <1>7
  <2> QED
    BY <1>5, <1>7, <2>1, Zenon
<1> DEFINE Is(v) == v = [i \in 0..n |-> IF i = 0 THEN <<>> ELSE v[i - 1] \o Content(h, ss[i])]
           u == CHOOSE v : Is(v)
<1>9. Is(f)
  <2>1. ASSUME NEW i \in 0..n PROVE f[i] = IF i = 0 THEN <<>> ELSE f[i - 1] \o Content(h, ss[i])
    <3>1. i = 0 \/ i \in 1..n
      OBVIOUS
    <3>2. 0 \notin 1..n
      OBVIOUS
    <3> QED
      BY <1>7, <1>8, <3>1, <3>2, Zenon
  <2>2. f = [i \in 0..n |-> f[i]]
    BY <1>7
  <2> QED
    BY <2>1, <2>2, Zenon
<1>10. Is(u)
  <2> HIDE DEF Is
  <2> QED
    BY <1>9, Zenon
<1>11. Joined(h, ss) = u[n]
  BY <1>1, Zenon DEF Joined
<1> HIDE DEF u
<1>12. u = [i \in 0..n |-> u[i]] /\ u[0] = <<>> /\ \A i \in 1..n : u[i] = u[i - 1] \o Content(h, ss[i])
  <2>1. \A i \in 0..n : u[i] = IF i = 0 THEN <<>> ELSE u[i - 1] \o Content(h, ss[i])
    BY <1>10, Zenon
  <2>2. 0 \in 0..n /\ \A i \in 1..n : i \in 0..n /\ i # 0
    OBVIOUS
  <2>3. u[0] = <<>> /\ \A i \in 1..n : u[i] = u[i - 1] \o Content(h, ss[i])
    BY <2>1, <2>2, Zenon
  <2>4. u = [i \in 0..n |-> u[i]]
    BY <1>10, Zenon
  <2> QED
    BY <2>3, <2>4
<1> DEFINE T == {k \in Nat : k <= n => u[k] \in Seq(Byte)}
<1>13. 0 \in T
  BY <1>3, <1>12
<1>14. ASSUME NEW k \in Nat, k \in T PROVE k + 1 \in T
  <2> SUFFICES ASSUME k + 1 <= n PROVE u[k + 1] \in Seq(Byte)
    OBVIOUS
  <2>1. k + 1 \in 1..n /\ (k + 1) - 1 = k /\ u[k] \in Seq(Byte)
    BY <1>14
  <2>2. u[k + 1] = u[k] \o Content(h, ss[k + 1])
    BY <1>12, <2>1, Zenon
  <2>3. Content(h, ss[k + 1]) \in Seq(Byte)
    BY <1>2, <2>1, Zenon
  <2> QED
    BY <2>1, <2>2, <2>3
<1>15. Nat \subseteq T
  <2> HIDE DEF T
  <2> QED
    BY <1>13, <1>14, SetInduction
<1>16. \A i \in 0..n : u[i] \in Seq(Byte)
  BY <1>15
<1>17. u \in [0..n -> Seq(Byte)]
  BY <1>12, <1>16
<1> QED
  BY <1>1, <1>11, <1>12, <1>17, Zenon

\* What takes these steps ends with what the slices show.
LEMMA JoinedFrom ==
  ASSUME NEW h \in HeapType, NEW ss \in Seq(SliceType), NEW g, g[0] = <<>>,
         \A i \in 1..Len(ss) : g[i] = g[i - 1] \o Content(h, ss[i])
  PROVE  Joined(h, ss) = g[Len(ss)] /\ Joined(h, ss) \in Seq(Byte)
<1>1. PICK n \in Nat : n = Len(ss)
  OBVIOUS
<1>2. PICK f \in [0..n -> Seq(Byte)] : /\ f[0] = <<>> /\ f[n] = Joined(h, ss)
                                       /\ \A i \in 1..n : f[i] = f[i - 1] \o Content(h, ss[i])
  BY <1>1, JoinedSteps, Zenon
<1> DEFINE T == {k \in Nat : k <= n => f[k] = g[k]}
<1>3. 0 \in T
  BY <1>2
<1>4. ASSUME NEW k \in Nat, k \in T PROVE k + 1 \in T
  <2> SUFFICES ASSUME k + 1 <= n PROVE f[k + 1] = g[k + 1]
    OBVIOUS
  <2>1. k + 1 \in 1..n /\ (k + 1) - 1 = k /\ f[k] = g[k]
    BY <1>4
  <2>2. f[k + 1] = f[k] \o Content(h, ss[k + 1]) /\ g[k + 1] = g[k] \o Content(h, ss[k + 1])
    BY <1>1, <1>2, <2>1, Zenon
  <2> QED
    BY <2>1, <2>2, Zenon
<1>5. Nat \subseteq T
  <2> HIDE DEF T
  <2> QED
    BY <1>3, <1>4, SetInduction
<1>6. f[n] = g[n]
  BY <1>5
<1>7. f[n] \in Seq(Byte)
  BY <1>2
<1> QED
  BY <1>1, <1>2, <1>6, <1>7, Zenon

\* It is a sequence of bytes.
LEMMA JoinedType ==
  ASSUME NEW h \in HeapType, NEW ss \in Seq(SliceType)
  PROVE  Joined(h, ss) \in Seq(Byte)
<1>1. PICK f \in [0..Len(ss) -> Seq(Byte)] : f[Len(ss)] = Joined(h, ss)
  BY JoinedSteps, Zenon
<1>2. Len(ss) \in 0..Len(ss)
  OBVIOUS
<1> QED
  BY <1>1, <1>2

\* Slices whose bytes are kept show the same.
LEMMA JoinedKept ==
  ASSUME NEW h \in HeapType, NEW g \in HeapType, NEW ss \in Seq(SliceType), Kept(h, g, ss)
  PROVE  Joined(g, ss) = Joined(h, ss)
<1>1. PICK f : /\ f[0] = <<>> /\ f[Len(ss)] = Joined(h, ss)
               /\ \A i \in 1..Len(ss) : f[i] = f[i - 1] \o Content(h, ss[i])
  BY JoinedSteps, ZenonT(60)
<1>2. \A i \in 1..Len(ss) : Content(g, ss[i]) = Content(h, ss[i])
  BY ContentSame, Zenon DEF Kept
<1>3. \A i \in 1..Len(ss) : f[i] = f[i - 1] \o Content(g, ss[i])
  BY <1>1, <1>2, Zenon
<1> QED
  BY <1>1, <1>3, JoinedFrom, Zenon

\* Slices behind others show their bytes behind those of the others.
LEMMA JoinedConcat ==
  ASSUME NEW h \in HeapType, NEW s \in Seq(SliceType), NEW t \in Seq(SliceType)
  PROVE  Joined(h, s \o t) = Joined(h, s) \o Joined(h, t)
<1>1. PICK m \in Nat, n \in Nat : m = Len(s) /\ n = Len(t)
  OBVIOUS
<1>2. PICK u \in Seq(SliceType) : /\ u = s \o t /\ Len(u) = m + n
                                  /\ (\A i \in 1..m : u[i] = s[i]) /\ \A j \in 1..n : u[m + j] = t[j]
  <2>1. /\ s \o t \in Seq(SliceType) /\ Len(s \o t) = Len(s) + Len(t)
        /\ (\A i \in 1..Len(s) : (s \o t)[i] = s[i]) /\ \A j \in 1..Len(t) : (s \o t)[Len(s) + j] = t[j]
    BY ConcatByPlace
  <2> QED
    BY <1>1, <2>1, Zenon
<1>3. PICK g \in [0..(m + n) -> Seq(Byte)] : /\ g[0] = <<>> /\ g[m + n] = Joined(h, u)
                                             /\ \A i \in 1..(m + n) : g[i] = g[i - 1] \o Content(h, u[i])
  <2>1. PICK g \in [0..Len(u) -> Seq(Byte)] : /\ g[0] = <<>> /\ g[Len(u)] = Joined(h, u)
                                              /\ \A i \in 1..Len(u) : g[i] = g[i - 1] \o Content(h, u[i])
    BY JoinedSteps, Zenon
  <2> QED
    BY <1>2, <2>1, Zenon
<1>4. PICK e \in [0..n -> Seq(Byte)] : /\ e[0] = <<>> /\ e[n] = Joined(h, t)
                                       /\ \A i \in 1..n : e[i] = e[i - 1] \o Content(h, t[i])
  BY <1>1, JoinedSteps, Zenon
<1>5. Joined(h, s) = g[m] /\ g[m] \in Seq(Byte)
  <2>1. \A i \in 1..m : i \in 1..(m + n)
    OBVIOUS
  <2>2. \A i \in 1..m : g[i] = g[i - 1] \o Content(h, s[i])
    BY <1>2, <1>3, <2>1, Zenon
  <2> QED
    BY <1>1, <1>3, <2>2, JoinedFrom, ZenonT(60)
<1> DEFINE P(j) == g[m + j] = g[m] \o e[j]
           T == {j \in Nat : j <= n => P(j)}
<1>6. 0 \in T
  <2>1. g[m] \o <<>> = g[m] /\ m + 0 = m
    BY <1>5
  <2>2. P(0)
    BY <1>4, <2>1, Zenon
  <2> HIDE DEF P
  <2> QED
    BY <2>2
<1>7. ASSUME NEW j \in Nat, j \in T PROVE j + 1 \in T
  <2> HIDE DEF P
  <2> SUFFICES ASSUME j + 1 <= n PROVE P(j + 1)
    OBVIOUS
  <2>1. j + 1 \in 1..n /\ j \in 0..n /\ (j + 1) - 1 = j /\ m + (j + 1) \in 1..(m + n) /\ (m + (j + 1)) - 1 = m + j
        /\ P(j)
    BY <1>7
  <2>2. PICK c \in Seq(Byte) : c = Content(h, t[j + 1])
    <3>1. t[j + 1] \in SliceType
      BY <1>1, <2>1, ElementOfSeq
    <3> QED
      BY <3>1, ContentType, Zenon
  <2>3. g[m + (j + 1)] = g[m + j] \o c
    BY <1>2, <1>3, <2>1, <2>2, Zenon
  <2>4. e[j + 1] = e[j] \o c /\ e[j] \in Seq(Byte)
    <3>1. e[j + 1] = e[j] \o c
      BY <1>4, <2>1, <2>2, Zenon
    <3>2. e[j] \in Seq(Byte)
      BY <1>4, <2>1
    <3> QED
      BY <3>1, <3>2, Zenon
  <2>5. (g[m] \o e[j]) \o c = g[m] \o (e[j] \o c)
    <3>1. PICK a \in Seq(Byte), b \in Seq(Byte) : a = g[m] /\ b = e[j]
      BY <1>5, <2>4, Zenon
    <3>2. (a \o b) \o c = a \o (b \o c)
      BY JoinThree, Zenon
    <3> QED
      BY <3>1, <3>2, Zenon
  <2> QED
    BY <2>1, <2>3, <2>4, <2>5, Zenon DEF P
<1>8. Nat \subseteq T
  <2> HIDE DEF T
  <2> QED
    BY <1>6, <1>7, SetInduction
<1>9. P(n)
  <2> HIDE DEF P
  <2> QED
    BY <1>8
<1> QED
  BY <1>2, <1>3, <1>4, <1>5, <1>9, Zenon

\* No slices, and one.
LEMMA JoinedFew ==
  ASSUME NEW h \in HeapType, NEW x \in SliceType
  PROVE  Joined(h, <<>>) = <<>> /\ Joined(h, <<x>>) = Content(h, x)
<1>1. Joined(h, <<>>) = <<>>
  <2>1. PICK z \in Seq(SliceType) : z = <<>> /\ Len(z) = 0
    <3>1. <<>> \in Seq(SliceType) /\ Len(<<>>) = 0
      OBVIOUS
    <3> QED
      BY <3>1, Zenon
  <2>2. PICK f : f[0] = <<>> /\ f[Len(z)] = Joined(h, z)
    BY JoinedSteps, Zenon
  <2> QED
    BY <2>1, <2>2, Zenon
<1>2. Joined(h, <<x>>) = Content(h, x)
  <2>1. PICK u \in Seq(SliceType) : u = <<x>> /\ Len(u) = 1 /\ u[1] = x /\ 1 \in 1..1 /\ 1 - 1 = 0
    <3>1. <<x>> \in Seq(SliceType) /\ Len(<<x>>) = 1 /\ <<x>>[1] = x /\ 1 \in 1..1 /\ 1 - 1 = 0
      OBVIOUS
    <3> QED
      BY <3>1, Zenon
  <2>2. PICK f : f[0] = <<>> /\ f[Len(u)] = Joined(h, u) /\ \A i \in 1..Len(u) : f[i] = f[i - 1] \o Content(h, u[i])
    BY JoinedSteps, Zenon
  <2>3. f[1] = <<>> \o Content(h, x)
    BY <2>1, <2>2, Zenon
  <2>4. <<>> \o Content(h, x) = Content(h, x)
    BY ContentType
  <2> QED
    BY <2>1, <2>2, <2>3, <2>4, Zenon
<1> QED
  BY <1>1, <1>2

\* Slices within their blocks show as many bytes as their lengths add up to.
LEMMA JoinedLen ==
  ASSUME NEW h \in HeapType, NEW ss \in Seq(SliceType), \A i \in 1..Len(ss) : Within(h, ss[i])
  PROVE  Len(Joined(h, ss)) = Weighed(Lengths, ss)
<1>1. PICK n \in Nat : n = Len(ss)
  OBVIOUS
<1>2. PICK f \in [0..n -> Seq(Byte)] : /\ f[0] = <<>> /\ f[n] = Joined(h, ss)
                                       /\ \A i \in 1..n : f[i] = f[i - 1] \o Content(h, ss[i])
  BY <1>1, JoinedSteps, Zenon
<1>3. \A x \in SliceType : Lengths[x] \in Nat /\ Lengths[x] = x.len
  BY MarksType
<1>4. PICK w \in Seq(Nat) : w = Weights(Lengths, ss) /\ Len(w) = n /\ \A i \in 1..n : w[i] = Lengths[ss[i]]
  <2>1. /\ Weights(Lengths, ss) \in Seq(Nat) /\ Len(Weights(Lengths, ss)) = Len(ss)
        /\ \A i \in 1..Len(ss) : Weights(Lengths, ss)[i] = Lengths[ss[i]]
    <3>1. \A i \in 1..Len(ss) : ss[i] \in SliceType
      BY ElementOfSeq
    <3>2. \A i \in 1..Len(ss) : Lengths[ss[i]] \in Nat
      BY <1>3, <3>1, Zenon
    <3> QED
      BY <3>2 DEF Weights
  <2> QED
    BY <1>1, <2>1, Zenon
<1> DEFINE g == [i \in 0..n |-> Len(f[i])]
<1>5. \A i \in 0..n : g[i] \in Nat /\ g[i] = Len(f[i]) /\ f[i] \in Seq(Byte)
  BY <1>2
<1>6. g \in [0..n -> Int]
  BY <1>5
<1> HIDE DEF g
<1>7. g[0] = 0
  <2>1. Len(<<>>) = 0 /\ 0 \in 0..n
    OBVIOUS
  <2> QED
    BY <1>2, <1>5, <2>1, Zenon
<1>8. ASSUME NEW i \in 1..n PROVE g[i] = g[i - 1] + w[i]
  <2>1. i \in 0..n /\ i - 1 \in 0..n
    OBVIOUS
  <2>2. ss[i] \in SliceType
    BY <1>1, ElementOfSeq
  <2>3. Content(h, ss[i]) \in Seq(Byte) /\ Len(Content(h, ss[i])) = w[i]
    BY <1>1, <1>3, <1>4, <2>2, ContentIs, Zenon
  <2>4. Len(f[i - 1] \o Content(h, ss[i])) = Len(f[i - 1]) + Len(Content(h, ss[i]))
    BY <1>5, <2>1, <2>3, ConcatProperties
  <2> QED
    BY <1>2, <1>5, <2>1, <2>3, <2>4, Zenon
<1>9. w \in Seq(Int)
  BY <1>4
<1>10. Total(w) = g[n]
  BY <1>4, <1>6, <1>7, <1>8, <1>9, TotalFrom, Zenon
<1>11. g[n] = Len(f[n])
  BY <1>5
<1> QED
  BY <1>2, <1>4, <1>10, <1>11, Zenon DEF Weighed

-----------------------------------------------------------------------------
(***************************************************************************)
(* Slices in the vector.                                                   *)
(***************************************************************************)

\* What slices have together.
LEMMA SizeOf ==
  ASSUME NEW s \in Seq(SliceType), NEW t \in Seq(SliceType), NEW x \in SliceType
  PROVE  /\ Size(s) \in Nat /\ Size(<<>>) = 0 /\ Size(<<x>>) = x.len /\ x.len \in Nat
         /\ Size(s \o t) = Size(s) + Size(t)
         /\ Size(Append(s, x)) = Size(s) + x.len
<1>1. \A y \in SliceType : Lengths[y] \in Nat /\ Lengths[y] \in Int /\ Lengths[y] = y.len
  BY MarksType
<1>2. Append(s, x) = s \o <<x>> /\ <<x>> \in Seq(SliceType)
  OBVIOUS
<1>3. Weighed(Lengths, s) \in Nat
  BY <1>1, WeighedNat, Zenon
<1>4. /\ Weighed(Lengths, s \o t) = Weighed(Lengths, s) + Weighed(Lengths, t)
      /\ Weighed(Lengths, s \o <<x>>) = Weighed(Lengths, s) + Weighed(Lengths, <<x>>)
  BY <1>1, <1>2, WeighedConcat, Zenon
<1>5. Weighed(Lengths, <<x>>) = Lengths[x]
  BY <1>1, WeighedOne, Zenon
<1> QED
  BY <1>1, <1>2, <1>3, <1>4, <1>5, WeighedEmpty, Zenon DEF Size

\* The sum that move_header looks at is the size of a part of the vector.
LEMMA SizeToIs ==
  ASSUME NEW v \in Seq(SliceType), NEW a \in Nat, NEW i \in Nat, a + i <= Len(v)
  PROVE  /\ SubSeq(v, a + 1, a + i) \in Seq(SliceType)
         /\ Total([k \in 1..i |-> v[a + k].len]) = Size(SubSeq(v, a + 1, a + i))
<1>1. PICK p \in Seq(SliceType) : /\ p = SubSeq(v, a + 1, a + i) /\ Len(p) = i
                                  /\ \A k \in 1..i : p[k] = v[a + k] /\ p[k] \in SliceType
  <2>1. /\ SubSeq(v, a + 1, a + i) \in Seq(SliceType) /\ Len(SubSeq(v, a + 1, a + i)) = i
        /\ \A k \in 1..i : SubSeq(v, a + 1, a + i)[k] = v[a + k] /\ v[a + k] \in SliceType
    BY SMTT(30)
  <2> QED
    BY <2>1
<1>2. \A k \in 1..i : Lengths[p[k]] = v[a + k].len
  BY <1>1, MarksType, Zenon
<1>3. Weights(Lengths, p) = [k \in 1..i |-> v[a + k].len]
  BY <1>1, <1>2 DEF Weights
<1> QED
  BY <1>1, <1>3, Zenon DEF Size, Weighed

\* A slice of the vector shows less of its block.
LEMMA OwnPlace ==
  ASSUME NEW h, NEW os, NEW ss, Owned(h, os, ss), NEW i \in 1..Len(ss), NEW x \in SliceType,
         x.block = ss[i].block, Within(h, x), NEW tt \in Seq(SliceType), Len(tt) = Len(ss), tt[i] = x,
         \A j \in 1..Len(ss) : j # i => tt[j] = ss[j]
  PROVE  Owned(h, os, tt)
<1>1. /\ h \in HeapType /\ os \in [Objects -> SliceType] /\ ss \in Seq(SliceType)
      /\ (\A p \in Objects : Within(h, os[p])) /\ \A j \in 1..Len(ss) : ss[j] \in SliceType /\ Within(h, ss[j])
  BY OwnedParts, Zenon
<1>2. PICK n \in Nat : n = Len(ss)
  BY <1>1
<1>3. tt \in Seq(SliceType) /\ Len(tt) = n /\ tt[i] = x /\ \A j \in 1..n : j # i => tt[j] = ss[j]
  BY <1>2, Zenon
<1>4. ASSUME NEW b \in Blocks PROVE h.refs[b] = Holders(os, b) + Places(tt, b)
  <2>1. ASSUME NEW j \in 1..n PROVE Marks(b)[tt[j]] = Marks(b)[ss[j]]
    <3>1. tt[j] \in SliceType /\ ss[j] \in SliceType
      BY <1>1, <1>2, <1>3, ElementOfSeq
    <3>2. tt[j].block = ss[j].block
      <4>1. CASE j = i
        BY <1>3, <4>1, Zenon
      <4>2. CASE j # i
        BY <1>3, <4>2, Zenon
      <4> QED
        BY <4>1, <4>2, Zenon
    <3>3. Shows(tt[j], b) = Shows(ss[j], b)
      BY <3>2, Zenon DEF Shows
    <3>4. Marks(b)[tt[j]] = Shows(tt[j], b) /\ Marks(b)[ss[j]] = Shows(ss[j], b)
      BY <3>1, MarksType
    <3> QED
      BY <3>3, <3>4, Zenon
  <2>2. Weights(Marks(b), tt) = Weights(Marks(b), ss)
    BY <1>2, <1>3, <2>1, Zenon DEF Weights
  <2>3. Places(tt, b) = Places(ss, b)
    BY <2>2, Zenon DEF Places, Weighed
  <2>4. h.refs[b] = Holders(os, b) + Places(ss, b)
    BY DEF Owned
  <2> QED
    BY <2>3, <2>4, Zenon
<1>5. ASSUME NEW j \in 1..n PROVE Within(h, tt[j])
  <2>1. CASE j = i
    BY <1>3, <2>1, Zenon
  <2>2. CASE j # i
    BY <1>1, <1>2, <1>3, <2>2, Zenon
  <2> QED
    BY <2>1, <2>2, Zenon
<1> QED
  BY <1>1, <1>3, <1>4, <1>5, Zenon DEF Owned

\* A buffer, in parts.
LEMMA BufferParts ==
  ASSUME NEW q, BufferOK(q)
  PROVE  /\ q.vs \in Seq(SliceType) /\ q.start \in 0..Len(q.vs) /\ q.start \in Nat /\ q.length \in Nat
         /\ Len(q.vs) \in Nat /\ q.start <= Len(q.vs)
         /\ q = [vs |-> q.vs, start |-> q.start, length |-> q.length]
         /\ Current(q) \in Seq(SliceType) /\ Len(Current(q)) = Len(q.vs) - q.start
         /\ \A i \in 1..(Len(q.vs) - q.start) : Current(q)[i] = q.vs[q.start + i]
         /\ q.length = Size(Current(q))
<1>1. q \in BufferType /\ q.start <= Len(q.vs) /\ q.length = Size(Current(q))
  BY Zenon DEF BufferOK
<1>2. q.vs \in Seq(SliceType) /\ q.start \in Nat /\ q.length \in Nat
      /\ q = [vs |-> q.vs, start |-> q.start, length |-> q.length]
  BY <1>1 DEF BufferType
<1>3. Len(q.vs) \in Nat
  BY <1>2
<1>4. q.start \in 0..Len(q.vs)
  BY <1>1, <1>2, <1>3
<1>5. PICK v \in Seq(SliceType), a \in Nat : v = q.vs /\ a = q.start /\ a \in 0..Len(v)
  BY <1>2, <1>4, Zenon
<1>6. /\ SubSeq(v, a + 1, Len(v)) \in Seq(SliceType) /\ Len(SubSeq(v, a + 1, Len(v))) = Len(v) - a
      /\ \A i \in 1..(Len(v) - a) : SubSeq(v, a + 1, Len(v))[i] = v[a + i]
  <2>1. a \in 0..Len(v)
    BY <1>5, Zenon
  <2> QED
    BY <2>1, PartIs
<1> QED
  BY <1>1, <1>2, <1>3, <1>4, <1>5, <1>6, Zenon DEF Current

\* A vector with l bytes less at place i.
Shortened(v, i, l) == IF l = 0 THEN v ELSE [v EXCEPT ![i] = SlicePopFront(@, l)]

\* How far PassOver comes: w slices as a whole, and l bytes of the next.
LEMMA PassOverIs ==
  ASSUME NEW q, BufferOK(q), NEW n \in Nat, n <= q.length
  PROVE  \E w \in Nat, l \in Nat :
           /\ q.start + w <= Len(q.vs) /\ n = Size(SubSeq(q.vs, q.start + 1, q.start + w)) + l
           /\ l # 0 => q.start + w < Len(q.vs) /\ l < q.vs[(q.start + w) + 1].len
           /\ PassOver(q, n) = [vs |-> Shortened(q.vs, (q.start + w) + 1, l),
                                start |-> q.start + w, length |-> q.length - n]
<1>1. PICK v \in Seq(SliceType), a \in Nat, z \in Nat, m \in Nat :
        /\ v = q.vs /\ a = q.start /\ z = q.length /\ m = Len(v)
        /\ a <= m /\ n <= z /\ z = Size(SubSeq(v, a + 1, m)) /\ q = [vs |-> v, start |-> a, length |-> z]
  BY BufferParts, ZenonT(60) DEF Current
<1>2. PICK c \in Nat : c = m - a /\ c = slice_count(q) /\ a + c = m
  <2>1. slice_count(q) = m - a
    BY <1>1, Zenon DEF slice_count
  <2>2. a <= m
    BY <1>1, Zenon
  <2>3. m - a \in Nat /\ a + (m - a) = m
    BY <2>2
  <2> QED
    BY <2>1, <2>3, Zenon
<1> DEFINE sizeTo(i) == Total([k \in 1..i |-> v[a + k].len])
           part(i) == SubSeq(v, a + 1, a + i)
           fit == {i \in 0..c : sizeTo(i) <= n}
<1>3. \A i \in 0..c : part(i) \in Seq(SliceType) /\ sizeTo(i) = Size(part(i)) /\ sizeTo(i) \in Nat
  <2>1. \A i \in 0..c : i \in Nat /\ a + i <= m
    BY <1>2
  <2>2. ASSUME NEW i \in 0..c PROVE part(i) \in Seq(SliceType) /\ sizeTo(i) = Size(part(i)) /\ sizeTo(i) \in Nat
    <3>1. i \in Nat /\ a + i <= Len(v)
      BY <1>1, <2>1, Zenon
    <3>2. part(i) \in Seq(SliceType) /\ sizeTo(i) = Size(part(i))
      BY <3>1, SizeToIs
    <3>3. EmptySlice \in SliceType
      BY EmptyIs, Zenon
    <3> HIDE DEF part, sizeTo
    <3> QED
      BY <3>2, <3>3, SizeOf, Zenon
  <2> HIDE DEF part, sizeTo
  <2> QED
    BY <2>2, Zenon
<1>4. sizeTo(0) = 0
  <2>1. 0 \in 0..c
    OBVIOUS
  <2>2. part(0) = <<>>
    BY <1>1
  <2>3. Size(<<>>) = 0
    BY WeighedEmpty, Zenon DEF Size
  <2> HIDE DEF part, sizeTo
  <2> QED
    BY <1>3, <2>1, <2>2, <2>3, Zenon
<1>5. sizeTo(c) = z
  <2>1. c \in 0..c
    OBVIOUS
  <2> HIDE DEF sizeTo
  <2> QED
    BY <1>1, <1>2, <1>3, <2>1, Zenon
<1>6. \A i \in 0..c : i < c => v[(a + i) + 1] \in SliceType /\ sizeTo(i + 1) = sizeTo(i) + v[(a + i) + 1].len
  <2>1. ASSUME NEW i \in 0..c, i < c
        PROVE  v[(a + i) + 1] \in SliceType /\ sizeTo(i + 1) = sizeTo(i) + v[(a + i) + 1].len
    <3>1. i + 1 \in 0..c /\ a + i < m /\ (a + i) + 1 \in 1..m
      BY <1>2, <2>1
    <3>2. PICK x \in SliceType : x = v[(a + i) + 1]
      BY <1>1, <3>1, ElementOfSeq
    <3>3. part(i + 1) = Append(part(i), x)
      <4>1. (a + i) + 1 <= Len(v) /\ a + (i + 1) = (a + i) + 1
        BY <1>1, <3>1
      <4> QED
        BY <3>2, <4>1, PartAppend
    <3> HIDE DEF part, sizeTo
    <3>4. Size(Append(part(i), x)) = Size(part(i)) + x.len
      BY <1>3, SizeOf, Zenon
    <3> QED
      BY <1>3, <3>1, <3>2, <3>3, <3>4, Zenon
  <2> HIDE DEF sizeTo
  <2> QED
    BY <2>1, Zenon
<1> HIDE DEF sizeTo
<1>7. PICK w \in 0..c : w = Max(fit) /\ sizeTo(w) <= n /\ \A i \in 0..c : sizeTo(i) <= n => i <= w
  <2>1. 0 \in fit /\ fit \subseteq 0..c
    BY <1>4
  <2>2. \A i \in fit : i \in 0..c /\ sizeTo(i) <= n
    OBVIOUS
  <2>3. \A i \in 0..c : sizeTo(i) <= n => i \in fit
    OBVIOUS
  <2> HIDE DEF fit
  <2>4. PICK y \in fit : \A k \in fit : k <= y
    BY <2>1, GreatestNat
  <2>5. \A k \in fit : y >= k
    BY <2>1, <2>4
  <2>6. Max(fit) \in fit /\ \A k \in fit : Max(fit) >= k
    BY <2>5, Zenon DEF Max
  <2>7. \A k \in fit : k <= Max(fit)
    BY <2>1, <2>6
  <2> QED
    BY <2>2, <2>3, <2>6, <2>7, Zenon
<1>8. PICK l \in Nat : l = n - sizeTo(w) /\ n = sizeTo(w) + l
  <2>1. PICK y \in Nat : y = sizeTo(w) /\ y <= n
    BY <1>3, <1>7, Zenon
  <2>2. n - y \in Nat /\ n = y + (n - y)
    BY <2>1
  <2> QED
    BY <2>1, <2>2, Zenon
<1>9. l # 0 => w < c /\ l < v[(a + w) + 1].len
  <2> SUFFICES ASSUME l # 0 PROVE w < c /\ l < v[(a + w) + 1].len
    OBVIOUS
  <2>1. w # c
    <3>1. CASE w = c
      <4>1. n = z + l
        BY <1>5, <1>8, <3>1, Zenon
      <4>2. n <= z
        BY <1>1, Zenon
      <4> QED
        BY <4>1, <4>2
    <3> QED
      BY <3>1
  <2>2. w < c /\ w + 1 \in 0..c /\ ~(w + 1 <= w)
    BY <2>1
  <2>3. PICK y \in Nat, e \in Nat : y = sizeTo(w) /\ e = v[(a + w) + 1].len /\ sizeTo(w + 1) = y + e
    <3>1. v[(a + w) + 1] \in SliceType /\ sizeTo(w + 1) = sizeTo(w) + v[(a + w) + 1].len
      BY <1>6, <2>2, Zenon
    <3>2. v[(a + w) + 1].len \in Nat
      BY <3>1 DEF SliceType
    <3> QED
      BY <1>3, <3>1, <3>2, Zenon
  <2>4. ~(y + e <= n)
    BY <1>7, <2>2, <2>3, Zenon
  <2>5. n = y + l
    BY <1>8, <2>3, Zenon
  <2>6. l < e
    BY <2>4, <2>5
  <2> QED
    BY <2>2, <2>3, <2>6, Zenon
<1>10. PassOver(q, n) = [vs |-> Shortened(v, (a + w) + 1, l), start |-> a + w, length |-> z - n]
  <2>1. PICK x, y, d : x = Shortened(v, (a + w) + 1, l) /\ y = a + w /\ d = z - n
    BY Zenon
  <2>2. q = [vs |-> v, start |-> a, length |-> z]
    BY <1>1, Zenon
  <2>3. \A i : SizeTo(q, i) = sizeTo(i)
    BY <1>1, Zenon DEF SizeTo, sizeTo
  <2>4. Whole(q, n) = w
    BY <1>2, <1>7, <2>3, Zenon DEF Whole
  <2>5. SizeTo(q, Whole(q, n)) = sizeTo(w)
    BY <2>3, <2>4, Zenon
  <2>6. PICK k, e : k = Whole(q, n) /\ e = SizeTo(q, k)
    BY Zenon
  <2>7. PassOver(q, n) = [vs |-> Shortened(q.vs, (q.start + k) + 1, n - e),
                          start |-> q.start + k, length |-> q.length - n]
    BY <2>6, Zenon DEF PassOver, Shortened
  <2>8. Shortened(q.vs, (q.start + k) + 1, n - e) = x /\ q.start + k = y /\ q.length - n = d
    BY <1>1, <1>8, <2>1, <2>4, <2>5, <2>6, Zenon
  <2> QED
    BY <2>1, <2>7, <2>8, Zenon
<1>11. w \in Nat /\ a + w <= m /\ (w < c => a + w < m)
  BY <1>2
<1>12. n = Size(part(w)) + l
  BY <1>3, <1>8, Zenon
<1> QED
  BY <1>1, <1>9, <1>10, <1>11, <1>12, ZenonT(60)

\* d is what is left of the slices c when n bytes have been passed over.
Passed(c, d, n) ==
  \E p \in Seq(SliceType), r \in Seq(SliceType), x \in SliceType, l \in Nat :
    \/ c = p \o d /\ n = Size(p)
    \/ /\ c = p \o (<<x>> \o r) /\ d = <<SlicePopFront(x, l)>> \o r
       /\ l < x.len /\ n = Size(p) + l

\* A buffer p that is q with n bytes passed over.
PassedBuffer(h, os, q, p, n) ==
  /\ p \in BufferType /\ p.start <= Len(p.vs) /\ Owned(h, os, p.vs)
  /\ p.length = q.length - n /\ Passed(Current(q), Current(p), n)

\* PassOver leaves a buffer that owns the same blocks.
LEMMA PassOverOK ==
  ASSUME NEW h, NEW os, NEW q, BufferOK(q), Owned(h, os, q.vs), NEW n \in Nat, n <= q.length
  PROVE  PassedBuffer(h, os, q, PassOver(q, n), n)
<1>0. PICK p : p = PassOver(q, n)
  BY Zenon
<1> SUFFICES /\ p \in BufferType /\ p.start <= Len(p.vs) /\ Owned(h, os, p.vs)
             /\ p.length = q.length - n /\ Passed(Current(q), Current(p), n)
  BY <1>0, Zenon DEF PassedBuffer
<1>1. PICK v \in Seq(SliceType), a \in Nat, z \in Nat, m \in Nat :
        /\ v = q.vs /\ a = q.start /\ z = q.length /\ m = Len(v) /\ a <= m /\ n <= z
        /\ Current(q) = SubSeq(v, a + 1, m)
  BY BufferParts, Zenon DEF Current
<1>2. PICK w \in Nat, l \in Nat :
        /\ a + w <= m /\ n = Size(SubSeq(v, a + 1, a + w)) + l
        /\ l # 0 => a + w < m /\ l < v[(a + w) + 1].len
        /\ p = [vs |-> Shortened(v, (a + w) + 1, l), start |-> a + w, length |-> z - n]
  <2>1. PICK w \in Nat, l \in Nat :
           /\ q.start + w <= Len(q.vs) /\ n = Size(SubSeq(q.vs, q.start + 1, q.start + w)) + l
           /\ l # 0 => q.start + w < Len(q.vs) /\ l < q.vs[(q.start + w) + 1].len
           /\ p = [vs |-> Shortened(q.vs, (q.start + w) + 1, l),
                   start |-> q.start + w, length |-> q.length - n]
    BY <1>0, PassOverIs, Zenon
  <2> QED
    BY <1>1, <2>1, Zenon
<1>3. PICK b \in Nat : b = a + w /\ b <= m /\ b >= a
  <2>1. a + w <= m
    BY <1>2, Zenon
  <2> QED
    BY <2>1
<1>4. PICK u : u = Shortened(v, b + 1, l) /\ p = [vs |-> u, start |-> b, length |-> z - n]
  BY <1>2, <1>3, Zenon
<1>5. p.vs = u /\ p.start = b /\ p.length = z - n
  BY <1>4
<1>6. z - n \in Nat
  <2>1. n <= z
    BY <1>1, Zenon
  <2> QED
    BY <2>1
<1>7. PICK c \in Seq(SliceType), d \in Seq(SliceType) :
        c = SubSeq(v, a + 1, b) /\ d = SubSeq(v, b + 1, m) /\ Current(q) = c \o d /\ n = Size(c) + l
  <2>1. a + 1 \in 1..(m + 1) /\ b \in ((a + 1) - 1)..m /\ m \in b..m
    BY <1>3
  <2>2. SubSeq(v, a + 1, b) \o SubSeq(v, b + 1, m) = SubSeq(v, a + 1, m)
    <3>1. m = Len(v)
      BY <1>1, Zenon
    <3> QED
      BY <2>1, <3>1, ConcatAdjacentSubSeq
  <2>3. SubSeq(v, a + 1, b) \in Seq(SliceType) /\ SubSeq(v, b + 1, m) \in Seq(SliceType)
    <3>1. m = Len(v)
      BY <1>1, Zenon
    <3> QED
      BY <1>3, <3>1
  <2> QED
    BY <1>1, <1>2, <1>3, <2>2, <2>3, Zenon
<1>8. Owned(h, os, v)
  BY <1>1, Zenon
<1>9. CASE l = 0
  <2>1. u = v
    BY <1>4, <1>9, Zenon DEF Shortened
  <2>2. Current(p) = d
    BY <1>1, <1>5, <1>7, <2>1, Zenon DEF Current
  <2>3. n = Size(c)
    <3>1. Size(c) \in Nat
      BY EmptyIs, SizeOf, Zenon
    <3>2. n = Size(c) + 0
      BY <1>7, <1>9, Zenon
    <3> QED
      BY <3>1, <3>2
  <2>4. Passed(Current(q), Current(p), n)
    BY <1>7, <2>2, <2>3, EmptyIs, Zenon DEF Passed
  <2>5. p \in BufferType
    <3>1. p = [vs |-> v, start |-> b, length |-> z - n]
      BY <1>4, <2>1, Zenon
    <3> QED
      BY <1>6, <3>1 DEF BufferType
  <2> QED
    BY <1>1, <1>3, <1>5, <1>8, <2>1, <2>4, <2>5, Zenon
<1>10. CASE l # 0
  <2>1. b < m /\ l < v[b + 1].len
    BY <1>2, <1>3, <1>10, Zenon
  <2>2. b + 1 \in 1..m /\ b + 1 <= m /\ b + 1 \in Nat
    BY <2>1
  <2>3. PICK x \in SliceType, r \in Seq(SliceType) : x = v[b + 1] /\ r = SubSeq(v, (b + 1) + 1, m) /\ d = <<x>> \o r
    <3>1. b < Len(v)
      BY <1>1, <2>1, Zenon
    <3>2. /\ v[b + 1] \in SliceType /\ SubSeq(v, (b + 1) + 1, Len(v)) \in Seq(SliceType)
          /\ SubSeq(v, b + 1, Len(v)) = <<v[b + 1]>> \o SubSeq(v, (b + 1) + 1, Len(v))
      BY <3>1, RestIs
    <3> QED
      BY <1>1, <1>7, <3>2, Zenon
  <2>4. PICK y \in SliceType : y = SlicePopFront(x, l) /\ y.block = x.block /\ Within(h, y)
    <3>1. h \in HeapType /\ Within(h, x)
      BY <1>1, <1>8, <2>2, <2>3, OwnedParts, Zenon
    <3>2. SlicePopFront(x, l) \in SliceType /\ SlicePopFront(x, l).block = x.block
      BY CutIs, Zenon
    <3> QED
      BY <3>1, <3>2, CutWithin, Zenon
  <2>5. u = [v EXCEPT ![b + 1] = y]
    <3>1. u = [v EXCEPT ![b + 1] = SlicePopFront(@, l)]
      BY <1>4, <1>10, Zenon DEF Shortened
    <3>2. SlicePopFront(v[b + 1], l) = y
      BY <2>3, <2>4, Zenon
    <3> QED
      BY <3>1, <3>2
  <2>6. /\ Owned(h, os, u) /\ u \in Seq(SliceType) /\ Len(u) = m /\ u[b + 1] = y
        /\ \A j \in 1..m : j # b + 1 => u[j] = v[j]
    <3>1. b + 1 \in 1..Len(v) /\ y.block = v[b + 1].block /\ Within(h, y)
      BY <1>1, <2>2, <2>3, <2>4, Zenon
    <3>2. PICK k \in 1..Len(v) : k = b + 1 /\ y.block = v[k].block
      BY <3>1, Zenon
    <3>3. u = [v EXCEPT ![k] = y]
      BY <2>5, <3>2
    <3>4. /\ u \in Seq(SliceType) /\ Len(u) = Len(v) /\ u[k] = y
          /\ \A j \in 1..Len(v) : j # k => u[j] = v[j]
      BY <3>3
    <3>5. Owned(h, os, u)
      BY <1>8, <3>1, <3>2, <3>4, OwnPlace, Zenon
    <3> QED
      BY <1>1, <3>2, <3>4, <3>5, Zenon
  <2>7. SubSeq(u, b + 1, m) = <<y>> \o SubSeq(u, (b + 1) + 1, m)
    <3>1. b < Len(u)
      BY <2>1, <2>6, Zenon
    <3>2. SubSeq(u, b + 1, Len(u)) = <<u[b + 1]>> \o SubSeq(u, (b + 1) + 1, Len(u))
      BY <2>6, <3>1, RestIs
    <3> QED
      BY <2>6, <3>2, Zenon
  <2>8. SubSeq(u, (b + 1) + 1, m) = SubSeq(v, (b + 1) + 1, m)
    <3>1. PICK e \in 0..m : e = b + 1
      BY <2>2
    <3>2. /\ SubSeq(v, e + 1, Len(v)) \in Seq(SliceType) /\ Len(SubSeq(v, e + 1, Len(v))) = Len(v) - e
          /\ \A i \in 1..(Len(v) - e) : SubSeq(v, e + 1, Len(v))[i] = v[e + i]
      <4>1. e \in 0..Len(v)
        BY <1>1, <3>1, Zenon
      <4> QED
        BY <4>1, PartIs
    <3>3. /\ SubSeq(u, e + 1, Len(u)) \in Seq(SliceType) /\ Len(SubSeq(u, e + 1, Len(u))) = Len(u) - e
          /\ \A i \in 1..(Len(u) - e) : SubSeq(u, e + 1, Len(u))[i] = u[e + i]
      <4>1. e \in 0..Len(u)
        BY <2>6, <3>1, Zenon
      <4> QED
        BY <2>6, <4>1, PartIs
    <3>4. \A i \in 1..(m - e) : e + i \in 1..m /\ e + i # e
      OBVIOUS
    <3>5. PICK s \in Seq(SliceType) : s = SubSeq(v, e + 1, m) /\ Len(s) = m - e /\ \A i \in 1..(m - e) : s[i] = v[e + i]
      BY <1>1, <3>2, Zenon
    <3>6. PICK t \in Seq(SliceType) : t = SubSeq(u, e + 1, m) /\ Len(t) = m - e /\ \A i \in 1..(m - e) : t[i] = u[e + i]
      BY <2>6, <3>3, Zenon
    <3>7. ASSUME NEW i \in 1..(m - e) PROVE t[i] = s[i]
      <4>1. u[e + i] = v[e + i]
        BY <2>6, <3>1, <3>4, Zenon
      <4> QED
        BY <3>5, <3>6, <4>1, Zenon
    <3>8. t = s
      BY <3>5, <3>6, <3>7, SeqEqual
    <3> QED
      BY <3>1, <3>5, <3>6, <3>8, Zenon
  <2>9. Current(p) = <<y>> \o r
    BY <1>5, <2>3, <2>6, <2>7, <2>8, Zenon DEF Current
  <2>10. l < x.len
    BY <2>1, <2>3, Zenon
  <2>11. Passed(Current(q), Current(p), n)
    BY <1>7, <2>3, <2>4, <2>9, <2>10, Zenon DEF Passed
  <2>12. p \in BufferType
    BY <1>4, <1>6, <2>6 DEF BufferType
  <2> QED
    BY <1>1, <1>3, <1>5, <2>6, <2>11, <2>12, Zenon
<1> QED
  BY <1>9, <1>10

\* What passing over n bytes leaves: n bytes less, and the first slice while
\* it has more than n.
LEMMA PassedIs ==
  ASSUME NEW c \in Seq(SliceType), NEW d \in Seq(SliceType), NEW n \in Nat, Passed(c, d, n)
  PROVE  /\ Size(c) = Size(d) + n /\ Size(d) \in Nat
         /\ c # <<>> /\ n < c[1].len => d # <<>> /\ d[1].block = c[1].block
<1>1. PICK p \in Seq(SliceType), r \in Seq(SliceType), x \in SliceType, l \in Nat :
        \/ c = p \o d /\ n = Size(p)
        \/ c = p \o (<<x>> \o r) /\ d = <<SlicePopFront(x, l)>> \o r /\ l < x.len /\ n = Size(p) + l
  BY Zenon DEF Passed
<1>2. PICK i \in Nat, j \in Nat, k \in Nat, e \in Nat : i = Size(p) /\ j = Size(r) /\ k = Size(d) /\ e = x.len
  <2>1. Size(p) \in Nat /\ Size(r) \in Nat /\ x.len \in Nat
    BY SizeOf, Zenon
  <2>2. Size(d) \in Nat
    BY SizeOf, Zenon
  <2> QED
    BY <2>1, <2>2, Zenon
<1>3. ASSUME p # <<>>, c # <<>>, n < c[1].len, NEW t \in Seq(SliceType), c = p \o t PROVE n < Size(p)
  <2>1. p[1] \in SliceType /\ c[1] = p[1] /\ p = <<Head(p)>> \o Tail(p) /\ Head(p) = p[1] /\ Tail(p) \in Seq(SliceType)
    BY <1>3
  <2>2. PICK y \in SliceType, u \in Seq(SliceType) : y = p[1] /\ p = <<y>> \o u
    BY <2>1, Zenon
  <2>3. Size(<<y>> \o u) = Size(<<y>>) + Size(u) /\ Size(<<y>>) = y.len /\ Size(u) \in Nat /\ y.len \in Nat
    <3>1. <<y>> \in Seq(SliceType)
      OBVIOUS
    <3>2. Size(<<y>> \o u) = Size(<<y>>) + Size(u)
      BY <3>1, SizeOf, Zenon
    <3> QED
      BY <3>2, SizeOf, Zenon
  <2>4. PICK a \in Nat, b \in Nat : a = y.len /\ b = Size(u) /\ Size(p) = a + b
    BY <2>2, <2>3, Zenon
  <2>5. n < a
    BY <1>3, <2>1, <2>2, <2>4, Zenon
  <2>6. n < a + b
    BY <2>5
  <2> QED
    BY <2>4, <2>6, Zenon
<1>4. CASE c = p \o d /\ n = Size(p)
  <2>1. Size(c) = i + k
    BY <1>2, <1>4, SizeOf, Zenon
  <2>2. i = n
    BY <1>2, <1>4, Zenon
  <2>3. i + k = k + n
    BY <2>2
  <2>4. ASSUME c # <<>>, n < c[1].len PROVE d # <<>> /\ d[1].block = c[1].block
    <3>1. ~(n < n)
      OBVIOUS
    <3>2. p = <<>>
      BY <1>3, <1>4, <2>4, <3>1, Zenon
    <3>3. p \o d = d
      BY <3>2
    <3> QED
      BY <1>4, <2>4, <3>3, Zenon
  <2> QED
    BY <1>2, <2>1, <2>3, <2>4, Zenon
<1>5. CASE c = p \o (<<x>> \o r) /\ d = <<SlicePopFront(x, l)>> \o r /\ l < x.len /\ n = Size(p) + l
  <2>1. PICK y \in SliceType : y = SlicePopFront(x, l) /\ y.block = x.block /\ y.len = e - l
    <3>1. l < e
      BY <1>2, <1>5, Zenon
    <3>2. l <= e
      BY <3>1
    <3> QED
      BY <1>2, <3>2, CutIs, Zenon
  <2>2. <<x>> \in Seq(SliceType) /\ <<y>> \in Seq(SliceType) /\ <<x>> \o r \in Seq(SliceType)
    OBVIOUS
  <2>3. Size(<<x>> \o r) = e + j /\ Size(<<x>>) = e
    <3>1. Size(<<x>> \o r) = Size(<<x>>) + Size(r) /\ Size(<<x>>) = x.len
      BY <2>2, SizeOf, Zenon
    <3> QED
      BY <1>2, <3>1, Zenon
  <2>4. Size(d) = (e - l) + j
    <3>1. Size(<<y>> \o r) = Size(<<y>>) + Size(r) /\ Size(<<y>>) = y.len
      BY <2>2, SizeOf, Zenon
    <3> QED
      BY <1>2, <1>5, <2>1, <3>1, Zenon
  <2>5. Size(c) = i + (e + j)
    <3>1. Size(p \o (<<x>> \o r)) = Size(p) + Size(<<x>> \o r)
      BY <2>2, SizeOf, Zenon
    <3> QED
      BY <1>2, <1>5, <2>3, <3>1, Zenon
  <2>6. l < e /\ n = i + l /\ k = (e - l) + j
    BY <1>2, <1>5, <2>4, Zenon
  <2>7. i + (e + j) = k + n
    BY <2>6
  <2>8. ASSUME c # <<>>, n < c[1].len PROVE d # <<>> /\ d[1].block = c[1].block
    <3>1. ~(i + l < i)
      OBVIOUS
    <3>2. ~(n < Size(p))
      BY <1>2, <2>6, <3>1, Zenon
    <3>3. p = <<>>
      BY <1>3, <1>5, <2>2, <2>8, <3>2, Zenon
    <3>4. c = <<x>> \o r /\ d = <<y>> \o r
      <4>1. p \o (<<x>> \o r) = <<x>> \o r
        BY <2>2, <3>3
      <4> QED
        BY <1>5, <2>1, <4>1, Zenon
    <3>5. c[1] = x /\ d[1] = y /\ d # <<>>
      BY <3>4
    <3> QED
      BY <2>1, <3>5, Zenon
  <2> QED
    BY <1>2, <2>5, <2>7, <2>8, Zenon
<1> QED
  BY <1>1, <1>4, <1>5

\* _compact changes neither the slices that are left nor their bytes.
LEMMA CompactOK ==
  ASSUME NEW h, NEW os, NEW p \in BufferType, p.start <= Len(p.vs), Owned(h, os, p.vs),
         NEW r, r = Compact(h, p)
  PROVE  /\ r.buf \in BufferType /\ r.buf.start <= Len(r.buf.vs) /\ Owned(r.heap, os, r.buf.vs)
         /\ r.buf.length = p.length /\ Current(r.buf) = Current(p) /\ Kept(h, r.heap, Current(p))
<1>1. PICK v \in Seq(SliceType), a \in Nat, z \in Nat : v = p.vs /\ a = p.start /\ z = p.length
  BY DEF BufferType
<1>2. a \in 0..Len(v)
  <2>1. a <= Len(v) /\ Len(v) \in Nat
    BY <1>1
  <2> QED
    BY <2>1
<1>3. PICK c \in Seq(SliceType) : c = Current(p) /\ c = SubSeq(v, a + 1, Len(v))
  <2>1. SubSeq(v, a + 1, Len(v)) \in Seq(SliceType)
    BY <1>2, PartIs
  <2> QED
    BY <1>1, <2>1, Zenon DEF Current
<1>4. CASE ~MustCompact(p)
  <2>1. r.heap = h /\ r.buf = p
    <3>1. r = [heap |-> h, buf |-> p]
      BY <1>4, Zenon DEF Compact
    <3> QED
      BY <3>1
  <2> QED
    BY <2>1, Zenon DEF Kept
<1>5. CASE MustCompact(p)
  <2>1. PICK g : /\ g = UnrefAll(h, SubSeq(v, 1, a)) /\ Owned(g, os, c) /\ Kept(h, g, c)
    <3>1. Owned(h, os, v)
      BY <1>1, Zenon
    <3> QED
      BY <1>2, <1>3, <3>1, OwnUnrefAll, Zenon
  <2>2. PICK b : b = [vs |-> c, start |-> 0, length |-> z] /\ r = [heap |-> g, buf |-> b]
    <3>1. PICK b : b = [p EXCEPT !.vs = c, !.start = 0]
      BY Zenon
    <3>2. b = [vs |-> c, start |-> 0, length |-> z]
      BY <1>1, <3>1 DEF BufferType
    <3>3. r = [heap |-> g, buf |-> b]
      BY <1>1, <1>3, <1>5, <2>1, <3>1 DEF Compact
    <3> QED
      BY <3>2, <3>3, Zenon
  <2>3. r.heap = g /\ r.buf = b /\ b.vs = c /\ b.start = 0 /\ b.length = z
    BY <2>2
  <2>4. b \in BufferType
    BY <2>2 DEF BufferType
  <2>5. 0 <= Len(c) /\ SubSeq(c, 0 + 1, Len(c)) = c
    <3>1. SubSeq(c, 1, Len(c)) = c
      BY SubSeqFull
    <3> QED
      BY <3>1
  <2>6. Current(b) = c
    BY <2>3, <2>5, Zenon DEF Current
  <2> QED
    BY <1>1, <1>3, <2>1, <2>3, <2>4, <2>5, <2>6, Zenon
<1> QED
  BY <1>4, <1>5

\* A buffer p with heap g is what q with heap h has when n bytes are consumed.
Consumed(h, os, q, g, p, n) ==
  /\ BufferOK(p) /\ Owned(g, os, p.vs) /\ Kept(h, g, Current(p))
  /\ Passed(Current(q), Current(p), n)

\* Compacting completes the consumption.
LEMMA CompactPassed ==
  ASSUME NEW h, NEW os, NEW q, BufferOK(q), NEW n \in Nat, NEW p, PassedBuffer(h, os, q, p, n),
         NEW r, r = Compact(h, p)
  PROVE  Consumed(h, os, q, r.heap, r.buf, n)
<1>1. /\ p \in BufferType /\ p.start <= Len(p.vs) /\ Owned(h, os, p.vs)
      /\ p.length = q.length - n /\ Passed(Current(q), Current(p), n)
  BY Zenon DEF PassedBuffer
<1>2. /\ r.buf \in BufferType /\ r.buf.start <= Len(r.buf.vs) /\ Owned(r.heap, os, r.buf.vs)
      /\ r.buf.length = p.length /\ Current(r.buf) = Current(p) /\ Kept(h, r.heap, Current(p))
  <2>1. p \in BufferType /\ p.start <= Len(p.vs) /\ Owned(h, os, p.vs)
    BY <1>1, Zenon
  <2> QED
    BY <2>1, CompactOK, SMTT(30)
<1>3. p.length = Size(Current(p))
  <2>1. Current(p) \in Seq(SliceType)
    <3>1. PICK v \in Seq(SliceType), a \in Nat : v = p.vs /\ a = p.start /\ a <= Len(v)
      BY <1>1 DEF BufferType
    <3>2. a \in 0..Len(v)
      <4>1. a <= Len(v)
        BY <3>1, Zenon
      <4> QED
        BY <4>1
    <3>3. SubSeq(v, a + 1, Len(v)) \in Seq(SliceType)
      BY <3>2, PartIs
    <3> QED
      BY <3>1, <3>3, Zenon DEF Current
  <2>2. q.length = Size(Current(q)) /\ Current(q) \in Seq(SliceType)
    BY BufferParts, Zenon
  <2>3. Size(Current(q)) = Size(Current(p)) + n /\ Size(Current(p)) \in Nat
    BY <1>1, <2>1, <2>2, PassedIs, Zenon
  <2>4. PICK i \in Nat : i = Size(Current(p)) /\ q.length = i + n
    BY <2>2, <2>3, Zenon
  <2>5. q.length - n = i
    BY <2>4
  <2> QED
    BY <1>1, <2>4, <2>5, Zenon
<1>4. BufferOK(r.buf)
  BY <1>2, <1>3, Zenon DEF BufferOK
<1> QED
  BY <1>1, <1>2, <1>4, Zenon DEF Consumed

\* Nothing is consumed.
LEMMA ConsumedNone ==
  ASSUME NEW h, NEW os, NEW q, BufferOK(q), Owned(h, os, q.vs)
  PROVE  Consumed(h, os, q, h, q, 0)
<1>1. Current(q) \in Seq(SliceType)
  BY BufferParts, Zenon
<1>2. <<>> \in Seq(SliceType) /\ Current(q) = <<>> \o Current(q)
  BY <1>1
<1>3. Size(<<>>) = 0 /\ 0 \in Nat
  BY WeighedEmpty, Zenon DEF Size
<1>4. Passed(Current(q), Current(q), 0)
  BY <1>2, <1>3, EmptyIs, Zenon DEF Passed
<1> QED
  BY <1>4, Zenon DEF Consumed, Kept

\* move_header consumes n bytes, or none when there are fewer.
LEMMA MoveHeaderOK ==
  ASSUME NEW h, NEW os, NEW q, BufferOK(q), Owned(h, os, q.vs), NEW n \in Nat,
         NEW r, r = move_header(h, q, n)
  PROVE  Consumed(h, os, q, r.heap, r.buf, IF n <= q.length THEN n ELSE 0)
<1>1. q.length \in Nat
  BY BufferParts, Zenon
<1>2. CASE q.length < n \/ n = 0
  <2>1. r.heap = h /\ r.buf = q
    <3>1. r = [heap |-> h, buf |-> q]
      BY <1>2, Zenon DEF move_header
    <3> QED
      BY <3>1
  <2>2. (IF n <= q.length THEN n ELSE 0) = 0
    BY <1>1, <1>2
  <2> QED
    BY <2>1, <2>2, ConsumedNone, Zenon
<1>3. CASE ~(q.length < n \/ n = 0)
  <2>1. n <= q.length
    BY <1>1, <1>3
  <2>2. r = Compact(h, PassOver(q, n))
    BY <1>3, Zenon DEF move_header
  <2>3. PassedBuffer(h, os, q, PassOver(q, n), n)
    BY <2>1, PassOverOK, Zenon
  <2>4. Consumed(h, os, q, r.heap, r.buf, n)
    BY <2>2, <2>3, CompactPassed
  <2> QED
    BY <2>1, <2>4, Zenon
<1> QED
  BY <1>2, <1>3

\* pop_front consumes the first slice.
LEMMA PopFrontOK ==
  ASSUME NEW h, NEW os, NEW q, BufferOK(q), Owned(h, os, q.vs), NEW r, r = pop_front(h, q)
  PROVE  FirstSize(q) \in Nat /\ Consumed(h, os, q, r.heap, r.buf, FirstSize(q))
<1>1. PICK v \in Seq(SliceType), a \in Nat, z \in Nat, m \in Nat :
        /\ v = q.vs /\ a = q.start /\ z = q.length /\ m = Len(v) /\ a <= m
        /\ Current(q) = SubSeq(v, a + 1, m) /\ z = Size(Current(q))
  BY BufferParts, Zenon DEF Current
<1>2. CASE a >= m
  <2>1. r.heap = h /\ r.buf = q
    <3>1. r = [heap |-> h, buf |-> q]
      BY <1>1, <1>2, Zenon DEF pop_front
    <3> QED
      BY <3>1
  <2>2. ~(m - a > 0)
    BY <1>2
  <2>3. FirstSize(q) = 0
    BY <1>1, <2>2, Zenon DEF FirstSize, slice_count
  <2>4. 0 \in Nat
    OBVIOUS
  <2> QED
    BY <2>1, <2>3, <2>4, ConsumedNone, Zenon
<1>3. CASE ~(a >= m)
  <2>1. a < m /\ a + 1 \in Nat /\ a + 1 <= m
    BY <1>3
  <2>2. PICK x \in SliceType, d \in Seq(SliceType), e \in Nat :
          /\ x = v[a + 1] /\ d = SubSeq(v, (a + 1) + 1, m) /\ e = x.len /\ Current(q) = <<x>> \o d
    <3>1. a < Len(v)
      BY <1>1, <2>1, Zenon
    <3>2. /\ v[a + 1] \in SliceType /\ SubSeq(v, (a + 1) + 1, Len(v)) \in Seq(SliceType)
          /\ SubSeq(v, a + 1, Len(v)) = <<v[a + 1]>> \o SubSeq(v, (a + 1) + 1, Len(v))
      BY <3>1, RestIs
    <3>3. v[a + 1].len \in Nat
      BY <3>2 DEF SliceType
    <3> QED
      BY <1>1, <3>2, <3>3, Zenon
  <2>3. PICK p : p = [q EXCEPT !.length = @ - q.vs[q.start + 1].len, !.start = @ + 1] /\ r = Compact(h, p)
    BY <1>1, <1>3, Zenon DEF pop_front
  <2>4. p = [vs |-> v, start |-> a + 1, length |-> z - e]
    <3>1. q \in BufferType
      BY Zenon DEF BufferOK
    <3>2. q.vs = v /\ q.start = a /\ q.length = z /\ q.vs[q.start + 1].len = e
      BY <1>1, <2>2, Zenon
    <3>3. PICK i, j : i = q.length - q.vs[q.start + 1].len /\ j = q.start + 1
      BY Zenon
    <3>4. p = [vs |-> q.vs, start |-> j, length |-> i]
      BY <2>3, <3>1, <3>3 DEF BufferType
    <3> QED
      BY <3>2, <3>3, <3>4, Zenon
  <2>5. p.vs = v /\ p.start = a + 1 /\ p.length = z - e
    BY <2>4
  <2>6. <<x>> \in Seq(SliceType) /\ Size(<<x>>) = e /\ z = e + Size(d) /\ Size(d) \in Nat
    <3>1. <<x>> \in Seq(SliceType)
      OBVIOUS
    <3>2. Size(<<x>> \o d) = Size(<<x>>) + Size(d) /\ Size(<<x>>) = x.len
      BY <3>1, SizeOf, Zenon
    <3>3. Size(d) \in Nat
      BY EmptyIs, SizeOf, Zenon
    <3> QED
      BY <1>1, <2>2, <3>1, <3>2, <3>3, Zenon
  <2>7. z - e \in Nat
    BY <2>6
  <2>8. p \in BufferType
    BY <2>1, <2>4, <2>7 DEF BufferType
  <2>9. Current(p) = d
    BY <1>1, <2>2, <2>5, Zenon DEF Current
  <2>10. Passed(Current(q), Current(p), e)
    BY <2>2, <2>6, <2>9, Zenon DEF Passed
  <2>11. PassedBuffer(h, os, q, p, e)
    BY <1>1, <2>1, <2>5, <2>8, <2>10, Zenon DEF PassedBuffer
  <2>12. r = Compact(h, p)
    BY <2>3, Zenon
  <2>13. Consumed(h, os, q, r.heap, r.buf, e)
    BY <2>11, <2>12, CompactPassed
  <2>14. m - a > 0
    BY <2>1
  <2>15. FirstSize(q) = e
    BY <1>1, <2>2, <2>14, Zenon DEF FirstSize, slice_count
  <2> QED
    BY <2>13, <2>15, Zenon
<1> QED
  BY <1>2, <1>3

-----------------------------------------------------------------------------
(***************************************************************************)
(* What copy_to_buffer copies.                                             *)
(***************************************************************************)

\* The first bytes of two sequences, one behind the other.
LEMMA FirstOfTwo ==
  ASSUME NEW s \in Seq(Byte), NEW t \in Seq(Byte), NEW k \in Nat
  PROVE  /\ k <= Len(s) => SubSeq(s \o t, 1, k) = SubSeq(s, 1, k)
         /\ k <= Len(t) => SubSeq(s \o t, 1, Len(s) + k) = s \o SubSeq(t, 1, k)
<1>1. PICK m \in Nat, n \in Nat : m = Len(s) /\ n = Len(t)
  OBVIOUS
<1>2. PICK u \in Seq(Byte) : /\ u = s \o t /\ Len(u) = m + n
                             /\ (\A i \in 1..m : u[i] = s[i]) /\ \A j \in 1..n : u[m + j] = t[j]
  <2>1. /\ s \o t \in Seq(Byte) /\ Len(s \o t) = Len(s) + Len(t)
        /\ (\A i \in 1..Len(s) : (s \o t)[i] = s[i]) /\ \A j \in 1..Len(t) : (s \o t)[Len(s) + j] = t[j]
    BY ConcatByPlace
  <2> QED
    BY <1>1, <2>1, Zenon
<1>3. ASSUME k <= m PROVE SubSeq(u, 1, k) = SubSeq(s, 1, k)
  <2>1. PICK a \in Seq(Byte) : a = SubSeq(u, 1, k) /\ Len(a) = k /\ \A i \in 1..k : a[i] = u[i]
    <3>1. k \in 0..Len(u)
      BY <1>2, <1>3
    <3>2. SubSeq(u, 1, k) \in Seq(Byte) /\ Len(SubSeq(u, 1, k)) = k /\ \A i \in 1..k : SubSeq(u, 1, k)[i] = u[i]
      BY <3>1, PartIs
    <3> QED
      BY <3>2, Zenon
  <2>2. PICK b \in Seq(Byte) : b = SubSeq(s, 1, k) /\ Len(b) = k /\ \A i \in 1..k : b[i] = s[i]
    <3>1. k \in 0..Len(s)
      BY <1>1, <1>3
    <3>2. SubSeq(s, 1, k) \in Seq(Byte) /\ Len(SubSeq(s, 1, k)) = k /\ \A i \in 1..k : SubSeq(s, 1, k)[i] = s[i]
      BY <3>1, PartIs
    <3> QED
      BY <3>2, Zenon
  <2>3. \A i \in 1..k : i \in 1..m
    BY <1>3
  <2>4. \A i \in 1..k : a[i] = b[i]
    BY <1>2, <2>1, <2>2, <2>3, Zenon
  <2>5. a = b
    BY <2>1, <2>2, <2>4, SeqEqual, Zenon
  <2> QED
    BY <2>1, <2>2, <2>5, Zenon
<1>4. ASSUME k <= n PROVE SubSeq(u, 1, m + k) = s \o SubSeq(t, 1, k)
  <2>1. PICK a \in Seq(Byte) : a = SubSeq(u, 1, m + k) /\ Len(a) = m + k /\ \A i \in 1..(m + k) : a[i] = u[i]
    <3>1. PICK e \in Nat : e = m + k /\ e <= m + n
      BY <1>4
    <3>2. e \in 0..Len(u)
      BY <1>2, <3>1
    <3>3. SubSeq(u, 1, e) \in Seq(Byte) /\ Len(SubSeq(u, 1, e)) = e /\ \A i \in 1..e : SubSeq(u, 1, e)[i] = u[i]
      BY <3>2, PartIs
    <3> QED
      BY <3>1, <3>3, Zenon
  <2>2. PICK b \in Seq(Byte) : b = SubSeq(t, 1, k) /\ Len(b) = k /\ \A i \in 1..k : b[i] = t[i]
    <3>1. k \in 0..Len(t)
      BY <1>1, <1>4
    <3>2. SubSeq(t, 1, k) \in Seq(Byte) /\ Len(SubSeq(t, 1, k)) = k /\ \A i \in 1..k : SubSeq(t, 1, k)[i] = t[i]
      BY <3>1, PartIs
    <3> QED
      BY <3>2, Zenon
  <2>3. PICK c \in Seq(Byte) : /\ c = s \o b /\ Len(c) = m + k
                               /\ (\A i \in 1..m : c[i] = s[i]) /\ \A j \in 1..k : c[m + j] = b[j]
    <3>1. /\ s \o b \in Seq(Byte) /\ Len(s \o b) = Len(s) + Len(b)
          /\ (\A i \in 1..Len(s) : (s \o b)[i] = s[i]) /\ \A j \in 1..Len(b) : (s \o b)[Len(s) + j] = b[j]
      BY ConcatByPlace
    <3>2. Len(s \o b) = m + k /\ (\A i \in 1..m : (s \o b)[i] = s[i]) /\ \A j \in 1..k : (s \o b)[m + j] = b[j]
      BY <1>1, <2>2, <3>1, Zenon
    <3> QED
      BY <3>1, <3>2, Zenon
  <2>4. ASSUME NEW i \in 1..(m + k) PROVE a[i] = c[i]
    <3>1. CASE i \in 1..m
      BY <1>2, <2>1, <2>3, <3>1, Zenon
    <3>2. CASE i \notin 1..m
      <4>1. PICK j \in 1..k : i = m + j /\ j \in 1..n
        <5>1. i - m \in 1..k /\ i = m + (i - m) /\ i - m \in 1..n
          BY <1>4, <3>2
        <5> QED
          BY <5>1, Zenon
      <4>2. a[i] = t[j] /\ b[j] = t[j]
        BY <1>2, <2>1, <2>2, <4>1, Zenon
      <4>3. c[i] = b[j]
        BY <2>3, <4>1, Zenon
      <4> QED
        BY <4>2, <4>3, Zenon
    <3> QED
      BY <3>1, <3>2
  <2>5. a = c
    BY <2>1, <2>3, <2>4, SeqEqual, Zenon
  <2> QED
    BY <2>1, <2>2, <2>3, <2>5, Zenon
<1> QED
  BY <1>1, <1>2, <1>3, <1>4, Zenon

\* The first bytes of a slice.
LEMMA ContentFirst ==
  ASSUME NEW h \in HeapType, NEW s \in SliceType, Within(h, s), NEW k \in Nat, k <= s.len
  PROVE  Content(h, [s EXCEPT !.len = k]) = SubSeq(Content(h, s), 1, k)
<1>1. PICK m \in Seq(Byte), i \in Nat, l \in Nat, n \in Nat : m = Memory(h, s) /\ i = s.off /\ l = s.len /\ n = Len(m) /\ i + l <= n
  <2>1. s.off \in Nat /\ s.len \in Nat
    BY DEF SliceType
  <2> QED
    BY <2>1, MemoryType, Zenon DEF Within
<1>2. PICK t \in SliceType : t = [s EXCEPT !.len = k] /\ t.block = s.block /\ t.off = i /\ t.len = k
  <2>1. i = s.off
    BY <1>1, Zenon
  <2>2. PICK t : t = [s EXCEPT !.len = k]
    BY Zenon
  <2>3. t \in SliceType /\ t.block = s.block /\ t.off = i /\ t.len = k
    BY <2>1, <2>2 DEF SliceType
  <2> QED
    BY <2>2, <2>3
<1>3. Memory(h, t) = m
  BY <1>1, <1>2, BlockMemory, Zenon
<1>4. k <= l /\ i + l <= n
  BY <1>1, Zenon
<1>5. i + k <= n
  BY <1>4
<1>6. Within(h, t)
  BY <1>1, <1>2, <1>3, <1>5, Zenon DEF Within
<1>7. Content(h, t) = SubSeq(m, i + 1, i + k) /\ Content(h, s) = SubSeq(m, i + 1, i + l)
  BY <1>1, <1>2, <1>3, <1>6, ContentIs, Zenon
<1>8. PICK a \in Seq(Byte) : a = SubSeq(m, i + 1, i + l) /\ Len(a) = l /\ \A j \in 1..l : a[j] = m[i + j]
  <2>1. n = Len(m) /\ i + l <= n
    BY <1>1, Zenon
  <2>2. /\ SubSeq(m, i + 1, i + l) \in Seq(Byte) /\ Len(SubSeq(m, i + 1, i + l)) = l
        /\ \A j \in 1..l : SubSeq(m, i + 1, i + l)[j] = m[i + j]
    BY <2>1
  <2> QED
    BY <2>2, Zenon
<1>9. PICK b \in Seq(Byte) : b = SubSeq(m, i + 1, i + k) /\ Len(b) = k /\ \A j \in 1..k : b[j] = m[i + j]
  <2>1. n = Len(m)
    BY <1>1, Zenon
  <2>2. /\ SubSeq(m, i + 1, i + k) \in Seq(Byte) /\ Len(SubSeq(m, i + 1, i + k)) = k
        /\ \A j \in 1..k : SubSeq(m, i + 1, i + k)[j] = m[i + j]
    BY <1>5, <2>1
  <2> QED
    BY <2>2, Zenon
<1>10. PICK c \in Seq(Byte) : c = SubSeq(a, 1, k) /\ Len(c) = k /\ \A j \in 1..k : c[j] = a[j]
  <2>1. k \in 0..Len(a)
    BY <1>4, <1>8
  <2>2. SubSeq(a, 1, k) \in Seq(Byte) /\ Len(SubSeq(a, 1, k)) = k /\ \A j \in 1..k : SubSeq(a, 1, k)[j] = a[j]
    BY <2>1, PartIs
  <2> QED
    BY <2>2, Zenon
<1>11. \A j \in 1..k : j \in 1..l
  BY <1>4
<1>12. \A j \in 1..k : b[j] = c[j]
  BY <1>8, <1>9, <1>10, <1>11, Zenon
<1>13. b = c
  BY <1>9, <1>10, <1>12, SeqEqual, Zenon
<1> QED
  BY <1>2, <1>7, <1>8, <1>9, <1>10, <1>13, Zenon

CopyType == [left : Nat, out : Seq(Byte)]

\* One round.
LEMMA CopyFromIs ==
  ASSUME NEW h \in HeapType, NEW acc \in CopyType, NEW s \in SliceType
  PROVE  \E k \in Nat :
           /\ k = IF acc.left <= s.len THEN acc.left ELSE s.len
           /\ CopyFrom(h, acc, s).left = acc.left - k
           /\ CopyFrom(h, acc, s).out = acc.out \o Content(h, [s EXCEPT !.len = k])
           /\ CopyFrom(h, acc, s) \in CopyType
<1>1. acc.left \in Nat /\ acc.out \in Seq(Byte) /\ s.len \in Nat
  BY DEF CopyType, SliceType
<1>2. PICK k \in Nat : k = Min({acc.left, s.len}) /\ k = IF acc.left <= s.len THEN acc.left ELSE s.len
  BY <1>1, LesserOf
<1>3. PICK t \in SliceType : t = [s EXCEPT !.len = k]
  <2>1. PICK t : t = [s EXCEPT !.len = k]
    BY Zenon
  <2>2. t \in SliceType
    BY <2>1 DEF SliceType
  <2> QED
    BY <2>1, <2>2
<1>4. PICK b \in Seq(Byte) : b = acc.out \o Content(h, t)
  <2>1. Content(h, t) \in Seq(Byte)
    BY ContentType, Zenon
  <2>2. acc.out \o Content(h, t) \in Seq(Byte)
    BY <1>1, <2>1
  <2> QED
    BY <2>2, Zenon
<1>5. acc.left - k \in Nat
  <2>1. PICK a \in Nat, b0 \in Nat : a = acc.left /\ b0 = s.len /\ k = IF a <= b0 THEN a ELSE b0
    BY <1>1, <1>2, Zenon
  <2>2. a - k \in Nat
    BY <2>1
  <2> QED
    BY <2>1, <2>2, Zenon
<1>6. CopyFrom(h, acc, s) = [left |-> acc.left - k, out |-> b]
  BY <1>2, <1>3, <1>4 DEF CopyFrom
<1>7. /\ CopyFrom(h, acc, s).left = acc.left - k /\ CopyFrom(h, acc, s).out = b
      /\ CopyFrom(h, acc, s) \in CopyType
  BY <1>5, <1>6 DEF CopyType
<1>8. b = acc.out \o Content(h, [s EXCEPT !.len = k])
  BY <1>3, <1>4
<1> QED
  BY <1>2, <1>7, <1>8

\* The rounds, one after the other.
LEMMA CopySteps ==
  ASSUME NEW h \in HeapType, NEW q, NEW ss \in Seq(SliceType), ss = Current(q), NEW n \in Nat
  PROVE  \E f : /\ f[0] = [left |-> n, out |-> <<>>] /\ copy_to_buffer(h, q, n) = f[Len(ss)].out
                /\ \A i \in 1..Len(ss) : f[i] = CopyFrom(h, f[i - 1], ss[i])
<1>1. PICK m \in Nat : m = Len(ss)
  OBVIOUS
<1>2. \A i \in 1..m : ss[i] \in SliceType
  BY <1>1, ElementOfSeq
<1>3. PICK z \in CopyType : z = [left |-> n, out |-> <<>>]
  <2>1. [left |-> n, out |-> <<>>] \in CopyType
    BY DEF CopyType
  <2> QED
    BY <2>1, Zenon
<1> DEFINE next == [i \in 1..m |-> [a \in CopyType |-> CopyFrom(h, a, ss[i])]]
<1>4. next \in [1..m -> [CopyType -> CopyType]]
  <2>1. ASSUME NEW i \in 1..m, NEW a \in CopyType PROVE CopyFrom(h, a, ss[i]) \in CopyType
    BY <1>2, CopyFromIs
  <2> QED
    BY <2>1
<1>5. \A i \in 1..m : \A a \in CopyType : next[i][a] = CopyFrom(h, a, ss[i])
  OBVIOUS
<1> HIDE DEF next
<1>6. PICK f : Steps(f, CopyType, z, next, m)
  BY <1>4, Iterate, Zenon
<1>7. f \in [0..m -> CopyType] /\ f[0] = z /\ \A i \in 1..m : f[i] = next[i][f[i - 1]]
  BY <1>6, Zenon DEF Steps
<1>8. \A i \in 1..m : f[i] = CopyFrom(h, f[i - 1], ss[i])
  <2>1. \A i \in 1..m : f[i - 1] \in CopyType
    BY <1>7
  <2> QED
    BY <1>5, <1>7, <2>1, Zenon
<1> DEFINE Is(v) == v = [i \in 0..m |-> IF i = 0 THEN [left |-> n, out |-> <<>>] ELSE CopyFrom(h, v[i - 1], ss[i])]
           u == CHOOSE v : Is(v)
<1>9. Is(f)
  <2>1. ASSUME NEW i \in 0..m PROVE f[i] = IF i = 0 THEN [left |-> n, out |-> <<>>] ELSE CopyFrom(h, f[i - 1], ss[i])
    <3>1. i = 0 \/ i \in 1..m
      OBVIOUS
    <3>2. 0 \notin 1..m
      OBVIOUS
    <3> QED
      BY <1>3, <1>7, <1>8, <3>1, <3>2, Zenon
  <2>2. f = [i \in 0..m |-> f[i]]
    BY <1>7
  <2> QED
    BY <2>1, <2>2, Zenon
<1>10. Is(u)
  <2> HIDE DEF Is
  <2> QED
    BY <1>9, Zenon
<1>11. copy_to_buffer(h, q, n) = u[m].out
  BY <1>1, Zenon DEF copy_to_buffer
<1> HIDE DEF u
<1>12. u[0] = [left |-> n, out |-> <<>>] /\ \A i \in 1..m : u[i] = CopyFrom(h, u[i - 1], ss[i])
  <2>1. \A i \in 0..m : u[i] = IF i = 0 THEN [left |-> n, out |-> <<>>] ELSE CopyFrom(h, u[i - 1], ss[i])
    BY <1>10, Zenon
  <2>2. 0 \in 0..m /\ \A i \in 1..m : i \in 0..m /\ i # 0
    OBVIOUS
  <2> QED
    BY <2>1, <2>2, Zenon
<1> QED
  BY <1>1, <1>11, <1>12, Zenon

\* acc has the first bytes of a, as many as it was to copy or as there are.
CopiedFrom(acc, a, n) ==
  \E k \in Nat : /\ k <= Len(a) /\ acc.out = SubSeq(a, 1, k) /\ k + acc.left = n
                 /\ acc.left > 0 => k = Len(a)

\* A round keeps this.
LEMMA CopyRound ==
  ASSUME NEW h \in HeapType, NEW acc \in CopyType, NEW a \in Seq(Byte), NEW n \in Nat, CopiedFrom(acc, a, n),
         NEW s \in SliceType, Within(h, s)
  PROVE  CopyFrom(h, acc, s) \in CopyType /\ CopiedFrom(CopyFrom(h, acc, s), a \o Content(h, s), n)
<1>1. PICK k \in Nat : /\ k <= Len(a) /\ acc.out = SubSeq(a, 1, k) /\ k + acc.left = n
                       /\ acc.left > 0 => k = Len(a)
  BY Zenon DEF CopiedFrom
<1>2. PICK j \in Nat : /\ j = IF acc.left <= s.len THEN acc.left ELSE s.len
                       /\ CopyFrom(h, acc, s).left = acc.left - j
                       /\ CopyFrom(h, acc, s).out = acc.out \o Content(h, [s EXCEPT !.len = j])
                       /\ CopyFrom(h, acc, s) \in CopyType
  BY CopyFromIs
<1>3. PICK c \in Seq(Byte), l \in Nat, e \in Nat, m \in Nat :
        c = Content(h, s) /\ l = s.len /\ Len(c) = l /\ e = acc.left /\ m = Len(a)
  <2>1. s.len \in Nat /\ acc.left \in Nat /\ Len(a) \in Nat
    BY DEF SliceType, CopyType
  <2> QED
    BY <2>1, ContentIs, Zenon
<1>4. j <= l /\ j <= e /\ (j = e \/ j = l)
  <2>1. j = IF e <= l THEN e ELSE l
    BY <1>2, <1>3, Zenon
  <2> QED
    BY <2>1
<1>5. Content(h, [s EXCEPT !.len = j]) = SubSeq(c, 1, j)
  <2>1. j <= s.len
    BY <1>3, <1>4, Zenon
  <2>2. Content(h, [s EXCEPT !.len = j]) = SubSeq(Content(h, s), 1, j)
    BY <2>1, ContentFirst
  <2> QED
    BY <1>3, <2>2
<1>6. PICK r \in CopyType : r = CopyFrom(h, acc, s) /\ r.left = e - j /\ r.out = SubSeq(a, 1, k) \o SubSeq(c, 1, j)
  <2>1. CopyFrom(h, acc, s).out = SubSeq(a, 1, k) \o SubSeq(c, 1, j)
    BY <1>1, <1>2, <1>5
  <2> QED
    BY <1>2, <1>3, <2>1, Zenon
<1>7. k <= m /\ k + e = n /\ (e > 0 => k = m)
  BY <1>1, <1>3, Zenon
<1>8. PICK u \in Seq(Byte) : u = a \o c /\ Len(u) = m + l
  <2>1. a \o c \in Seq(Byte) /\ Len(a \o c) = Len(a) + Len(c)
    BY ConcatProperties
  <2> QED
    BY <1>3, <2>1, Zenon
<1>9. k + j \in Nat /\ k + j <= m + l /\ (k + j) + (e - j) = n /\ (e - j > 0 => k + j = m + l)
  BY <1>4, <1>7
<1>10. r.out = SubSeq(u, 1, k + j)
  <2>1. CASE e = 0
    <3>1. j = 0 /\ k + j = k
      BY <1>4, <2>1
    <3>2. SubSeq(c, 1, 0) = <<>> /\ SubSeq(a, 1, k) \in Seq(Byte)
      BY <1>3, <1>7
    <3>3. SubSeq(a, 1, k) \o <<>> = SubSeq(a, 1, k)
      BY <3>2
    <3>4. k <= Len(a)
      BY <1>1, Zenon
    <3>5. SubSeq(a \o c, 1, k) = SubSeq(a, 1, k)
      BY <3>4, FirstOfTwo, Zenon
    <3> QED
      BY <1>6, <1>8, <3>1, <3>2, <3>3, <3>5, Zenon
  <2>2. CASE e # 0
    <3>1. k = m
      BY <1>7, <2>2
    <3>2. SubSeq(a, 1, Len(a)) = a
      BY SubSeqFull
    <3>3. j <= Len(c)
      BY <1>3, <1>4, Zenon
    <3>4. SubSeq(a \o c, 1, Len(a) + j) = a \o SubSeq(c, 1, j)
      BY <3>3, FirstOfTwo, Zenon
    <3> QED
      BY <1>3, <1>6, <1>8, <3>1, <3>2, <3>4, Zenon
  <2> QED
    BY <2>1, <2>2
<1>11. CopiedFrom(r, u, n)
  BY <1>6, <1>8, <1>9, <1>10, Zenon DEF CopiedFrom
<1> QED
  BY <1>3, <1>6, <1>8, <1>11, Zenon

\* copy_to_buffer copies the first bytes, as many as asked for or as there are.
LEMMA CopyIs ==
  ASSUME NEW h \in HeapType, NEW q, NEW ss \in Seq(SliceType), ss = Current(q), NEW n \in Nat,
         \A i \in 1..Len(ss) : Within(h, ss[i])
  PROVE  \E k \in Nat : /\ k <= n /\ k <= Size(ss) /\ (k = n \/ k = Size(ss))
                        /\ copy_to_buffer(h, q, n) = SubSeq(Joined(h, ss), 1, k)
                        /\ copy_to_buffer(h, q, n) \in Seq(Byte) /\ Len(copy_to_buffer(h, q, n)) = k
<1>1. PICK m \in Nat : m = Len(ss)
  OBVIOUS
<1>2. PICK f : /\ f[0] = [left |-> n, out |-> <<>>] /\ copy_to_buffer(h, q, n) = f[m].out
               /\ \A i \in 1..m : f[i] = CopyFrom(h, f[i - 1], ss[i])
  <2>1. PICK f : /\ f[0] = [left |-> n, out |-> <<>>] /\ copy_to_buffer(h, q, n) = f[Len(ss)].out
                 /\ \A i \in 1..Len(ss) : f[i] = CopyFrom(h, f[i - 1], ss[i])
    BY CopySteps, SMTT(30)
  <2> QED
    BY <1>1, <2>1, Zenon
<1>3. PICK g \in [0..m -> Seq(Byte)] : /\ g[0] = <<>> /\ g[m] = Joined(h, ss)
                                       /\ \A i \in 1..m : g[i] = g[i - 1] \o Content(h, ss[i])
  BY <1>1, JoinedSteps, Zenon
<1> DEFINE P(i) == f[i] \in CopyType /\ CopiedFrom(f[i], g[i], n)
           T == {i \in Nat : i <= m => P(i)}
<1>4. 0 \in T
  <2>1. f[0] \in CopyType /\ f[0].left = n /\ f[0].out = <<>>
    BY <1>2 DEF CopyType
  <2>2. SubSeq(<<>>, 1, 0) = <<>> /\ Len(<<>>) = 0 /\ 0 + n = n /\ 0 <= 0 /\ 0 \in Nat
    OBVIOUS
  <2>3. CopiedFrom(f[0], g[0], n)
    BY <1>3, <2>1, <2>2, Zenon DEF CopiedFrom
  <2> HIDE DEF P
  <2> QED
    BY <2>1, <2>3 DEF P
<1>5. ASSUME NEW i \in Nat, i \in T PROVE i + 1 \in T
  <2> HIDE DEF P
  <2> SUFFICES ASSUME i + 1 <= m PROVE P(i + 1)
    OBVIOUS
  <2>1. i + 1 \in 1..m /\ i \in 0..m /\ (i + 1) - 1 = i /\ P(i)
    BY <1>5
  <2>2. ss[i + 1] \in SliceType /\ Within(h, ss[i + 1])
    BY <1>1, <2>1, ElementOfSeq
  <2>3. f[i + 1] = CopyFrom(h, f[i], ss[i + 1]) /\ g[i + 1] = g[i] \o Content(h, ss[i + 1])
    BY <1>2, <1>3, <2>1, Zenon
  <2>4. g[i] \in Seq(Byte)
    BY <1>3, <2>1
  <2>5. f[i] \in CopyType /\ CopiedFrom(f[i], g[i], n)
    BY <2>1, Zenon DEF P
  <2>6. CopyFrom(h, f[i], ss[i + 1]) \in CopyType /\ CopiedFrom(CopyFrom(h, f[i], ss[i + 1]), g[i] \o Content(h, ss[i + 1]), n)
    BY <2>2, <2>4, <2>5, CopyRound, Zenon
  <2> QED
    BY <2>3, <2>6, Zenon DEF P
<1>6. Nat \subseteq T
  <2> HIDE DEF T
  <2> QED
    BY <1>4, <1>5, SetInduction
<1>7. P(m)
  <2> HIDE DEF P
  <2> QED
    BY <1>6
<1>8. PICK b \in Seq(Byte) : b = g[m] /\ b = Joined(h, ss) /\ Len(b) = Size(ss)
  <2>1. Joined(h, ss) \in Seq(Byte) /\ Len(Joined(h, ss)) = Size(ss)
    BY JoinedType, JoinedLen, Zenon DEF Size
  <2> QED
    BY <1>3, <2>1, Zenon
<1>9. PICK k \in Nat : /\ k <= Len(b) /\ f[m].out = SubSeq(b, 1, k) /\ k + f[m].left = n
                       /\ f[m].left > 0 => k = Len(b)
  BY <1>7, <1>8, Zenon DEF CopiedFrom
<1>10. PICK e \in Nat : e = f[m].left
  BY <1>7 DEF CopyType
<1>11. k <= Len(b) /\ k + e = n /\ (e > 0 => k = Len(b))
  BY <1>9, <1>10, Zenon
<1>12. k <= n /\ (k = n \/ k = Len(b))
  BY <1>11
<1>13. SubSeq(b, 1, k) \in Seq(Byte) /\ Len(SubSeq(b, 1, k)) = k
  <2>1. k \in 0..Len(b)
    BY <1>11
  <2> QED
    BY <2>1, PartIs
<1> QED
  BY <1>2, <1>8, <1>9, <1>11, <1>12, <1>13, Zenon

-----------------------------------------------------------------------------
(***************************************************************************)
(* The end of the buffer.                                                  *)
(***************************************************************************)

\* The rest of a sequence with an element behind it.
LEMMA RestAppend ==
  ASSUME NEW S, NEW v \in Seq(S), NEW s \in S, NEW a \in Nat, a <= Len(v)
  PROVE  SubSeq(Append(v, s), a + 1, Len(v) + 1) = Append(SubSeq(v, a + 1, Len(v)), s)
<1>1. PICK n \in Nat, i \in Nat : n = Len(v) /\ a + i = n /\ n - a = i /\ (a + i) + 1 = n + 1 /\ a \in 0..n
  <2>1. PICK n \in Nat : n = Len(v) /\ a <= n
    OBVIOUS
  <2>2. n - a \in Nat /\ a + (n - a) = n /\ (a + (n - a)) + 1 = n + 1 /\ a \in 0..n
    BY <2>1
  <2> QED
    BY <2>1, <2>2, Zenon
<1>2. PICK w \in Seq(S) : w = Append(v, s) /\ Len(w) = n + 1 /\ w[n + 1] = s /\ \A k \in 1..n : w[k] = v[k]
  <2>1. /\ Append(v, s) \in Seq(S) /\ Len(Append(v, s)) = Len(v) + 1
        /\ Append(v, s)[Len(v) + 1] = s /\ \A k \in 1..Len(v) : Append(v, s)[k] = v[k]
    BY AppendJoins
  <2> QED
    BY <1>1, <2>1, Zenon
<1>3. SubSeq(w, a + 1, n + 1) = Append(SubSeq(w, a + 1, n), s)
  <2>1. (a + i) + 1 <= n + 1
    BY <1>1
  <2>2. (a + i) + 1 <= Len(w)
    BY <1>2, <2>1, Zenon
  <2>3. SubSeq(w, a + 1, (a + i) + 1) = Append(SubSeq(w, a + 1, a + i), w[(a + i) + 1])
    BY <2>2, PartAppend, Zenon
  <2> QED
    BY <1>1, <1>2, <2>3, Zenon
<1>4. PICK d \in Seq(S) : d = SubSeq(v, a + 1, n) /\ Len(d) = i /\ \A k \in 1..i : d[k] = v[a + k]
  <2>1. a \in 0..Len(v)
    BY <1>1, Zenon
  <2>2. /\ SubSeq(v, a + 1, Len(v)) \in Seq(S) /\ Len(SubSeq(v, a + 1, Len(v))) = Len(v) - a
        /\ \A k \in 1..(Len(v) - a) : SubSeq(v, a + 1, Len(v))[k] = v[a + k]
    BY <2>1, PartIs
  <2> QED
    BY <1>1, <2>2, Zenon
<1>5. PICK e \in Seq(S) : e = SubSeq(w, a + 1, n) /\ Len(e) = i /\ \A k \in 1..i : e[k] = w[a + k]
  <2>1. \A k \in 1..(n + 1) : w[k] \in S
    BY <1>2
  <2>2. /\ SubSeq(w, a + 1, a + i) \in Seq(S) /\ Len(SubSeq(w, a + 1, a + i)) = i
        /\ \A k \in 1..i : SubSeq(w, a + 1, a + i)[k] = w[a + k]
    BY <1>1, <1>2, <2>1
  <2> QED
    BY <1>1, <2>2, Zenon
<1>6. ASSUME NEW k \in 1..i PROVE d[k] = e[k]
  <2>1. a + k \in 1..n
    BY <1>1
  <2> QED
    BY <1>2, <1>4, <1>5, <2>1, Zenon
<1>7. d = e
  BY <1>4, <1>5, <1>6, SeqEqual, Zenon
<1> QED
  BY <1>1, <1>2, <1>3, <1>4, <1>5, <1>7, Zenon

\* A sequence that is not empty is its front with the last element behind it.
LEMMA FrontIs ==
  ASSUME NEW S, NEW v \in Seq(S), v # <<>>
  PROVE  /\ Front(v) \in Seq(S) /\ Last(v) \in S /\ v = Append(Front(v), Last(v))
         /\ Len(v) = Len(Front(v)) + 1
<1>1. PICK n \in Nat, m \in Nat : /\ n = Len(v) /\ n = m + 1 /\ m = n - 1 /\ m = 0 + m /\ n = (0 + m) + 1 /\ m \in 0..n /\ n \in 1..n
                                  /\ 0 + 1 = 1 /\ (0 + m) + 1 <= n
  <2>1. PICK n \in Nat : n = Len(v) /\ n > 0
    OBVIOUS
  <2>2. /\ n - 1 \in Nat /\ n = (n - 1) + 1 /\ n - 1 = 0 + (n - 1) /\ n = (0 + (n - 1)) + 1 /\ n - 1 \in 0..n /\ n \in 1..n
        /\ 0 + 1 = 1 /\ (0 + (n - 1)) + 1 <= n
    BY <2>1
  <2> QED
    BY <2>1, <2>2, Zenon
<1>2. v[n] \in S
  <2>1. Len(v) \in 1..Len(v)
    BY <1>1, Zenon
  <2>2. v[Len(v)] \in S
    BY <2>1
  <2> QED
    BY <1>1, <2>2, Zenon
<1>3. SubSeq(v, 1, m) \in Seq(S) /\ Len(SubSeq(v, 1, m)) = m
  <2>1. m \in 0..Len(v)
    BY <1>1, Zenon
  <2> QED
    BY <2>1, PartIs
<1>4. SubSeq(v, 0 + 1, (0 + m) + 1) = Append(SubSeq(v, 0 + 1, 0 + m), v[(0 + m) + 1])
  <2>1. (0 + m) + 1 <= Len(v) /\ 0 \in Nat
    BY <1>1, Zenon
  <2> QED
    BY <2>1, PartAppend, Zenon
<1>5. SubSeq(v, 1, Len(v)) = v
  BY SubSeqFull
<1>6. v = Append(SubSeq(v, 1, m), v[n])
  BY <1>1, <1>4, <1>5, Zenon
<1>7. Front(v) = SubSeq(v, 1, m) /\ Last(v) = v[n]
  BY <1>1, Zenon DEF Front, Last
<1> QED
  BY <1>1, <1>2, <1>3, <1>6, <1>7, Zenon

\* add_slice puts a slice with bytes behind the others.
LEMMA AddSliceOK ==
  ASSUME NEW q, BufferOK(q), NEW s \in SliceType, s.len # 0, NEW p, p = add_slice(q, s)
  PROVE  /\ BufferOK(p) /\ p.vs = Append(q.vs, s) /\ Current(p) = Append(Current(q), s) /\ p # q
<1>1. PICK v \in Seq(SliceType), a \in Nat, z \in Nat, m \in Nat, e \in Nat :
        /\ v = q.vs /\ a = q.start /\ z = q.length /\ m = Len(v) /\ a <= m /\ e = s.len
        /\ Current(q) = SubSeq(v, a + 1, m) /\ z = Size(Current(q)) /\ Current(q) \in Seq(SliceType)
  <2>1. s.len \in Nat
    BY DEF SliceType
  <2> QED
    BY <2>1, BufferParts, Zenon DEF Current
<1>2. PICK w \in Seq(SliceType) : w = Append(v, s) /\ Len(w) = m + 1
  <2>1. Append(v, s) \in Seq(SliceType) /\ Len(Append(v, s)) = Len(v) + 1
    BY AppendJoins
  <2> QED
    BY <1>1, <2>1, Zenon
<1>3. p = [vs |-> w, start |-> a, length |-> z + e]
  <2>1. PICK i : i = z + e
    BY Zenon
  <2>2. q = [vs |-> v, start |-> a, length |-> z]
    BY <1>1, BufferParts, Zenon
  <2>3. p = [q EXCEPT !.vs = Append(@, s), !.length = @ + s.len]
    BY Zenon DEF add_slice
  <2>4. p = [vs |-> Append(v, s), start |-> a, length |-> z + s.len]
    BY <2>2, <2>3
  <2> QED
    BY <1>1, <1>2, <2>1, <2>4, Zenon
<1>4. p.vs = w /\ p.start = a /\ p.length = z + e
  BY <1>3
<1>5. p \in BufferType /\ a <= m + 1 /\ m + 1 # m
  <2>1. a <= m
    BY <1>1, Zenon
  <2>2. a <= m + 1 /\ m + 1 # m /\ z + e \in Nat
    BY <2>1
  <2>3. p \in BufferType
    BY <1>3, <2>2 DEF BufferType
  <2> QED
    BY <2>2, <2>3, Zenon
<1>6. Current(p) = Append(Current(q), s)
  <2>1. SubSeq(Append(v, s), a + 1, Len(v) + 1) = Append(SubSeq(v, a + 1, Len(v)), s)
    BY <1>1, RestAppend, Zenon
  <2> QED
    BY <1>1, <1>2, <1>4, <2>1, Zenon DEF Current
<1>7. Size(Current(p)) = z + e
  <2>1. Size(Append(Current(q), s)) = Size(Current(q)) + s.len
    BY <1>1, SizeOf, Zenon
  <2> QED
    BY <1>1, <1>6, <2>1, Zenon
<1> QED
  BY <1>1, <1>2, <1>4, <1>5, <1>6, <1>7, Zenon DEF BufferOK

\* d is c, or c without its last slice.
BackGone(c, d) == c = d \/ \E x \in SliceType : c = Append(d, x)

\* pop_back drops the last slice.
LEMMA PopBackOK ==
  ASSUME NEW h, NEW os, NEW q, BufferOK(q), Owned(h, os, q.vs), NEW r, r = pop_back(h, q)
  PROVE  /\ BufferOK(r.buf) /\ Owned(r.heap, os, r.buf.vs) /\ Kept(h, r.heap, Current(r.buf))
         /\ BackGone(Current(q), Current(r.buf)) /\ r.buf.length = q.length - LastSize(q)
<1>1. PICK v \in Seq(SliceType), a \in Nat, z \in Nat, m \in Nat :
        /\ v = q.vs /\ a = q.start /\ z = q.length /\ m = Len(v) /\ a <= m
        /\ Current(q) = SubSeq(v, a + 1, m) /\ z = Size(Current(q)) /\ q = [vs |-> v, start |-> a, length |-> z]
  BY BufferParts, ZenonT(60) DEF Current
<1>2. CASE a >= m
  <2>1. r.heap = h /\ r.buf = q
    <3>1. r = [heap |-> h, buf |-> q]
      BY <1>1, <1>2, Zenon DEF pop_back
    <3> QED
      BY <3>1
  <2>2. ~(m - a > 0) /\ z - 0 = z
    BY <1>2
  <2>3. LastSize(q) = 0
    BY <1>1, <2>2, Zenon DEF LastSize, slice_count
  <2>4. r.buf.length = q.length - LastSize(q)
    BY <1>1, <2>1, <2>2, <2>3, Zenon
  <2> QED
    BY <2>1, <2>4, Zenon DEF Kept, BackGone
<1>3. CASE ~(a >= m)
  <2>1. v # <<>>
    BY <1>1, <1>3
  <2>2. PICK w \in Seq(SliceType), x \in SliceType, j \in Nat :
          w = Front(v) /\ x = Last(v) /\ v = Append(w, x) /\ j = Len(w) /\ m = j + 1
    <3>1. /\ Front(v) \in Seq(SliceType) /\ Last(v) \in SliceType /\ v = Append(Front(v), Last(v))
          /\ Len(v) = Len(Front(v)) + 1
      BY <2>1, FrontIs
    <3>2. Len(Front(v)) \in Nat
      BY <3>1
    <3> QED
      BY <1>1, <3>1, <3>2, Zenon
  <2>3. a <= j
    BY <1>1, <1>3, <2>2
  <2>4. PICK e \in Nat : e = x.len
    BY DEF SliceType
  <2>5. PICK g, p : g = Unref(h, x) /\ p = [vs |-> w, start |-> a, length |-> z - e] /\ r.heap = g /\ r.buf = p
    <3>1. PICK g, p : g = Unref(h, Last(q.vs)) /\ p = [q EXCEPT !.length = @ - Last(q.vs).len, !.vs = Front(@)]
      BY Zenon
    <3>2. r = [heap |-> g, buf |-> p]
      BY <1>1, <1>3, <3>1, Zenon DEF pop_back
    <3>3. p = [vs |-> Front(v), start |-> a, length |-> z - Last(q.vs).len]
      BY <1>1, <3>1
    <3>4. Last(q.vs) = x /\ Last(q.vs).len = e
      BY <1>1, <2>2, <2>4, Zenon
    <3>5. p = [vs |-> w, start |-> a, length |-> z - e]
      BY <2>2, <3>3, <3>4, Zenon
    <3>6. r.heap = g /\ r.buf = p
      BY <3>2
    <3> QED
      BY <3>1, <3>4, <3>5, <3>6, Zenon
  <2>6. p.vs = w /\ p.start = a /\ p.length = z - e
    BY <2>5
  <2>7. Owned(g, os, w) /\ Kept(h, g, w)
    <3>1. Owned(h, os, Append(w, x))
      BY <1>1, <2>2, Zenon
    <3> QED
      BY <2>5, <3>1, OwnDropLast, Zenon
  <2>8. PICK d \in Seq(SliceType) : d = SubSeq(w, a + 1, j) /\ Current(p) = d
    <3>1. a \in 0..Len(w)
      BY <2>2, <2>3
    <3>2. SubSeq(w, a + 1, Len(w)) \in Seq(SliceType)
      BY <3>1, PartIs
    <3> QED
      BY <2>2, <2>6, <3>2, Zenon DEF Current
  <2>9. Current(q) = Append(d, x)
    <3>1. a <= Len(w)
      BY <2>2, <2>3, Zenon
    <3>2. SubSeq(Append(w, x), a + 1, Len(w) + 1) = Append(SubSeq(w, a + 1, Len(w)), x)
      BY <3>1, RestAppend, Zenon
    <3> QED
      BY <1>1, <2>2, <2>8, <3>2, Zenon
  <2>10. z = Size(d) + e /\ Size(d) \in Nat
    <3>1. Size(Append(d, x)) = Size(d) + x.len /\ Size(d) \in Nat
      BY SizeOf, Zenon
    <3> QED
      BY <1>1, <2>4, <2>9, <3>1, Zenon
  <2>11. z - e \in Nat /\ z - e = Size(d)
    BY <2>10
  <2>12. p \in BufferType
    BY <2>5, <2>11 DEF BufferType
  <2>13. BufferOK(p)
    BY <2>2, <2>3, <2>6, <2>8, <2>11, <2>12, Zenon DEF BufferOK
  <2>14. Kept(h, g, d)
    <3>1. ASSUME NEW i \in 1..Len(d) PROVE \E k \in 1..Len(w) : d[i] = w[k]
      <4>1. /\ Len(d) = j - a /\ \A k \in 1..(j - a) : d[k] = w[a + k]
        <5>1. a \in 0..Len(w)
          BY <2>2, <2>3
        <5>2. /\ Len(SubSeq(w, a + 1, Len(w))) = Len(w) - a
              /\ \A k \in 1..(Len(w) - a) : SubSeq(w, a + 1, Len(w))[k] = w[a + k]
          BY <5>1, PartIs
        <5> QED
          BY <2>2, <2>8, <5>2, Zenon
      <4>2. i \in 1..(j - a)
        BY <4>1, Zenon
      <4>3. a + i \in 1..j
        BY <4>2, <2>3
      <4> QED
        BY <2>2, <4>1, <4>2, <4>3, Zenon
    <3> QED
      BY <2>7, <3>1, Zenon DEF Kept
  <2>15. m - a > 0
    BY <1>3
  <2>16. LastSize(q) = e
    BY <1>1, <2>2, <2>4, <2>15, Zenon DEF LastSize, slice_count
  <2>17. r.buf.length = q.length - LastSize(q)
    BY <1>1, <2>5, <2>6, <2>16, Zenon
  <2> QED
    BY <2>5, <2>6, <2>7, <2>8, <2>9, <2>13, <2>14, <2>17, Zenon DEF BackGone
<1> QED
  BY <1>2, <1>3

\* clear_buffer drops them all.
LEMMA ClearOK ==
  ASSUME NEW h, NEW os, NEW q, BufferOK(q), Owned(h, os, q.vs), NEW r, r = clear_buffer(h, q)
  PROVE  BufferOK(r.buf) /\ Owned(r.heap, os, r.buf.vs) /\ Current(r.buf) = <<>>
<1>1. PICK v \in Seq(SliceType), m \in Nat : v = q.vs /\ m = Len(v) /\ m \in 0..m
  <2>1. \A m \in Nat : m \in 0..m
    OBVIOUS
  <2> QED
    BY <2>1, BufferParts, Zenon
<1>2. SubSeq(v, 1, m) = v /\ SubSeq(v, m + 1, m) = <<>>
  <2>1. SubSeq(v, 1, Len(v)) = v
    BY SubSeqFull
  <2>2. \A k \in Nat : SubSeq(v, k + 1, k) = <<>>
    OBVIOUS
  <2> QED
    BY <1>1, <2>1, <2>2, Zenon
<1>3. Owned(UnrefAll(h, v), os, <<>>)
  <2>1. Owned(h, os, v) /\ m \in 0..Len(v)
    BY <1>1, Zenon
  <2>2. Owned(UnrefAll(h, SubSeq(v, 1, m)), os, SubSeq(v, m + 1, Len(v)))
    BY <2>1, OwnUnrefAll, Zenon
  <2> QED
    BY <1>1, <1>2, <2>2, Zenon
<1>4. r.heap = UnrefAll(h, v) /\ r.buf = EmptyBuffer
  <2>1. r = [heap |-> UnrefAll(h, v), buf |-> EmptyBuffer]
    BY <1>1, Zenon DEF clear_buffer
  <2> QED
    BY <2>1
<1>5. /\ EmptyBuffer \in BufferType /\ EmptyBuffer.vs = <<>> /\ EmptyBuffer.start = 0 /\ EmptyBuffer.length = 0
      /\ 0 <= Len(<<>>) /\ SubSeq(<<>>, 0 + 1, Len(<<>>)) = <<>>
  BY DEF EmptyBuffer, BufferType
<1>6. Current(EmptyBuffer) = <<>>
  BY <1>5, Zenon DEF Current
<1>7. Size(<<>>) = 0
  BY WeighedEmpty, Zenon DEF Size
<1>8. BufferOK(EmptyBuffer)
  BY <1>5, <1>6, <1>7, Zenon DEF BufferOK
<1> QED
  BY <1>3, <1>4, <1>5, <1>6, <1>8, Zenon

-----------------------------------------------------------------------------
(***************************************************************************)
(* What an operation must show to keep the invariant.                      *)
(***************************************************************************)

\* The slices that are left are in the vector, and within their blocks.
LEMMA CurrentIs ==
  ASSUME NEW h, NEW os, NEW q, BufferOK(q), Owned(h, os, q.vs)
  PROVE  /\ h \in HeapType /\ Current(q) \in Seq(SliceType)
         /\ \A i \in 1..Len(Current(q)) : Current(q)[i] \in SliceType /\ Within(h, Current(q)[i])
<1>1. PICK v \in Seq(SliceType), c \in Seq(SliceType), a \in Nat, m \in Nat :
        /\ v = q.vs /\ a = q.start /\ m = Len(v) /\ a <= m /\ c = Current(q)
        /\ Len(c) = m - a /\ \A i \in 1..(m - a) : c[i] = v[a + i]
  <2>1. /\ q.vs \in Seq(SliceType) /\ q.start \in Nat /\ Len(q.vs) \in Nat /\ q.start <= Len(q.vs)
        /\ Current(q) \in Seq(SliceType) /\ Len(Current(q)) = Len(q.vs) - q.start
        /\ \A i \in 1..(Len(q.vs) - q.start) : Current(q)[i] = q.vs[q.start + i]
    BY BufferParts, Zenon
  <2> QED
    BY <2>1, Zenon
<1>2. h \in HeapType /\ \A i \in 1..m : v[i] \in SliceType /\ Within(h, v[i])
  BY <1>1, OwnedParts, Zenon
<1>3. ASSUME NEW i \in 1..Len(c) PROVE c[i] \in SliceType /\ Within(h, c[i])
  <2>1. i \in 1..(m - a)
    BY <1>1, Zenon
  <2>2. a <= m
    BY <1>1, Zenon
  <2>3. a + i \in 1..m
    BY <2>1, <2>2
  <2> QED
    BY <1>1, <1>2, <2>1, <2>3, Zenon
<1> QED
  BY <1>1, <1>2, <1>3, Zenon

\* What the vector keeps, the slices that are left keep.
LEMMA KeptCurrent ==
  ASSUME NEW h, NEW g, NEW q, BufferOK(q), Kept(h, g, q.vs)
  PROVE  Kept(h, g, Current(q))
<1>1. PICK v \in Seq(SliceType), c \in Seq(SliceType), a \in Nat, m \in Nat :
        /\ v = q.vs /\ a = q.start /\ m = Len(v) /\ a <= m /\ Current(q) = c
        /\ Len(c) = m - a /\ \A i \in 1..(m - a) : c[i] = v[a + i]
  <2>1. /\ q.vs \in Seq(SliceType) /\ q.start \in Nat /\ Len(q.vs) \in Nat /\ q.start <= Len(q.vs)
        /\ Current(q) \in Seq(SliceType) /\ Len(Current(q)) = Len(q.vs) - q.start
        /\ \A i \in 1..(Len(q.vs) - q.start) : Current(q)[i] = q.vs[q.start + i]
    BY BufferParts, Zenon
  <2> QED
    BY <2>1, Zenon
<1>2. ASSUME NEW i \in 1..Len(c) PROVE Memory(g, c[i]) = Memory(h, c[i])
  <2>1. i \in 1..(m - a) /\ a <= m
    BY <1>1, Zenon
  <2>2. a + i \in 1..m
    BY <2>1
  <2> QED
    BY <1>1, <2>1, <2>2, Zenon DEF Kept
<1> QED
  BY <1>1, <1>2, Zenon DEF Kept

\* The first slice that is left.
LEMMA FirstIs ==
  ASSUME NEW q, BufferOK(q), q.start < Len(q.vs)
  PROVE  /\ Current(q) # <<>> /\ Current(q)[1] = q.vs[q.start + 1] /\ 1 \in 1..Len(Current(q))
<1>1. PICK v \in Seq(SliceType), c \in Seq(SliceType), a \in Nat, m \in Nat :
        /\ v = q.vs /\ a = q.start /\ m = Len(v) /\ a < m /\ c = Current(q)
        /\ Len(c) = m - a /\ \A i \in 1..(m - a) : c[i] = v[a + i]
  <2>1. /\ q.vs \in Seq(SliceType) /\ q.start \in Nat /\ Len(q.vs) \in Nat /\ q.start <= Len(q.vs)
        /\ Current(q) \in Seq(SliceType) /\ Len(Current(q)) = Len(q.vs) - q.start
        /\ \A i \in 1..(Len(q.vs) - q.start) : Current(q)[i] = q.vs[q.start + i]
    BY BufferParts, Zenon
  <2> QED
    BY <2>1, Zenon
<1>2. a < m /\ Len(c) = m - a
  BY <1>1, Zenon
<1>3. 1 \in 1..(m - a) /\ c # <<>>
  BY <1>2
<1> QED
  BY <1>1, <1>3, Zenon

\* Peeked bytes stay while the first slice is in the same block and the block keeps its bytes.
LEMMA PeekKept ==
  ASSUME NEW h, NEW g, NEW q, NEW p, NEW k, PeekOK(h, q, k),
         Current(q) # <<>> => /\ Current(p) # <<>> /\ Current(p)[1].block = Current(q)[1].block
                              /\ Memory(g, Current(p)[1]) = Memory(h, Current(p)[1])
  PROVE  PeekOK(g, p, k)
<1>1. /\ k \in PeekType /\ Content(h, k.slice) = k.bytes
      /\ k.slice.block \in Blocks => Current(q) # <<>> /\ Current(q)[1].block = k.slice.block
  BY Zenon DEF PeekOK
<1>2. k.slice.block \in Blocks => Current(p) # <<>> /\ Current(p)[1].block = k.slice.block
  BY <1>1, Zenon
<1>3. Memory(g, k.slice) = Memory(h, k.slice)
  <2>1. CASE k.slice.block \in Blocks
    <3>1. Memory(g, Current(p)[1]) = Memory(h, Current(p)[1]) /\ k.slice.block = Current(p)[1].block
      BY <1>1, <1>2, <2>1, Zenon
    <3> QED
      BY <3>1, BlockMemory, Zenon
  <2>2. CASE k.slice.block \notin Blocks
    BY <2>2, Zenon DEF Memory
  <2> QED
    BY <2>1, <2>2
<1>4. Content(g, k.slice) = Content(h, k.slice)
  BY <1>3, ContentSame, Zenon
<1> QED
  BY <1>1, <1>2, <1>4, Zenon DEF PeekOK

\* Nothing is peeked.
LEMMA PeekNone ==
  ASSUME NEW h \in HeapType, NEW q
  PROVE  PeekOK(h, q, NoPeek)
<1>1. NoPeek \in PeekType /\ NoPeek.slice = EmptySlice /\ NoPeek.bytes = <<>>
  BY EmptyIs DEF NoPeek, PeekType
<1>2. EmptySlice.block \notin Blocks
  BY EmptyIs, SliceAssumption, Zenon
<1>3. Content(h, EmptySlice) \in Seq(Byte) /\ Len(Content(h, EmptySlice)) = 0
  BY EmptyIs, ContentIs, Zenon
<1>4. Content(h, EmptySlice) = <<>>
  BY <1>3
<1> QED
  BY <1>1, <1>2, <1>4, Zenon DEF PeekOK

\* The vector stays and its bytes stay.
LEMMA SameBuffer ==
  ASSUME NEW h, NEW os, NEW q, NEW k, DataOK(h, os, q, k),
         NEW g, NEW ps, Owned(g, ps, q.vs), Kept(h, g, q.vs)
  PROVE  DataOK(g, ps, q, k)
<1>1. Owned(h, os, q.vs) /\ BufferOK(q) /\ PeekOK(h, q, k)
  BY Zenon DEF DataOK
<1>2. Current(q) # <<>> => Memory(g, Current(q)[1]) = Memory(h, Current(q)[1])
  <2>1. Kept(h, g, Current(q))
    BY <1>1, KeptCurrent, Zenon
  <2>2. Current(q) \in Seq(SliceType)
    BY <1>1, CurrentIs, Zenon
  <2>3. Current(q) # <<>> => 1 \in 1..Len(Current(q))
    BY <2>2
  <2> QED
    BY <2>1, <2>3, Zenon DEF Kept
<1>3. PeekOK(g, q, k)
  BY <1>1, <1>2, PeekKept, Zenon
<1> QED
  BY <1>1, <1>3, Zenon DEF DataOK

\* An object takes over a temporary slice.
LEMMA ReceiveOK ==
  ASSUME NEW h, NEW os, NEW q, NEW k, DataOK(h, os, q, k), NEW o \in Objects,
         NEW g, NEW s \in SliceType, Owned(g, os, Append(q.vs, s)), Kept(h, g, q.vs),
         NEW ps, ps = [os EXCEPT ![o] = s]
  PROVE  /\ DataOK(Unref(g, os[o]), ps, q, k) /\ Kept(h, Unref(g, os[o]), q.vs)
         /\ Content(Unref(g, os[o]), s) = Content(g, s)
<1>1. q.vs \in Seq(SliceType)
  BY OwnedParts, Zenon DEF DataOK
<1>2. Owned(Unref(g, os[o]), ps, q.vs) /\ Kept(g, Unref(g, os[o]), q.vs)
  BY <1>1, OwnReceive
<1>6. ps[o] = s /\ Memory(Unref(g, os[o]), s) = Memory(g, s)
  <2>1. Owned(g, ps, Append(q.vs, os[o])) /\ os[o] \in SliceType
    BY <1>1, OwnSwap
  <2>2. KeptObjects(g, Unref(g, os[o]), ps)
    BY <1>1, <2>1, OwnDropLast, Zenon
  <2>3. ps[o] = s
    <3>1. os \in [Objects -> SliceType]
      BY OwnedParts, Zenon
    <3> QED
      BY <3>1, ObjectSet
  <2> QED
    BY <2>2, <2>3, Zenon DEF KeptObjects
<1>3. Kept(h, Unref(g, os[o]), q.vs)
  BY <1>2, Zenon DEF Kept
<1>4. Content(Unref(g, os[o]), s) = Content(g, s)
  BY <1>6, ContentSame, Zenon
<1>5. DataOK(Unref(g, os[o]), ps, q, k)
  BY <1>2, <1>3, SameBuffer, Zenon
<1> QED
  BY <1>3, <1>4, <1>5, <1>6, Zenon

\* A slice comes behind the others, with its reference.
LEMMA ExtendOK ==
  ASSUME NEW h, NEW os, NEW q, NEW k, DataOK(h, os, q, k),
         NEW s \in SliceType, s.len # 0, NEW p, p = add_slice(q, s),
         NEW g, NEW ps, Owned(g, ps, Append(q.vs, s)), Kept(h, g, q.vs)
  PROVE  DataOK(g, ps, p, k)
<1>1. Owned(h, os, q.vs) /\ BufferOK(q) /\ PeekOK(h, q, k)
  BY Zenon DEF DataOK
<1>2. BufferOK(p) /\ p.vs = Append(q.vs, s) /\ Current(p) = Append(Current(q), s)
  BY <1>1, AddSliceOK
<1>3. PICK c \in Seq(SliceType) : c = Current(q) /\ Kept(h, g, c)
  BY <1>1, BufferParts, KeptCurrent, Zenon
<1>4. c # <<>> => 1 \in 1..Len(c) /\ Append(c, s) # <<>> /\ Append(c, s)[1] = c[1]
  OBVIOUS
<1>5. c # <<>> => Memory(g, c[1]) = Memory(h, c[1])
  BY <1>3, <1>4, Zenon DEF Kept
<1>6. PeekOK(g, p, k)
  BY <1>1, <1>2, <1>3, <1>4, <1>5, PeekKept, Zenon
<1> QED
  BY <1>2, <1>6, Zenon DEF DataOK

\* Bytes are consumed; the peeked ones are forgotten or not reached to their end.
LEMMA ConsumeOK ==
  ASSUME NEW h, NEW os, NEW q, NEW k, DataOK(h, os, q, k), NEW n \in Nat,
         NEW g, NEW p, Consumed(h, os, q, g, p, n), NEW j,
         j = NoPeek \/ (j = k /\ Current(q) # <<>> /\ n < Current(q)[1].len)
  PROVE  DataOK(g, os, p, j)
<1>1. BufferOK(q) /\ PeekOK(h, q, k)
  BY Zenon DEF DataOK
<1>2. BufferOK(p) /\ Owned(g, os, p.vs) /\ Kept(h, g, Current(p)) /\ Passed(Current(q), Current(p), n)
  BY Zenon DEF Consumed
<1>3. PICK c \in Seq(SliceType), d \in Seq(SliceType) : c = Current(q) /\ d = Current(p)
  BY <1>1, <1>2, BufferParts, Zenon
<1>4. CASE j = NoPeek
  <2>1. g \in HeapType
    BY <1>2, OwnedParts, Zenon
  <2> QED
    BY <1>2, <1>4, <2>1, PeekNone, Zenon DEF DataOK
<1>5. CASE j = k /\ c # <<>> /\ n < c[1].len
  <2>1. d # <<>> /\ d[1].block = c[1].block
    BY <1>2, <1>3, <1>5, PassedIs, Zenon
  <2>2. 1 \in 1..Len(d)
    BY <2>1
  <2>3. Memory(g, d[1]) = Memory(h, d[1])
    BY <1>2, <1>3, <2>2, Zenon DEF Kept
  <2>4. PeekOK(g, p, k)
    BY <1>1, <1>3, <2>1, <2>3, PeekKept, Zenon
  <2> QED
    BY <1>2, <1>5, <2>4, Zenon DEF DataOK
<1> QED
  BY <1>3, <1>4, <1>5, Zenon

-----------------------------------------------------------------------------
(***************************************************************************)
(* The bytes of the buffer.                                                *)
(***************************************************************************)

\* What comes behind the first of two sequences is the second.
LEMMA RestOfTwo ==
  ASSUME NEW s \in Seq(Byte), NEW t \in Seq(Byte)
  PROVE  /\ s \o t \in Seq(Byte) /\ Len(s) <= Len(s \o t)
         /\ SubSeq(s \o t, Len(s) + 1, Len(s \o t)) = t
<1>1. PICK m \in Nat, n \in Nat : m = Len(s) /\ n = Len(t)
  OBVIOUS
<1>2. PICK u \in Seq(Byte) : /\ u = s \o t /\ Len(u) = m + n /\ \A j \in 1..n : u[m + j] = t[j]
  <2>1. /\ s \o t \in Seq(Byte) /\ Len(s \o t) = Len(s) + Len(t)
        /\ \A j \in 1..Len(t) : (s \o t)[Len(s) + j] = t[j]
    BY ConcatByPlace
  <2> QED
    BY <1>1, <2>1, Zenon
<1>3. m \in 0..Len(u) /\ Len(u) - m = n /\ m <= Len(u)
  BY <1>2
<1>4. PICK v \in Seq(Byte) : v = SubSeq(u, m + 1, Len(u)) /\ Len(v) = n /\ \A j \in 1..n : v[j] = u[m + j]
  <2>1. /\ SubSeq(u, m + 1, Len(u)) \in Seq(Byte) /\ Len(SubSeq(u, m + 1, Len(u))) = Len(u) - m
        /\ \A j \in 1..(Len(u) - m) : SubSeq(u, m + 1, Len(u))[j] = u[m + j]
    BY <1>3, PartIs
  <2> QED
    BY <1>3, <2>1, Zenon
<1>5. \A j \in 1..n : v[j] = t[j]
  BY <1>2, <1>4, Zenon
<1>6. v = t
  BY <1>1, <1>4, <1>5, SeqEqual, Zenon
<1> QED
  BY <1>1, <1>2, <1>3, <1>4, <1>6, Zenon

\* A slice that is cut at its front shows the rest of its bytes.
LEMMA ContentRest ==
  ASSUME NEW h \in HeapType, NEW x \in SliceType, Within(h, x), NEW l \in Nat, l <= x.len
  PROVE  \E p \in Seq(Byte), r \in Seq(Byte) :
           Content(h, x) = p \o r /\ Len(p) = l /\ Content(h, SlicePopFront(x, l)) = r
<1>1. PICK c \in Seq(Byte), n \in Nat : /\ c = Content(h, x) /\ n = x.len /\ Len(c) = n /\ l <= n
  <2>1. Content(h, x) \in Seq(Byte) /\ Len(Content(h, x)) = x.len
    BY ContentIs, Zenon
  <2>2. x.len \in Nat
    BY DEF SliceType
  <2> QED
    BY <2>1, <2>2, Zenon
<1>2. PICK m \in Seq(Byte), k \in Nat, i \in Nat :
        /\ m = Memory(h, x) /\ k = Len(m) /\ i = x.off /\ i + n <= k /\ c = SubSeq(m, i + 1, i + n)
  <2>1. x.off \in Nat
    BY DEF SliceType
  <2>2. Memory(h, x) \in Seq(Byte) /\ Len(Memory(h, x)) \in Nat
    BY MemoryType, Zenon
  <2>3. Content(h, x) = SubSeq(Memory(h, x), x.off + 1, x.off + x.len)
    BY ContentIs, Zenon
  <2> QED
    BY <1>1, <2>1, <2>2, <2>3, Zenon DEF Within
<1>3. PICK e \in Nat, a \in Nat : e = n - l /\ a = i + l /\ a + e = i + n /\ l + e = n /\ l \in 0..n
  <2>1. l <= n
    BY <1>1, Zenon
  <2> QED
    BY <2>1
<1>4. PICK p \in Seq(Byte), r \in Seq(Byte) :
        c = p \o r /\ Len(p) = l /\ Len(r) = e /\ \A j \in 1..e : r[j] = c[l + j]
  <2>1. l \in 0..Len(c)
    BY <1>1, <1>3, Zenon
  <2>2. /\ SubSeq(c, 1, l) \in Seq(Byte) /\ Len(SubSeq(c, 1, l)) = l
        /\ SubSeq(c, l + 1, Len(c)) \in Seq(Byte) /\ Len(SubSeq(c, l + 1, Len(c))) = Len(c) - l
        /\ \A j \in 1..(Len(c) - l) : SubSeq(c, l + 1, Len(c))[j] = c[l + j]
        /\ c = SubSeq(c, 1, l) \o SubSeq(c, l + 1, Len(c))
    BY <2>1, PartIs, ZenonT(60)
  <2>3. Len(c) - l = e
    BY <1>1, <1>3
  <2>4. PICK p, r : p = SubSeq(c, 1, l) /\ r = SubSeq(c, l + 1, Len(c))
    BY Zenon
  <2>5. \A j \in 1..e : r[j] = c[l + j]
    BY <2>2, <2>3, <2>4, Zenon
  <2>6. p \in Seq(Byte) /\ r \in Seq(Byte) /\ c = p \o r /\ Len(p) = l /\ Len(r) = e
    BY <2>2, <2>3, <2>4, Zenon
  <2> QED
    BY <2>5, <2>6, Zenon
<1>5. PICK y \in SliceType : y = SlicePopFront(x, l) /\ y.block = x.block /\ y.off = a /\ y.len = e
  <2>1. PICK z \in Nat : z = IF l <= x.len THEN l ELSE x.len
    BY <1>1, Zenon
  <2>2. /\ SlicePopFront(x, l) \in SliceType /\ SlicePopFront(x, l).block = x.block
        /\ SlicePopFront(x, l).off = x.off + z /\ SlicePopFront(x, l).len = x.len - z
    BY <2>1, CutIs
  <2>3. z = l
    BY <2>1, Zenon
  <2> QED
    BY <1>1, <1>2, <1>3, <2>2, <2>3, Zenon
<1>6. PICK d \in Seq(Byte) : d = Content(h, y) /\ Len(d) = e /\ d = SubSeq(m, a + 1, a + e)
  <2>1. Memory(h, y) = m
    BY <1>2, <1>5, BlockMemory, Zenon
  <2>2. Within(h, y)
    BY <1>2, <1>3, <1>5, <2>1, Zenon DEF Within
  <2>3. Content(h, y) \in Seq(Byte) /\ Len(Content(h, y)) = y.len /\ Content(h, y) = SubSeq(Memory(h, y), y.off + 1, y.off + y.len)
    BY <2>2, ContentIs, Zenon
  <2> QED
    BY <1>5, <2>1, <2>3, Zenon
<1>7. \A j \in 1..n : c[j] = m[i + j]
  <2>1. i + n <= Len(m)
    BY <1>2, Zenon
  <2>2. \A j \in 1..n : SubSeq(m, i + 1, i + n)[j] = m[i + j]
    BY <2>1
  <2> QED
    BY <1>2, <2>2, Zenon
<1>8. \A j \in 1..e : d[j] = m[a + j]
  <2>1. a + e <= Len(m)
    BY <1>2, <1>3, Zenon
  <2>2. \A j \in 1..e : SubSeq(m, a + 1, a + e)[j] = m[a + j]
    BY <2>1
  <2> QED
    BY <1>6, <2>2, Zenon
<1>9. ASSUME NEW j \in 1..e PROVE d[j] = r[j]
  <2>1. l + j \in 1..n /\ i + (l + j) = a + j
    BY <1>3
  <2> QED
    BY <1>4, <1>7, <1>8, <2>1, Zenon
<1>10. d = r
  BY <1>4, <1>6, <1>9, SeqEqual, Zenon
<1> QED
  BY <1>1, <1>4, <1>5, <1>6, <1>10, Zenon

\* Of a sequence c of bytes the first n are gone.
WithoutFirst(c, d, n) == \E p \in Seq(Byte) : c = p \o d /\ Len(p) = n

\* Of the middle one of three sequences a part is gone, and the first one.
LEMMA FrontGone ==
  ASSUME NEW s \in Seq(Byte), NEW t \in Seq(Byte), NEW u \in Seq(Byte), NEW v \in Seq(Byte)
  PROVE  WithoutFirst(s \o ((t \o u) \o v), u \o v, Len(s) + Len(t))
<1>1. (t \o u) \o v = t \o (u \o v)
  BY JoinThree, SMTT(30)
<1>2. PICK w \in Seq(Byte) : w = u \o v
  BY ConcatByPlace, Zenon
<1>3. (s \o t) \o w = s \o (t \o w)
  BY JoinThree, SMTT(30)
<1>4. PICK p \in Seq(Byte) : p = s \o t /\ Len(p) = Len(s) + Len(t)
  BY ConcatByPlace, Zenon
<1> QED
  BY <1>1, <1>2, <1>3, <1>4, Zenon DEF WithoutFirst

\* When n bytes are passed, the slices show the others.
LEMMA PassedBytes ==
  ASSUME NEW h \in HeapType, NEW c \in Seq(SliceType), NEW d \in Seq(SliceType), NEW n \in Nat, Passed(c, d, n),
         \A i \in 1..Len(c) : Within(h, c[i])
  PROVE  WithoutFirst(Joined(h, c), Joined(h, d), n)
<1>1. PICK p \in Seq(SliceType), r \in Seq(SliceType), x \in SliceType, l \in Nat :
        \/ c = p \o d /\ n = Size(p)
        \/ /\ c = p \o (<<x>> \o r) /\ d = <<SlicePopFront(x, l)>> \o r
           /\ l < x.len /\ n = Size(p) + l
  BY Zenon DEF Passed
<1>2. ASSUME NEW t \in Seq(SliceType), c = p \o t
      PROVE  /\ Joined(h, c) = Joined(h, p) \o Joined(h, t) /\ Joined(h, p) \in Seq(Byte) /\ Len(Joined(h, p)) = Size(p)
             /\ \A j \in 1..Len(t) : Within(h, t[j])
  <2>1. /\ Len(c) = Len(p) + Len(t) /\ (\A i \in 1..Len(p) : c[i] = p[i])
        /\ \A j \in 1..Len(t) : c[Len(p) + j] = t[j]
    BY <1>2, ConcatByPlace
  <2>2. PICK a \in Nat, b \in Nat : a = Len(p) /\ b = Len(t) /\ Len(c) = a + b
    BY <2>1
  <2>3. (\A i \in 1..a : i \in 1..(a + b)) /\ \A j \in 1..b : a + j \in 1..(a + b)
    BY <2>2
  <2>4. \A i \in 1..Len(p) : Within(h, p[i])
    BY <2>1, <2>2, <2>3, Zenon
  <2>5. \A j \in 1..Len(t) : Within(h, t[j])
    BY <2>1, <2>2, <2>3, Zenon
  <2>6. Len(Joined(h, p)) = Size(p)
    BY <2>4, JoinedLen, Zenon DEF Size
  <2> QED
    BY <1>2, <2>5, <2>6, JoinedConcat, JoinedType, Zenon
<1>3. CASE c = p \o d /\ n = Size(p)
  BY <1>2, <1>3, Zenon DEF WithoutFirst
<1>4. CASE /\ c = p \o (<<x>> \o r) /\ d = <<SlicePopFront(x, l)>> \o r
           /\ l < x.len /\ n = Size(p) + l
  <2>1. PICK y \in SliceType : y = SlicePopFront(x, l)
    BY CutIs, Zenon
  <2>2. <<x>> \in Seq(SliceType) /\ <<y>> \in Seq(SliceType)
    OBVIOUS
  <2>3. PICK t \in Seq(SliceType) : t = <<x>> \o r /\ c = p \o t /\ 1 \in 1..Len(t) /\ t[1] = x
    <3>1. <<x>> \o r \in Seq(SliceType) /\ 1 \in 1..Len(<<x>> \o r) /\ (<<x>> \o r)[1] = x
      OBVIOUS
    <3> QED
      BY <1>4, <3>1, Zenon
  <2>4. /\ Joined(h, c) = Joined(h, p) \o Joined(h, t) /\ Joined(h, p) \in Seq(Byte) /\ Len(Joined(h, p)) = Size(p)
        /\ Within(h, x)
    BY <1>2, <2>3, Zenon
  <2>5. l <= x.len
    BY <1>4, SMTT(30) DEF SliceType
  <2>6. PICK u \in Seq(Byte), v \in Seq(Byte) : Content(h, x) = u \o v /\ Len(u) = l /\ Content(h, y) = v
    <3>1. \E u \in Seq(Byte), v \in Seq(Byte) :
            Content(h, x) = u \o v /\ Len(u) = l /\ Content(h, SlicePopFront(x, l)) = v
      BY <2>4, <2>5, ContentRest, ZenonT(60)
    <3> QED
      BY <2>1, <3>1, Zenon
  <2>7. Joined(h, t) = (u \o v) \o Joined(h, r)
    <3>1. Joined(h, <<x>> \o r) = Joined(h, <<x>>) \o Joined(h, r) /\ Joined(h, <<x>>) = Content(h, x)
      BY <2>2, JoinedConcat, JoinedFew, Zenon
    <3> QED
      BY <2>3, <2>6, <3>1, Zenon
  <2>8. Joined(h, d) = v \o Joined(h, r)
    <3>1. Joined(h, <<y>> \o r) = Joined(h, <<y>>) \o Joined(h, r) /\ Joined(h, <<y>>) = Content(h, y)
      BY <2>2, JoinedConcat, JoinedFew, Zenon
    <3>2. d = <<y>> \o r
      BY <1>4, <2>1, Zenon
    <3> QED
      BY <2>6, <3>1, <3>2, Zenon
  <2>9. PICK a \in Seq(Byte), b \in Seq(Byte) : a = Joined(h, p) /\ b = Joined(h, r)
    BY JoinedType, Zenon
  <2>10. Joined(h, c) = a \o ((u \o v) \o b) /\ Joined(h, d) = v \o b /\ n = Len(a) + Len(u)
    BY <1>4, <2>4, <2>6, <2>7, <2>8, <2>9, Zenon
  <2>11. WithoutFirst(a \o ((u \o v) \o b), v \o b, Len(a) + Len(u))
    BY FrontGone
  <2> QED
    BY <2>10, <2>11, Zenon
<1> QED
  BY <1>1, <1>3, <1>4

\* The buffer holds as many bytes as _length says.
LEMMA BytesAre ==
  ASSUME NEW h, NEW os, NEW q, BufferOK(q), Owned(h, os, q.vs)
  PROVE  BufferBytes(h, q) \in Seq(Byte) /\ Len(BufferBytes(h, q)) = q.length
<1>1. PICK ss \in Seq(SliceType) : ss = Current(q) /\ q.length = Size(ss)
  BY BufferParts, Zenon
<1>2. h \in HeapType /\ \A i \in 1..Len(ss) : Within(h, ss[i])
  <2>1. h \in HeapType /\ \A i \in 1..Len(Current(q)) : Current(q)[i] \in SliceType /\ Within(h, Current(q)[i])
    BY CurrentIs, Zenon
  <2> QED
    BY <1>1, <2>1, Zenon
<1>3. Len(Joined(h, ss)) = Weighed(Lengths, ss) /\ Joined(h, ss) \in Seq(Byte)
  BY <1>2, JoinedLen, JoinedType, Zenon
<1> QED
  BY <1>1, <1>3, Zenon DEF BufferBytes, Size

\* A slice without bytes is not added.
LEMMA AddNothing ==
  ASSUME NEW q, NEW s, s.len = 0
  PROVE  add_slice(q, s) = q
BY Zenon DEF add_slice

\* They stay when the vector's bytes stay.
LEMMA BytesKept ==
  ASSUME NEW h \in HeapType, NEW g \in HeapType, NEW q, BufferOK(q), Kept(h, g, q.vs)
  PROVE  BufferBytes(g, q) = BufferBytes(h, q)
BY KeptCurrent, BufferParts, JoinedKept, Zenon DEF BufferBytes

\* A slice that is added brings its bytes, behind the others.
LEMMA BytesAdded ==
  ASSUME NEW h \in HeapType, NEW g \in HeapType, NEW q, BufferOK(q), Kept(h, g, q.vs),
         NEW s \in SliceType, Within(g, s), NEW p, p = add_slice(q, s)
  PROVE  BufferBytes(g, p) = BufferBytes(h, q) \o Content(g, s)
<1>1. PICK c \in Seq(SliceType) : c = Current(q)
  BY BufferParts, Zenon
<1>2. BufferBytes(g, q) = BufferBytes(h, q) /\ BufferBytes(g, q) = Joined(g, c)
  BY <1>1, BytesKept, Zenon DEF BufferBytes
<1>3. CASE s.len = 0
  <2>1. p = q
    BY <1>3, AddNothing, Zenon
  <2>2. Joined(g, c) \o <<>> = Joined(g, c)
    BY JoinedType
  <2>3. Content(g, s) \in Seq(Byte) /\ Len(Content(g, s)) = 0
    BY <1>3, ContentIs, Zenon
  <2>4. Content(g, s) = <<>>
    BY <2>3
  <2> QED
    BY <1>2, <2>1, <2>2, <2>4, Zenon
<1>4. CASE s.len # 0
  <2>1. Current(p) = Append(c, s)
    BY <1>1, <1>4, AddSliceOK
  <2>2. Append(c, s) = c \o <<s>> /\ <<s>> \in Seq(SliceType)
    BY AppendJoins
  <2>3. Joined(g, c \o <<s>>) = Joined(g, c) \o Content(g, s)
    BY <2>2, JoinedConcat, JoinedFew, Zenon
  <2> QED
    BY <1>2, <2>1, <2>2, <2>3, Zenon DEF BufferBytes
<1> QED
  BY <1>3, <1>4

\* What is consumed is gone from the front.
LEMMA BytesConsumed ==
  ASSUME NEW h, NEW os, NEW q, BufferOK(q), Owned(h, os, q.vs),
         NEW g, NEW p, NEW n \in Nat, Consumed(h, os, q, g, p, n)
  PROVE  WithoutFirst(BufferBytes(h, q), BufferBytes(g, p), n)
<1>1. BufferOK(p) /\ Owned(g, os, p.vs) /\ Kept(h, g, Current(p)) /\ Passed(Current(q), Current(p), n)
  BY Zenon DEF Consumed
<1>2. PICK c \in Seq(SliceType), d \in Seq(SliceType) : c = Current(q) /\ d = Current(p)
  BY <1>1, BufferParts, Zenon
<1>3. h \in HeapType /\ g \in HeapType
  BY <1>1, OwnedParts, Zenon
<1>4. \A i \in 1..Len(c) : Within(h, c[i])
  <2>1. \A i \in 1..Len(Current(q)) : Current(q)[i] \in SliceType /\ Within(h, Current(q)[i])
    BY CurrentIs, Zenon
  <2> QED
    BY <1>2, <2>1, Zenon
<1>5. WithoutFirst(Joined(h, c), Joined(h, d), n)
  BY <1>1, <1>2, <1>3, <1>4, PassedBytes
<1>6. Joined(g, d) = Joined(h, d)
  BY <1>1, <1>2, <1>3, JoinedKept, Zenon
<1> QED
  BY <1>2, <1>5, <1>6, Zenon DEF BufferBytes

-----------------------------------------------------------------------------
(***************************************************************************)
(* Every operation keeps the invariant.                                    *)
(***************************************************************************)

\* The parts of the invariant that the operations need.
LEMMA InvParts ==
  ASSUME StreamDataInv
  PROVE  /\ DataOK(heap, obj, buf, peeked) /\ Owned(heap, obj, buf.vs) /\ BufferOK(buf) /\ PeekOK(heap, buf, peeked)
         /\ heap \in HeapType /\ obj \in [Objects -> SliceType] /\ buf.vs \in Seq(SliceType)
         /\ \A o \in Objects : obj[o] \in SliceType /\ Within(heap, obj[o])
         /\ Kept(heap, heap, buf.vs)
<1>1. DataOK(heap, obj, buf, peeked) /\ Owned(heap, obj, buf.vs) /\ BufferOK(buf) /\ PeekOK(heap, buf, peeked)
  BY Zenon DEF StreamDataInv, DataOK
<1>2. Kept(heap, heap, buf.vs)
  BY Zenon DEF Kept
<1> QED
  BY <1>1, <1>2, OwnedParts, Zenon

\* Receive, of a slice that comes with its reference.
LEMMA ReceiveStep ==
  ASSUME StreamDataInv, NEW o \in Objects, NEW r, Receive(o, r), UNCHANGED <<buf, peeked>>,
         r.slice \in SliceType, Owned(r.heap, obj, Append(buf.vs, r.slice)), Kept(heap, r.heap, buf.vs)
  PROVE  StreamDataInv' /\ Kept(heap, heap', buf.vs) /\ Content(heap', obj'[o]) = Content(r.heap, r.slice)
<1>1. heap' = Unref(r.heap, obj[o]) /\ obj' = [obj EXCEPT ![o] = r.slice]
  BY Zenon DEF Receive, MoveAssign
<1>2. PICK s, g : s = r.slice /\ g = r.heap /\ s \in SliceType
  BY Zenon
<1>3. DataOK(heap, obj, buf, peeked) /\ Owned(g, obj, Append(buf.vs, s)) /\ Kept(heap, g, buf.vs) /\ obj' = [obj EXCEPT ![o] = s]
  BY <1>1, <1>2, InvParts, Zenon
<1>4. /\ DataOK(Unref(g, obj[o]), obj', buf, peeked) /\ Kept(heap, Unref(g, obj[o]), buf.vs)
      /\ Content(Unref(g, obj[o]), obj'[o]) = Content(g, s)
  <2>1. s \in SliceType
    BY <1>2, Zenon
  <2>2. DataOK(Unref(g, obj[o]), obj', buf, peeked)
    BY <1>3, <2>1, ReceiveOK
  <2>3. Kept(heap, Unref(g, obj[o]), buf.vs)
    BY <1>3, <2>1, ReceiveOK
  <2>4. Content(Unref(g, obj[o]), s) = Content(g, s)
    BY <1>3, <2>1, ReceiveOK
  <2>5. obj'[o] = s
    <3>1. obj \in [Objects -> SliceType]
      BY InvParts, Zenon
    <3> QED
      BY <1>3, <3>1
  <2> QED
    BY <2>2, <2>3, <2>4, <2>5, Zenon
<1>5. heap' = Unref(g, obj[o]) /\ buf' = buf /\ peeked' = peeked
  BY <1>1, <1>2
<1> QED
  BY <1>2, <1>4, <1>5, Zenon DEF StreamDataInv

\* Receive, of a slice without a counted block.
LEMMA ReceiveFree ==
  ASSUME StreamDataInv, NEW o \in Objects, NEW s \in SliceType, s.block \notin Blocks, Within(heap, s),
         Receive(o, [heap |-> heap, slice |-> s]), UNCHANGED <<buf, peeked>>
  PROVE  StreamDataInv' /\ Kept(heap, heap', buf.vs) /\ Content(heap', obj'[o]) = Content(heap, s)
<1>1. PICK r : r = [heap |-> heap, slice |-> s] /\ Receive(o, r)
  BY Zenon
<1>2. r.heap = heap /\ r.slice = s
  BY <1>1
<1>3. Owned(heap, obj, Append(buf.vs, s))
  BY InvParts, OwnFree, Zenon
<1> QED
  BY <1>1, <1>2, <1>3, InvParts, ReceiveStep, Zenon

\* A slice that shows a whole block.
LEMMA WholeBlock ==
  ASSUME NEW g, NEW os, NEW ss, NEW s \in SliceType, Owned(g, os, ss), NEW bs \in Seq(Byte),
         s.off = 0, s.len = Len(bs), Memory(g, s) = bs
  PROVE  Within(g, s) /\ Content(g, s) = bs
<1>1. 0 + Len(bs) <= Len(bs) /\ SubSeq(bs, 0 + 1, 0 + Len(bs)) = bs
  OBVIOUS
<1>2. Within(g, s)
  BY <1>1, Zenon DEF Within
<1>3. g \in HeapType
  BY OwnedParts, Zenon
<1>4. Content(g, s) = SubSeq(Memory(g, s), s.off + 1, s.off + s.len)
  BY <1>2, <1>3, ContentIs, Zenon
<1> QED
  BY <1>1, <1>2, <1>4, Zenon

\* Receive, of a fresh block with bytes in it.
LEMMA ReceiveFresh ==
  ASSUME StreamDataInv, NEW o \in Objects, NEW bs \in Seq(Byte), NEW b \in Free(heap),
         Receive(o, Construct(heap, bs, b)), UNCHANGED <<buf, peeked>>
  PROVE  StreamDataInv' /\ Kept(heap, heap', buf.vs) /\ Content(heap', obj'[o]) = bs
<1>1. PICK r : r = Construct(heap, bs, b) /\ Receive(o, r)
  BY Zenon
<1>2. Owned(heap, obj, buf.vs)
  BY InvParts, Zenon
<1>3. Owned(r.heap, obj, Append(buf.vs, r.slice)) /\ Kept(heap, r.heap, buf.vs) /\ r.slice \in SliceType
  BY <1>1, <1>2, OwnConstruct
<1>4. Content(r.heap, r.slice) = bs
  <2>1. r.slice.off = 0 /\ r.slice.len = Len(bs) /\ Memory(r.heap, r.slice) = bs
    BY <1>1, <1>2, OwnConstruct
  <2> QED
    BY <1>3, <2>1, WholeBlock, Zenon
<1> QED
  BY <1>1, <1>3, <1>4, ReceiveStep, Zenon

LEMMA SliceConstructStep ==
  ASSUME StreamDataInv, NEW o \in Objects, NEW bs \in Payloads, SliceConstruct(o, bs)
  PROVE  StreamDataInv' /\ Kept(heap, heap', buf.vs)
<1>1. bs \in Seq(Byte)
  BY StreamDataAssumption, Zenon
<1>2. PICK b \in Free(heap) : Receive(o, Construct(heap, bs, b))
  BY Zenon DEF SliceConstruct
<1>3. UNCHANGED <<buf, peeked>>
  BY Zenon DEF SliceConstruct
<1> QED
  BY <1>1, <1>2, <1>3, ReceiveFresh, Zenon

LEMMA SliceStaticStep ==
  ASSUME StreamDataInv, NEW o \in Objects, NEW n \in 0..Len(StaticBytes), SliceStatic(o, n)
  PROVE  StreamDataInv' /\ Kept(heap, heap', buf.vs)
<1>1. PICK s : s = MakeStaticSlice(n) /\ Receive(o, [heap |-> heap, slice |-> s])
  BY Zenon DEF SliceStatic
<1>2. UNCHANGED <<buf, peeked>>
  BY Zenon DEF SliceStatic
<1>3. s \in SliceType /\ s.block \notin Blocks /\ Within(heap, s)
  <2>1. CASE n = 0
    <3>1. s = EmptySlice
      BY <1>1, <2>1, Zenon DEF MakeStaticSlice
    <3> QED
      BY <3>1, EmptyIs, SliceAssumption, Zenon
  <2>2. CASE n # 0
    <3>1. s = [block |-> StaticBlock, off |-> 0, len |-> n]
      BY <1>1, <2>2, Zenon DEF MakeStaticSlice
    <3>2. n \in Nat /\ 0 + n <= Len(StaticBytes)
      BY SliceAssumption
    <3>3. s \in SliceType /\ s.block = StaticBlock /\ s.off = 0 /\ s.len = n
      BY <3>1, <3>2 DEF SliceType
    <3>4. Memory(heap, s) = StaticBytes
      BY <3>3, SliceAssumption, Zenon DEF Memory
    <3> QED
      BY <3>2, <3>3, <3>4, SliceAssumption, Zenon DEF Within
  <2> QED
    BY <2>1, <2>2
<1> QED
  BY <1>1, <1>2, <1>3, ReceiveFree, Zenon

\* operator=: the object is empty in between.
LEMMA SliceCopyStep ==
  ASSUME StreamDataInv, NEW o \in Objects, NEW p \in Objects, SliceCopy(o, p)
  PROVE  StreamDataInv' /\ Kept(heap, heap', buf.vs)
<1>1. PICK ss \in Seq(SliceType), os \in [Objects -> SliceType], s \in SliceType :
        /\ ss = buf.vs /\ os = obj /\ s = obj[p] /\ s = os[p] /\ Owned(heap, os, ss)
  BY InvParts, Zenon
<1>2. PICK ps : ps = [os EXCEPT ![o] = EmptySlice]
  BY Zenon
<1>3. o # p
  BY Zenon DEF SliceCopy
<1>4. PICK g : g = Unref(heap, os[o]) /\ Owned(g, ps, ss) /\ Kept(heap, g, ss)
  <2>1. Owned(heap, os, Append(ss, EmptySlice)) /\ EmptySlice \in SliceType
    BY <1>1, EmptyIs, OwnFree, SliceAssumption, Zenon
  <2>2. Owned(Unref(heap, os[o]), ps, ss) /\ Kept(heap, Unref(heap, os[o]), ss)
    BY <1>2, <2>1, OwnReceive
  <2> QED
    BY <2>2, Zenon
<1>5. ps[o] = EmptySlice /\ ps[p] = s
  BY <1>1, <1>2, <1>3
<1>6. Within(g, s)
  BY <1>4, <1>5, OwnedParts, Zenon
<1>7. PICK f : f = Ref(g, s) /\ Owned(f, ps, Append(ss, s)) /\ Kept(g, f, ss)
  BY <1>4, <1>6, OwnRef, Zenon
<1>8. PICK us : us = [ps EXCEPT ![o] = s]
  BY Zenon
<1>9. Owned(Unref(f, ps[o]), us, ss) /\ Kept(f, Unref(f, ps[o]), ss)
  <2>1. Owned(f, ps, Append(ss, s))
    BY <1>7, Zenon
  <2> QED
    BY <1>8, <2>1, OwnReceive
<1>10. Unref(f, ps[o]) = f
  BY <1>5, EmptyIs, Zenon
<1>11. us = [os EXCEPT ![o] = s]
  BY <1>2, <1>8
<1>12. heap' = f /\ obj' = us /\ buf' = buf /\ peeked' = peeked
  <2>1. heap' = Ref(Unref(heap, obj[o]), obj[p])
    BY Zenon DEF SliceCopy, CopyAssign
  <2>2. obj' = [obj EXCEPT ![o] = obj[p]] /\ UNCHANGED <<buf, peeked>>
    BY Zenon DEF SliceCopy
  <2>3. buf' = buf /\ peeked' = peeked
    BY <2>2
  <2>4. heap' = f
    BY <1>1, <1>4, <1>7, <2>1, Zenon
  <2>5. obj' = us
    BY <1>1, <1>11, <2>2
  <2> QED
    BY <2>3, <2>4, <2>5, Zenon
<1>13. Owned(f, us, buf.vs) /\ Kept(heap, f, buf.vs)
  BY <1>1, <1>4, <1>7, <1>9, <1>10, Zenon DEF Kept
<1>14. DataOK(f, us, buf, peeked)
  BY <1>13, InvParts, SameBuffer, Zenon
<1> QED
  BY <1>12, <1>13, <1>14, Zenon DEF StreamDataInv

\* operator= of a temporary: the other object is empty then.
LEMMA SliceMoveStep ==
  ASSUME StreamDataInv, NEW o \in Objects, NEW p \in Objects, SliceMove(o, p)
  PROVE  StreamDataInv' /\ Kept(heap, heap', buf.vs)
<1>1. PICK ss \in Seq(SliceType), os \in [Objects -> SliceType], s \in SliceType :
        /\ ss = buf.vs /\ os = obj /\ s = obj[p] /\ s = os[p] /\ Owned(heap, os, ss)
  BY InvParts, Zenon
<1>2. PICK ps : ps = [os EXCEPT ![p] = EmptySlice]
  BY Zenon
<1>3. o # p
  BY Zenon DEF SliceMove
<1>4. Owned(heap, ps, Append(ss, s))
  <2>1. Owned(heap, os, Append(ss, EmptySlice)) /\ EmptySlice \in SliceType
    BY <1>1, EmptyIs, OwnFree, SliceAssumption, Zenon
  <2>2. Owned(heap, ps, Append(ss, os[p]))
    BY <1>2, <2>1, OwnSwap
  <2> QED
    BY <1>1, <2>2, Zenon
<1>5. ps[o] = os[o]
  BY <1>1, <1>2, <1>3
<1>6. PICK us : us = [ps EXCEPT ![o] = s]
  BY Zenon
<1>7. Owned(Unref(heap, ps[o]), us, ss) /\ Kept(heap, Unref(heap, ps[o]), ss)
  BY <1>4, <1>6, OwnReceive
<1>8. us = [os EXCEPT ![o] = s, ![p] = EmptySlice]
  BY <1>2, <1>3, <1>6
<1>9. heap' = Unref(heap, ps[o]) /\ obj' = us /\ buf' = buf /\ peeked' = peeked
  <2>1. heap' = Unref(heap, obj[o])
    BY Zenon DEF SliceMove, MoveAssign
  <2>2. obj' = [obj EXCEPT ![o] = obj[p], ![p] = EmptySlice] /\ UNCHANGED <<buf, peeked>>
    BY Zenon DEF SliceMove
  <2>3. buf' = buf /\ peeked' = peeked
    BY <2>2
  <2>4. heap' = Unref(heap, ps[o])
    BY <1>1, <1>5, <2>1, Zenon
  <2>5. obj' = us
    BY <1>1, <1>8, <2>2
  <2> QED
    BY <2>3, <2>4, <2>5, Zenon
<1>10. DataOK(heap', us, buf, peeked)
  BY <1>1, <1>7, <1>9, InvParts, SameBuffer, Zenon
<1> QED
  BY <1>1, <1>7, <1>9, <1>10, Zenon DEF StreamDataInv

LEMMA SliceCutStep ==
  ASSUME StreamDataInv, NEW o \in Objects, NEW n \in Nat, SliceCut(o, n)
  PROVE  StreamDataInv' /\ Kept(heap, heap', buf.vs)
<1>1. PICK s \in SliceType : s = obj[o] /\ Within(heap, s)
  BY InvParts, Zenon
<1>2. PICK c \in SliceType : obj' = [obj EXCEPT ![o] = c] /\ c.block = s.block /\ Within(heap, c)
  <2>1. \/ obj' = [obj EXCEPT ![o] = SlicePopFront(s, n)]
        \/ obj' = [obj EXCEPT ![o] = SlicePopBack(s, n)]
    BY <1>1 DEF SliceCut
  <2>2. /\ SlicePopFront(s, n) \in SliceType /\ SlicePopFront(s, n).block = s.block
        /\ SlicePopBack(s, n) \in SliceType /\ SlicePopBack(s, n).block = s.block
    BY CutIs, Zenon
  <2>3. Within(heap, SlicePopFront(s, n)) /\ Within(heap, SlicePopBack(s, n))
    BY <1>1, InvParts, CutWithin, Zenon
  <2> QED
    BY <2>1, <2>2, <2>3, Zenon
<1>3. Owned(heap, obj', buf.vs)
  <2>1. Owned(heap, obj, buf.vs) /\ c.block = obj[o].block
    BY <1>1, <1>2, InvParts, Zenon
  <2> QED
    BY <1>2, <2>1, OwnCut
<1>4. DataOK(heap, obj', buf, peeked)
  BY <1>3, InvParts, SameBuffer, Zenon
<1>5. heap' = heap /\ buf' = buf /\ peeked' = peeked
  BY DEF SliceCut
<1> QED
  BY <1>4, <1>5, InvParts, Zenon DEF StreamDataInv

LEMMA SliceAppendStep ==
  ASSUME StreamDataInv, NEW o \in Objects, NEW p \in Objects, SliceAppend(o, p)
  PROVE  StreamDataInv' /\ Kept(heap, heap', buf.vs)
<1>1. PICK s, t : s = Content(heap, obj[o]) /\ t = Content(heap, obj[p])
  BY Zenon
<1>2. s \in Seq(Byte) /\ t \in Seq(Byte)
  BY <1>1, InvParts, ContentType, Zenon
<1>3. s \o t \in Seq(Byte)
  BY <1>2
<1>4. PICK b \in Free(heap) : Receive(o, Construct(heap, s \o t, b))
  BY <1>1, Zenon DEF SliceAppend
<1>5. UNCHANGED <<buf, peeked>>
  BY Zenon DEF SliceAppend
<1> QED
  BY <1>3, <1>4, <1>5, ReceiveFresh, Zenon

\* The step adds a slice that shows the bytes bs.
Brought(bs) == \E s \in SliceType : buf' = add_slice(buf, s) /\ Within(heap', s) /\ Content(heap', s) = bs

LEMMA AddSliceStep ==
  ASSUME StreamDataInv, NEW o \in Objects, AddSlice(o)
  PROVE  StreamDataInv' /\ Kept(heap, heap', buf.vs) /\ Brought(Content(heap, obj[o]))
<1>1. PICK s \in SliceType : s = obj[o] /\ Within(heap, s)
  BY InvParts, Zenon
<1>2. /\ buf' = add_slice(buf, s) /\ heap' = IF buf' = buf THEN heap ELSE Ref(heap, s)
  BY <1>1, Zenon DEF AddSlice
<1>3. obj' = obj /\ peeked' = peeked
  BY DEF AddSlice
<1>4. CASE s.len = 0
  <2>1. buf' = buf /\ heap' = heap
    BY <1>2, <1>4, AddNothing, Zenon
  <2>2. Brought(Content(heap, obj[o]))
    BY <1>1, <1>2, <2>1, Zenon DEF Brought
  <2> QED
    BY <1>3, <2>1, <2>2, InvParts, Zenon DEF StreamDataInv
<1>5. CASE s.len # 0
  <2>1. PICK p : p = add_slice(buf, s) /\ buf' = p
    BY <1>2, Zenon
  <2>2. BufferOK(buf)
    BY InvParts, Zenon
  <2>3. p # buf
    BY <1>5, <2>1, <2>2, AddSliceOK
  <2>4. heap' = Ref(heap, s)
    BY <1>2, <2>1, <2>3, Zenon
  <2>5. /\ Owned(Ref(heap, s), obj, Append(buf.vs, s)) /\ Kept(heap, Ref(heap, s), buf.vs)
        /\ Memory(Ref(heap, s), s) = Memory(heap, s)
    BY <1>1, InvParts, OwnRef, Zenon
  <2>6. DataOK(heap, obj, buf, peeked)
    BY InvParts, Zenon
  <2>7. DataOK(Ref(heap, s), obj, p, peeked)
    BY <1>5, <2>1, <2>5, <2>6, ExtendOK
  <2>8. Memory(heap', s) = Memory(heap, s)
    BY <2>4, <2>5, Zenon
  <2>9. Within(heap', s) /\ Content(heap', s) = Content(heap, s)
    BY <1>1, <2>8, ContentSame, Zenon DEF Within
  <2>10. Brought(Content(heap, obj[o]))
    BY <1>1, <1>2, <2>9, Zenon DEF Brought
  <2> QED
    BY <1>3, <2>1, <2>4, <2>5, <2>7, <2>10, Zenon DEF StreamDataInv
<1> QED
  BY <1>4, <1>5

LEMMA AddSliceMoveStep ==
  ASSUME StreamDataInv, NEW o \in Objects, AddSliceMove(o)
  PROVE  StreamDataInv' /\ Kept(heap, heap', buf.vs) /\ Brought(Content(heap, obj[o]))
<1>1. PICK s \in SliceType, os \in [Objects -> SliceType] :
        s = os[o] /\ os = obj /\ Owned(heap, os, buf.vs) /\ Within(heap, s) /\ s = obj[o]
  BY InvParts, Zenon
<1>2. PICK ps : ps = [os EXCEPT ![o] = EmptySlice]
  BY Zenon
<1>3. buf' = add_slice(buf, s)
  BY <1>1, Zenon DEF AddSliceMove
<1>4. obj' = IF buf' = buf THEN os ELSE ps
  <2>1. obj' = IF buf' = buf THEN obj ELSE [obj EXCEPT ![o] = EmptySlice]
    BY DEF AddSliceMove
  <2> QED
    BY <1>1, <1>2, <2>1
<1>5. heap' = heap /\ peeked' = peeked
  BY DEF AddSliceMove
<1>6. Brought(Content(heap, obj[o]))
  BY <1>1, <1>3, <1>5, Zenon DEF Brought
<1>7. CASE s.len = 0
  <2>1. buf' = buf /\ obj' = obj
    BY <1>1, <1>3, <1>4, <1>7, AddNothing, Zenon
  <2> QED
    BY <1>5, <1>6, <2>1, InvParts, Zenon DEF StreamDataInv
<1>8. CASE s.len # 0
  <2>1. PICK p : p = add_slice(buf, s) /\ buf' = p
    BY <1>3, Zenon
  <2>2. BufferOK(buf)
    BY InvParts, Zenon
  <2>3. p # buf
    BY <1>8, <2>1, <2>2, AddSliceOK
  <2>4. obj' = ps
    BY <1>4, <2>1, <2>3, Zenon
  <2>5. Owned(heap, ps, Append(buf.vs, s))
    <3>1. Owned(heap, os, Append(buf.vs, EmptySlice)) /\ EmptySlice \in SliceType /\ buf.vs \in Seq(SliceType)
      BY <1>1, EmptyIs, OwnFree, OwnedParts, SliceAssumption, Zenon
    <3>2. Owned(heap, ps, Append(buf.vs, os[o]))
      BY <1>2, <3>1, OwnSwap
    <3> QED
      BY <1>1, <3>2, Zenon
  <2>6. DataOK(heap, obj, buf, peeked) /\ Kept(heap, heap, buf.vs)
    BY InvParts, Zenon
  <2>7. DataOK(heap, ps, p, peeked)
    BY <1>8, <2>1, <2>5, <2>6, ExtendOK
  <2> QED
    BY <1>5, <1>6, <2>1, <2>4, <2>6, <2>7, Zenon DEF StreamDataInv
<1> QED
  BY <1>7, <1>8

\* What an operation consumes, with the peeked bytes as ForgetPeek leaves them.
LEMMA ConsumeStep ==
  ASSUME StreamDataInv, NEW n \in Nat, NEW m \in Nat, m <= n, NEW r, Apply(r), ForgetPeek(n), obj' = obj,
         Consumed(heap, obj, buf, r.heap, r.buf, m)
  PROVE  StreamDataInv'
<1>1. heap' = r.heap /\ buf' = r.buf
  BY Zenon DEF Apply
<1>2. DataOK(heap, obj, buf, peeked) /\ BufferOK(buf)
  BY InvParts, Zenon
<1>3. peeked' = NoPeek \/ (peeked' = peeked /\ Current(buf) # <<>> /\ m < Current(buf)[1].len)
  <2>1. CASE buf.start < Len(buf.vs) /\ n < buf.vs[buf.start + 1].len
    <3>1. peeked' = peeked
      BY <2>1, Zenon DEF ForgetPeek
    <3>2. Current(buf) # <<>> /\ Current(buf)[1] = buf.vs[buf.start + 1] /\ 1 \in 1..Len(Current(buf))
      BY <1>2, <2>1, FirstIs, Zenon
    <3>3. PICK s \in SliceType : s = Current(buf)[1]
      BY <1>2, <3>2, InvParts, CurrentIs, Zenon
    <3>4. n < s.len
      BY <2>1, <3>2, <3>3, Zenon
    <3>5. m < s.len
      BY <3>4 DEF SliceType
    <3> QED
      BY <3>1, <3>2, <3>3, <3>5, Zenon
  <2>2. CASE ~(buf.start < Len(buf.vs) /\ n < buf.vs[buf.start + 1].len)
    BY <2>2, Zenon DEF ForgetPeek
  <2> QED
    BY <2>1, <2>2
<1>4. DataOK(r.heap, obj, r.buf, peeked')
  BY <1>2, <1>3, ConsumeOK, Zenon
<1> QED
  BY <1>1, <1>4, Zenon DEF StreamDataInv

LEMMA MoveHeaderStep ==
  ASSUME StreamDataInv, NEW n \in Nat, MoveHeader(n)
  PROVE  StreamDataInv'
<1>1. PICK r : r = move_header(heap, buf, n) /\ Apply(r)
  BY Zenon DEF MoveHeader
<1>2. ForgetPeek(n) /\ obj' = obj
  BY Zenon DEF MoveHeader
<1>3. BufferOK(buf) /\ Owned(heap, obj, buf.vs)
  BY InvParts, Zenon
<1>4. PICK m \in Nat : m = (IF n <= buf.length THEN n ELSE 0) /\ m <= n
  OBVIOUS
<1>5. Consumed(heap, obj, buf, r.heap, r.buf, IF n <= buf.length THEN n ELSE 0)
  BY <1>1, <1>3, MoveHeaderOK
<1>6. Consumed(heap, obj, buf, r.heap, r.buf, m)
  BY <1>4, <1>5, Zenon
<1> QED
  BY <1>1, <1>2, <1>4, <1>6, ConsumeStep, Zenon

LEMMA PopFrontStep ==
  ASSUME StreamDataInv, PopFront
  PROVE  StreamDataInv'
<1>1. PICK r : r = pop_front(heap, buf) /\ Apply(r)
  BY Zenon DEF PopFront
<1>2. peeked' = NoPeek /\ obj' = obj
  BY Zenon DEF PopFront
<1>3. BufferOK(buf) /\ Owned(heap, obj, buf.vs) /\ DataOK(heap, obj, buf, peeked)
  BY InvParts, Zenon
<1>4. PICK n \in Nat : Consumed(heap, obj, buf, r.heap, r.buf, n)
  <2>1. FirstSize(buf) \in Nat /\ Consumed(heap, obj, buf, r.heap, r.buf, FirstSize(buf))
    BY <1>1, <1>3, PopFrontOK
  <2> QED
    BY <2>1, Zenon
<1>5. DataOK(r.heap, obj, r.buf, NoPeek)
  BY <1>3, <1>4, ConsumeOK, Zenon
<1> QED
  BY <1>1, <1>2, <1>5, Zenon DEF StreamDataInv, Apply

LEMMA PopBackStep ==
  ASSUME StreamDataInv, PopBack
  PROVE  StreamDataInv'
<1>1. PICK r : r = pop_back(heap, buf) /\ Apply(r)
  BY Zenon DEF PopBack
<1>2. peeked' = NoPeek /\ obj' = obj
  BY Zenon DEF PopBack
<1>3. BufferOK(buf) /\ Owned(heap, obj, buf.vs)
  BY InvParts, Zenon
<1>4. BufferOK(r.buf) /\ Owned(r.heap, obj, r.buf.vs)
  BY <1>1, <1>3, PopBackOK
<1>5. PeekOK(r.heap, r.buf, NoPeek)
  BY <1>4, OwnedParts, PeekNone, Zenon
<1> QED
  BY <1>1, <1>2, <1>4, <1>5, Zenon DEF StreamDataInv, DataOK, Apply

LEMMA ClearBufferStep ==
  ASSUME StreamDataInv, ClearBuffer
  PROVE  StreamDataInv'
<1>1. PICK r : r = clear_buffer(heap, buf) /\ Apply(r)
  BY Zenon DEF ClearBuffer
<1>2. peeked' = NoPeek /\ obj' = obj
  BY Zenon DEF ClearBuffer
<1>3. BufferOK(buf) /\ Owned(heap, obj, buf.vs)
  BY InvParts, Zenon
<1>4. BufferOK(r.buf) /\ Owned(r.heap, obj, r.buf.vs)
  BY <1>1, <1>3, ClearOK
<1>5. PeekOK(r.heap, r.buf, NoPeek)
  BY <1>4, OwnedParts, PeekNone, Zenon
<1> QED
  BY <1>1, <1>2, <1>4, <1>5, Zenon DEF StreamDataInv, DataOK, Apply

\* What copy_to_buffer hands out: the first bytes, as many as asked for or as
\* there are.
LEMMA CopyBytes ==
  ASSUME StreamDataInv, NEW n \in Nat
  PROVE  \E k \in Nat, bs \in Seq(Byte) :
           /\ bs = copy_to_buffer(heap, buf, n) /\ k = Len(bs) /\ k <= n /\ k <= buf.length
           /\ k = n \/ k = buf.length
           /\ bs = SubSeq(BufferBytes(heap, buf), 1, k)
<1>1. PICK ss \in Seq(SliceType) : ss = Current(buf) /\ buf.length = Size(ss)
  BY InvParts, BufferParts, Zenon
<1>2. heap \in HeapType
  BY InvParts, Zenon
<1>3. \A i \in 1..Len(ss) : Within(heap, ss[i])
  <2>1. \A i \in 1..Len(Current(buf)) : Current(buf)[i] \in SliceType /\ Within(heap, Current(buf)[i])
    BY InvParts, CurrentIs, Zenon
  <2> QED
    BY <1>1, <2>1, Zenon
<1>4. \E k \in Nat : /\ k <= n /\ k <= Size(ss) /\ (k = n \/ k = Size(ss))
                     /\ copy_to_buffer(heap, buf, n) = SubSeq(Joined(heap, ss), 1, k)
                     /\ copy_to_buffer(heap, buf, n) \in Seq(Byte) /\ Len(copy_to_buffer(heap, buf, n)) = k
  <2>1. ss = Current(buf)
    BY <1>1, Zenon
  <2> QED
    BY <1>2, <1>3, <2>1, CopyIs
<1> QED
  BY <1>1, <1>4, Zenon DEF BufferBytes

\* What is seen of the bytes a when n are asked for: all n, or none.
Seen(a, n) == IF n <= Len(a) THEN SubSeq(a, 1, n) ELSE <<>>

\* None asked for, and all.
LEMMA SeenNoneOrAll ==
  ASSUME NEW a \in Seq(Byte)
  PROVE  Seen(a, 0) = <<>> /\ Seen(a, Len(a)) = a
<1>1. 0 <= Len(a) /\ Len(a) <= Len(a) /\ SubSeq(a, 1, 0) = <<>>
  OBVIOUS
<1>2. SubSeq(a, 1, Len(a)) = a
  BY SubSeqFull
<1> QED
  BY <1>1, <1>2, Zenon DEF Seen

\* The buffer has as many bytes as _length says.
LEMMA InvBytes ==
  ASSUME StreamDataInv
  PROVE  BufferBytes(heap, buf) \in Seq(Byte) /\ Len(BufferBytes(heap, buf)) = buf.length /\ buf.length \in Nat
<1>1. BufferOK(buf) /\ Owned(heap, obj, buf.vs)
  BY InvParts, Zenon
<1> QED
  BY <1>1, BytesAre, BufferParts, Zenon

\* copy_to_buffer, of not more than there is.
LEMMA CopySeen ==
  ASSUME StreamDataInv, NEW n \in Nat, n <= buf.length
  PROVE  copy_to_buffer(heap, buf, n) \in Seq(Byte) /\ copy_to_buffer(heap, buf, n) = Seen(BufferBytes(heap, buf), n)
<1>1. PICK k \in Nat, bs \in Seq(Byte) :
        /\ bs = copy_to_buffer(heap, buf, n) /\ k = Len(bs) /\ k <= n /\ k <= buf.length
        /\ k = n \/ k = buf.length
        /\ bs = SubSeq(BufferBytes(heap, buf), 1, k)
  BY CopyBytes, Zenon
<1>2. PICK m \in Nat : m = Len(BufferBytes(heap, buf)) /\ m = buf.length
  BY InvBytes, Zenon
<1>3. k <= n /\ n <= m /\ (k = n \/ k = m)
  BY <1>1, <1>2, Zenon
<1>4. k = n
  BY <1>3
<1> QED
  BY <1>1, <1>2, <1>3, <1>4, Zenon DEF Seen

LEMMA GetHeaderStep ==
  ASSUME StreamDataInv, NEW o \in Objects, NEW n \in Nat, GetHeader(o, n)
  PROVE  StreamDataInv' /\ Kept(heap, heap', buf.vs) /\ got' = Seen(BufferBytes(heap, buf), n)
<1>1. PICK bs : bs = IF n = 0 \/ buf.length < n THEN <<>> ELSE copy_to_buffer(heap, buf, n)
  BY Zenon
<1>2. PICK a \in Seq(Byte), m \in Nat : a = BufferBytes(heap, buf) /\ m = Len(a) /\ m = buf.length
  BY InvBytes, Zenon
<1>3. bs \in Seq(Byte) /\ bs = Seen(a, n)
  <2>1. CASE n = 0
    <3>1. <<>> \in Seq(Byte)
      OBVIOUS
    <3> QED
      BY <1>1, <2>1, <3>1, SeenNoneOrAll, Zenon
  <2>2. CASE n # 0 /\ m < n
    <3>1. <<>> \in Seq(Byte) /\ ~(n <= m)
      BY <2>2
    <3> QED
      BY <1>1, <1>2, <2>2, <3>1, Zenon DEF Seen
  <2>3. CASE n # 0 /\ n <= m
    <3>1. ~(m < n)
      BY <2>3
    <3>2. bs = copy_to_buffer(heap, buf, n) /\ n <= buf.length
      BY <1>1, <1>2, <2>3, <3>1, Zenon
    <3> QED
      BY <1>2, <3>2, CopySeen, Zenon
  <2>4. n = 0 \/ m < n \/ n <= m
    OBVIOUS
  <2> QED
    BY <2>1, <2>2, <2>3, <2>4, Zenon
<1>4. PICK b \in Free(heap) : Receive(o, Construct(heap, bs, b))
  BY <1>1, Zenon DEF GetHeader
<1>5. UNCHANGED <<buf, peeked>> /\ got' = bs
  BY <1>1, Zenon DEF GetHeader
<1> QED
  BY <1>2, <1>3, <1>4, <1>5, ReceiveFresh, Zenon

LEMMA MergeStep ==
  ASSUME StreamDataInv, NEW o \in Objects, Merge(o)
  PROVE  StreamDataInv' /\ Kept(heap, heap', buf.vs) /\ got' = BufferBytes(heap, buf)
<1>1. UNCHANGED <<buf, peeked>> /\ got' = Content(heap', obj'[o])
  BY Zenon DEF Merge
<1>2. CASE slice_count(buf) = 0 /\ Receive(o, [heap |-> heap, slice |-> EmptySlice])
  <2>1. StreamDataInv' /\ Kept(heap, heap', buf.vs) /\ Content(heap', obj'[o]) = Content(heap, EmptySlice)
    BY <1>1, <1>2, EmptyIs, SliceAssumption, ReceiveFree, Zenon
  <2>2. Content(heap, EmptySlice) \in Seq(Byte) /\ Len(Content(heap, EmptySlice)) = 0
    BY InvParts, EmptyIs, ContentIs, Zenon
  <2>3. Content(heap, EmptySlice) = <<>>
    BY <2>2
  <2>4. PICK c \in Seq(SliceType) : c = Current(buf) /\ Len(c) = 0
    BY <1>2, InvParts, BufferParts, Zenon DEF slice_count
  <2>5. c = <<>>
    BY <2>4
  <2>6. BufferBytes(heap, buf) = <<>>
    BY <2>4, <2>5, InvParts, EmptyIs, JoinedFew, Zenon DEF BufferBytes
  <2> QED
    BY <1>1, <2>1, <2>3, <2>6, Zenon
<1>3. CASE /\ slice_count(buf) = 1
           /\ Receive(o, [heap |-> Ref(heap, Last(buf.vs)), slice |-> Last(buf.vs)])
  <2>1. PICK v \in Seq(SliceType), a \in Nat, m \in Nat : v = buf.vs /\ a = buf.start /\ m = Len(v) /\ m - a = 1
    BY <1>3, InvParts, BufferParts, ZenonT(60) DEF slice_count
  <2>2. Len(v) \in 1..Len(v) /\ a < m /\ a + 1 = m
    <3>1. m - a = 1
      BY <2>1, Zenon
    <3>2. m \in 1..m /\ a < m /\ a + 1 = m
      BY <3>1
    <3> QED
      BY <2>1, <3>2, Zenon
  <2>3. PICK s \in SliceType : s = Last(buf.vs) /\ Within(heap, s) /\ s = v[m]
    <3>1. v[Len(v)] \in SliceType /\ Within(heap, v[Len(v)])
      BY <2>1, <2>2, InvParts, OwnedParts, Zenon
    <3> QED
      BY <2>1, <3>1, Zenon DEF Last
  <2>4. PICK r : r = [heap |-> Ref(heap, s), slice |-> s] /\ Receive(o, r)
    BY <1>3, <2>3, Zenon
  <2>5. r.heap = Ref(heap, s) /\ r.slice = s
    BY <2>4
  <2>6. /\ Owned(Ref(heap, s), obj, Append(buf.vs, s)) /\ Kept(heap, Ref(heap, s), buf.vs)
        /\ \A x : Memory(Ref(heap, s), x) = Memory(heap, x)
    BY <2>3, InvParts, OwnRef, Zenon
  <2>7. StreamDataInv' /\ Kept(heap, heap', buf.vs) /\ Content(heap', obj'[o]) = Content(Ref(heap, s), s)
    BY <1>1, <2>4, <2>5, <2>6, ReceiveStep, Zenon
  <2>8. Content(Ref(heap, s), s) = Content(heap, s)
    BY <2>6, ContentSame, Zenon
  <2>9. PICK c \in Seq(SliceType) : c = Current(buf) /\ Len(c) = 1 /\ c[1] = s
    <3>1. Current(buf) \in Seq(SliceType) /\ Len(Current(buf)) = Len(buf.vs) - buf.start
      BY InvParts, BufferParts, Zenon
    <3>2. Current(buf)[1] = buf.vs[buf.start + 1]
      BY <2>1, <2>2, InvParts, FirstIs, Zenon
    <3>3. Len(Current(buf)) = 1
      BY <2>1, <3>1, Zenon
    <3>4. Current(buf)[1] = s
      BY <2>1, <2>2, <2>3, <3>2, Zenon
    <3> QED
      BY <3>1, <3>3, <3>4, Zenon
  <2>10. c = <<s>>
    <3>1. <<s>> \in Seq(SliceType) /\ Len(<<s>>) = 1 /\ <<s>>[1] = s
      OBVIOUS
    <3>2. \A x, y \in Seq(SliceType) : Len(x) = 1 /\ Len(y) = 1 /\ x[1] = y[1] => x = y
      BY SeqEqual
    <3> QED
      BY <2>9, <3>1, <3>2, Zenon
  <2>11. BufferBytes(heap, buf) = Content(heap, s)
    BY <2>9, <2>10, InvParts, JoinedFew, Zenon DEF BufferBytes
  <2> QED
    BY <1>1, <2>7, <2>8, <2>11, Zenon
<1>4. CASE \E b \in Free(heap) : Receive(o, Construct(heap, copy_to_buffer(heap, buf, buf.length), b))
  <2>1. PICK a \in Seq(Byte), m \in Nat : a = BufferBytes(heap, buf) /\ m = buf.length /\ m = Len(a)
    BY InvBytes, Zenon
  <2>2. m <= m
    OBVIOUS
  <2>3. copy_to_buffer(heap, buf, m) \in Seq(Byte) /\ copy_to_buffer(heap, buf, m) = Seen(a, m)
    BY <2>1, <2>2, CopySeen, Zenon
  <2>4. copy_to_buffer(heap, buf, buf.length) \in Seq(Byte) /\ copy_to_buffer(heap, buf, buf.length) = a
    BY <2>1, <2>3, SeenNoneOrAll, Zenon
  <2> QED
    BY <1>1, <1>4, <2>1, <2>4, ReceiveFresh, Zenon
<1> QED
  BY <1>2, <1>3, <1>4, Zenon DEF Merge

LEMMA AppendDataStep ==
  ASSUME StreamDataInv, NEW bs \in Payloads, AppendData(bs)
  PROVE  StreamDataInv' /\ Kept(heap, heap', buf.vs) /\ Brought(bs)
<1>1. bs \in Seq(Byte)
  BY StreamDataAssumption, Zenon
<1>2. PICK b, r : /\ b \in Free(heap) /\ r = Construct(heap, bs, b)
                  /\ heap' = r.heap /\ buf' = add_slice(buf, r.slice)
  BY Zenon DEF AppendData
<1>3. obj' = obj /\ peeked' = peeked
  BY DEF AppendData
<1>4. Owned(heap, obj, buf.vs) /\ DataOK(heap, obj, buf, peeked)
  BY InvParts, Zenon
<1>5. /\ Owned(r.heap, obj, Append(buf.vs, r.slice)) /\ Kept(heap, r.heap, buf.vs)
      /\ r.slice \in SliceType
  BY <1>1, <1>2, <1>4, OwnConstruct
<1>6. Brought(bs)
  <2>1. r.slice.off = 0 /\ r.slice.len = Len(bs) /\ Memory(r.heap, r.slice) = bs
    BY <1>1, <1>2, <1>4, OwnConstruct
  <2>2. Within(r.heap, r.slice) /\ Content(r.heap, r.slice) = bs
    BY <1>1, <1>5, <2>1, WholeBlock, Zenon
  <2> QED
    BY <1>2, <1>5, <2>2, Zenon DEF Brought
<1>7. CASE bs = <<>>
  <2>1. r = [heap |-> heap, slice |-> EmptySlice]
    BY <1>2, <1>7, Zenon DEF Construct
  <2>2. r.heap = heap /\ r.slice = EmptySlice
    BY <2>1
  <2>3. heap' = heap /\ buf' = buf
    BY <1>2, <2>2, EmptyIs, AddNothing, Zenon
  <2> QED
    BY <1>3, <1>6, <2>3, InvParts, Zenon DEF StreamDataInv
<1>8. CASE bs # <<>>
  <2>1. r.slice.len = Len(bs)
    BY <1>1, <1>2, <1>4, OwnConstruct
  <2>2. r.slice.len # 0
    BY <1>1, <1>8, <2>1
  <2>3. PICK s, p : s \in SliceType /\ s = r.slice /\ p = add_slice(buf, s) /\ buf' = p
    BY <1>2, <1>5, Zenon
  <2>4. s.len # 0 /\ Owned(r.heap, obj, Append(buf.vs, s))
    BY <1>5, <2>2, <2>3, Zenon
  <2>5. DataOK(r.heap, obj, p, peeked)
    BY <1>4, <1>5, <2>3, <2>4, ExtendOK
  <2> QED
    BY <1>2, <1>3, <1>5, <1>6, <2>3, <2>5, Zenon DEF StreamDataInv
<1> QED
  BY <1>7, <1>8

LEMMA ReadDataStep ==
  ASSUME StreamDataInv, NEW n \in Nat, ReadData(n)
  PROVE  StreamDataInv'
<1>1. got' = copy_to_buffer(heap, buf, n) /\ Apply(move_header(heap, buf, Len(got'))) /\ ForgetPeek(n) /\ obj' = obj
  BY Zenon DEF ReadData
<1>2. PICK k \in Nat : k = Len(got') /\ k <= n
  <2>1. \E k \in Nat, bs \in Seq(Byte) :
          bs = copy_to_buffer(heap, buf, n) /\ k = Len(bs) /\ k <= n
    BY CopyBytes, Zenon
  <2> QED
    BY <1>1, <2>1, Zenon
<1>3. PICK r : r = move_header(heap, buf, k) /\ Apply(r)
  BY <1>1, <1>2, Zenon
<1>4. BufferOK(buf) /\ Owned(heap, obj, buf.vs)
  BY InvParts, Zenon
<1>5. PICK m \in Nat : m = (IF k <= buf.length THEN k ELSE 0) /\ m <= n
  <2>1. k <= n
    BY <1>2, Zenon
  <2> QED
    BY <2>1
<1>6. Consumed(heap, obj, buf, r.heap, r.buf, IF k <= buf.length THEN k ELSE 0)
  BY <1>3, <1>4, MoveHeaderOK
<1>7. Consumed(heap, obj, buf, r.heap, r.buf, m)
  BY <1>5, <1>6, Zenon
<1> QED
  BY <1>1, <1>3, <1>5, <1>7, ConsumeStep, Zenon

LEMMA PeekDataStep ==
  ASSUME StreamDataInv, PeekData
  PROVE  StreamDataInv' /\ Kept(heap, heap', buf.vs)
<1>1. slice_count(buf) > 0 /\ heap' = heap /\ obj' = obj /\ buf' = buf
  BY DEF PeekData
<1>2. buf.start < Len(buf.vs)
  <2>1. buf.start \in Nat /\ Len(buf.vs) \in Nat
    BY InvParts, BufferParts, Zenon
  <2>2. Len(buf.vs) - buf.start > 0
    BY <1>1, Zenon DEF slice_count
  <2> QED
    BY <2>1, <2>2
<1>3. Current(buf) # <<>> /\ Current(buf)[1] = buf.vs[buf.start + 1] /\ 1 \in 1..Len(Current(buf))
  BY <1>2, InvParts, FirstIs, Zenon
<1>4. PICK s \in SliceType : s = Current(buf)[1] /\ s = buf.vs[buf.start + 1]
  BY <1>3, InvParts, CurrentIs, Zenon
<1>5. PICK bs \in Seq(Byte) : bs = Content(heap, s)
  BY InvParts, ContentType, Zenon
<1>6. peeked' = [slice |-> s, bytes |-> bs]
  BY <1>4, <1>5, Zenon DEF PeekData
<1>7. peeked' \in PeekType /\ peeked'.slice = s /\ peeked'.bytes = bs
  BY <1>6 DEF PeekType
<1>8. PeekOK(heap, buf, peeked')
  BY <1>3, <1>4, <1>5, <1>7, Zenon DEF PeekOK
<1>9. DataOK(heap, obj, buf, peeked')
  BY <1>8, InvParts, Zenon DEF DataOK
<1> QED
  BY <1>1, <1>9, InvParts, Zenon DEF StreamDataInv

-----------------------------------------------------------------------------
(***************************************************************************)
(* The theorems.                                                           *)
(***************************************************************************)

LEMMA InitInv == Init => StreamDataInv
<1> SUFFICES ASSUME Init PROVE StreamDataInv
  OBVIOUS
<1>1. heap = EmptyHeap /\ obj = [o \in Objects |-> EmptySlice] /\ buf = EmptyBuffer /\ peeked = NoPeek
  BY Zenon DEF Init
<1>2. heap \in HeapType /\ \A b \in Blocks : heap.refs[b] = 0
  BY <1>1 DEF EmptyHeap, HeapType
<1>3. obj \in [Objects -> SliceType] /\ \A o \in Objects : obj[o] = EmptySlice
  BY <1>1, EmptyIs
<1>4. buf \in BufferType /\ buf.vs = <<>> /\ buf.start = 0 /\ buf.length = 0 /\ <<>> \in Seq(SliceType)
  BY <1>1 DEF EmptyBuffer, BufferType
<1>5. ASSUME NEW b \in Blocks PROVE heap.refs[b] = Holders(obj, b) + Places(buf.vs, b)
  <2>1. \A o \in Objects : obj[o].block # b
    BY <1>3, EmptyIs, SliceAssumption, Zenon
  <2>2. {o \in Objects : obj[o].block = b} = {}
    BY <2>1
  <2>3. Holders(obj, b) = 0
    BY <2>2, FS_EmptySet, Zenon DEF Holders
  <2>4. Places(buf.vs, b) = 0
    BY <1>4, WeighedEmpty, Zenon DEF Places
  <2> QED
    BY <1>2, <2>3, <2>4
<1>6. \A i \in 1..Len(buf.vs) : Within(heap, buf.vs[i])
  BY <1>4
<1>7. \A o \in Objects : Within(heap, obj[o])
  BY <1>3, EmptyIs, Zenon
<1>8. Owned(heap, obj, buf.vs)
  BY <1>2, <1>3, <1>4, <1>5, <1>6, <1>7, Zenon DEF Owned
<1>9. BufferOK(buf)
  <2>1. 0 <= Len(<<>>) /\ SubSeq(<<>>, 0 + 1, Len(<<>>)) = <<>>
    OBVIOUS
  <2>2. Current(buf) = <<>>
    BY <1>4, <2>1, Zenon DEF Current
  <2>3. Size(<<>>) = 0
    BY WeighedEmpty, Zenon DEF Size
  <2> QED
    BY <1>4, <2>1, <2>2, <2>3, Zenon DEF BufferOK
<1>10. PeekOK(heap, buf, peeked)
  BY <1>1, <1>2, PeekNone, Zenon
<1> QED
  BY <1>8, <1>9, <1>10, Zenon DEF StreamDataInv, DataOK

\* One step per operation; the sizes of the bounds are natural numbers.
LEMMA StepInv == StreamDataInv /\ [Next]_vars => StreamDataInv'
<1> SUFFICES ASSUME StreamDataInv, [Next]_vars PROVE StreamDataInv'
  OBVIOUS
<1>1. (\A n \in Sizes : n \in Nat) /\ \A n \in 0..MaxBlock : n \in Nat
  BY StreamDataAssumption DEF Sizes
<1>2. CASE SliceNext
  <2>1. PICK o \in Objects :
          \/ \E bs \in Payloads : SliceConstruct(o, bs)
          \/ \E n \in 0..Len(StaticBytes) : SliceStatic(o, n)
          \/ \E p \in Objects : SliceCopy(o, p) \/ SliceMove(o, p) \/ SliceAppend(o, p)
          \/ \E n \in Sizes : SliceCut(o, n)
    BY <1>2, Zenon DEF SliceNext
  <2> QED
    BY <1>1, <2>1, SliceConstructStep, SliceStaticStep, SliceCopyStep, SliceMoveStep, SliceAppendStep,
       SliceCutStep, Zenon
<1>3. CASE BufferNext
  BY <1>1, <1>3, AddSliceStep, AddSliceMoveStep, MergeStep, GetHeaderStep, MoveHeaderStep, PopFrontStep,
     PopBackStep, ClearBufferStep, Zenon DEF BufferNext
<1>4. CASE StreamNext
  BY <1>1, <1>4, AppendDataStep, ReadDataStep, PeekDataStep, Zenon DEF StreamNext
<1>5. CASE UNCHANGED vars
  <2>1. heap' = heap /\ obj' = obj /\ buf' = buf /\ peeked' = peeked
    BY <1>5 DEF vars
  <2> QED
    BY <2>1, Zenon DEF StreamDataInv
<1> QED
  BY <1>2, <1>3, <1>4, <1>5, Zenon DEF Next

\* The inductive invariant holds: every operation of slice.cc and
\* slice_buffer.cc, and the stream's calls on them, keep references and
\* windows right, with any blocks, payloads and sizes.
THEOREM StreamDataSafe == Spec => []StreamDataInv
BY InitInv, StepInv, PTL DEF Spec

\* Every block's count is the number of slices that show it (ref and unref
\* of slice.cc over copies, moves, merges and _compact).
THEOREM ExactRefcounts == Spec => []RefcountExact
<1>1. StreamDataInv => RefcountExact
  <2> SUFFICES ASSUME StreamDataInv, NEW b \in Blocks
               PROVE  heap.refs[b] = Cardinality({o \in Objects : obj[o].block = b})
                                     + Cardinality({i \in 1..Len(buf.vs) : buf.vs[i].block = b})
    BY DEF RefcountExact
  <2>1. heap.refs[b] = Holders(obj, b) + Places(buf.vs, b)
    BY InvParts, Zenon DEF Owned
  <2>2. Cardinality({i \in 1..Len(buf.vs) : buf.vs[i].block = b}) = Places(buf.vs, b)
    BY InvParts, PlacesIs, Zenon
  <2> QED
    BY <2>1, <2>2, Zenon DEF Holders
<1> QED
  BY <1>1, StreamDataSafe, PTL

\* A slice never shows bytes outside its block, and _length is the number of
\* bytes of the slices that are left (slice_buffer.cc).
THEOREM WindowsAlwaysFit == Spec => []WindowsFit
<1>1. StreamDataInv => WindowsFit
  <2> SUFFICES ASSUME StreamDataInv PROVE WindowsFit
    OBVIOUS
  <2>1. TypeOK
    <3>1. heap.refs \in [Blocks -> Nat]
      BY InvParts, OwnedParts, Zenon
    <3>2. \A s \in SliceType : IsSlice(s)
      BY DEF SliceType, IsSlice
    <3>3. \A o \in Objects : IsSlice(obj[o])
      BY <3>2, InvParts, Zenon
    <3>4. \A i \in 1..Len(buf.vs) : buf.vs[i] \in SliceType
      BY InvParts, OwnedParts, Zenon
    <3>5. buf.start \in 0..Len(buf.vs) /\ buf.length \in Nat
      BY InvParts, BufferParts, Zenon
    <3> QED
      BY <3>1, <3>2, <3>3, <3>4, <3>5, Zenon DEF TypeOK
  <2>2. \A o \in Objects : Len(Content(heap, obj[o])) = obj[o].len
    BY InvParts, ContentIs, Zenon
  <2>3. Len(BufferBytes(heap, buf)) = buf.length
    <3>1. PICK ss \in Seq(SliceType) : ss = Current(buf) /\ buf.length = Size(ss)
      BY InvParts, BufferParts, Zenon
    <3>2. \A i \in 1..Len(ss) : Within(heap, ss[i])
      <4>1. \A i \in 1..Len(Current(buf)) : Current(buf)[i] \in SliceType /\ Within(heap, Current(buf)[i])
        BY InvParts, CurrentIs, Zenon
      <4> QED
        BY <3>1, <4>1, Zenon
    <3>3. Len(Joined(heap, ss)) = Weighed(Lengths, ss)
      BY <3>2, InvParts, JoinedLen, Zenon
    <3> QED
      BY <3>1, <3>3, Zenon DEF BufferBytes, Size
  <2> QED
    BY <2>1, <2>2, <2>3, Zenon DEF WindowsFit
<1> QED
  BY <1>1, StreamDataSafe, PTL

\* What PeekData pointed to is still there up to the read that reaches its
\* end, whatever slices come and go (stream.cc, PeekData and ReadData).
THEOREM PeekedBytesStay == Spec => []PeekStaysUntilRead
<1>1. StreamDataInv => PeekStaysUntilRead
  BY InvParts, Zenon DEF PeekOK, PeekStaysUntilRead
<1> QED
  BY <1>1, StreamDataSafe, PTL

-----------------------------------------------------------------------------
(***************************************************************************)
(* The buffer is a stream of bytes.                                        *)
(***************************************************************************)

\* The bytes are those of a sequence, before the step and after it.
LEMMA BytesType ==
  ASSUME StreamDataInv, StreamDataInv'
  PROVE  /\ BufferBytes(heap, buf) \in Seq(Byte) /\ BufferBytes(heap', buf') \in Seq(Byte)
         /\ Len(BufferBytes(heap, buf)) = buf.length /\ Len(BufferBytes(heap', buf')) = buf'.length
         /\ heap \in HeapType /\ heap' \in HeapType
<1>1. Owned(heap, obj, buf.vs) /\ BufferOK(buf) /\ Owned(heap', obj', buf'.vs) /\ BufferOK(buf')
  BY Zenon DEF StreamDataInv, DataOK
<1> QED
  BY <1>1, BytesAre, OwnedParts, Zenon

\* The parts of a call.
LEMMA CallIs ==
  /\ \A op, n : Ask(op, n).op = op /\ Ask(op, n).n = n
  /\ \A bs : Bring(bs).op = "write" /\ Bring(bs).bytes = bs
BY DEF Ask, Bring

\* Bytes behind the others are written.
LEMMA AsWrite ==
  ASSUME NEW bs, call' = Bring(bs), BufferBytes(heap', buf') = BufferBytes(heap, buf) \o bs, got' = <<>>
  PROVE  Stream!StreamNext
<1>1. call'.op = "write" /\ call'.bytes = bs
  BY CallIs, Zenon
<1>2. Stream!Write(bs)
  BY Zenon DEF Stream!Write
<1>3. Stream!Write(call'.bytes)
  BY <1>1, <1>2, Zenon
<1> QED
  BY <1>1, <1>3, Zenon DEF Stream!StreamNext

\* The first bytes are seen; they stay.
LEMMA AsLook ==
  ASSUME NEW n, call' = Ask("look", n), got' = Seen(BufferBytes(heap, buf), n),
         BufferBytes(heap', buf') = BufferBytes(heap, buf)
  PROVE  Stream!StreamNext
<1>1. call'.op = "look" /\ call'.n = n
  BY CallIs, Zenon
<1>2. Stream!Look(n)
  BY Zenon DEF Stream!Look, Seen
<1>3. Stream!Look(call'.n)
  BY <1>1, <1>2, Zenon
<1> QED
  BY <1>1, <1>3, Zenon DEF Stream!StreamNext

\* Bytes that are gone from the front.
LEMMA GoneAre ==
  ASSUME NEW c, NEW d \in Seq(Byte), NEW n, WithoutFirst(c, d, n)
  PROVE  n \in 0..Len(c) /\ d = SubSeq(c, n + 1, Len(c))
<1>1. PICK p \in Seq(Byte) : c = p \o d /\ Len(p) = n
  BY Zenon DEF WithoutFirst
<1>2. Len(p) <= Len(p \o d) /\ SubSeq(p \o d, Len(p) + 1, Len(p \o d)) = d /\ p \o d \in Seq(Byte)
  BY RestOfTwo, Zenon
<1>3. n \in Nat /\ n <= Len(c) /\ Len(c) \in Nat
  BY <1>1, <1>2
<1>4. n \in 0..Len(c)
  BY <1>3
<1> QED
  BY <1>1, <1>2, <1>4, Zenon

\* When none are gone, all are there.
LEMMA NoneGone ==
  ASSUME NEW c \in Seq(Byte), NEW d \in Seq(Byte), WithoutFirst(c, d, 0)
  PROVE  d = c
<1>1. d = SubSeq(c, 0 + 1, Len(c))
  BY GoneAre, Zenon
<1>2. SubSeq(c, 1, Len(c)) = c
  BY SubSeqFull
<1>3. 0 + 1 = 1
  OBVIOUS
<1> QED
  BY <1>1, <1>2, <1>3, Zenon

\* They have been read: as many as asked for, or as there are.
LEMMA AsRead ==
  ASSUME NEW n \in Nat, call' = Ask("read", n), NEW k \in Nat, k <= n, k = n \/ k = Len(BufferBytes(heap, buf)),
         BufferBytes(heap, buf) \in Seq(Byte), BufferBytes(heap', buf') \in Seq(Byte),
         WithoutFirst(BufferBytes(heap, buf), BufferBytes(heap', buf'), k),
         got' = SubSeq(BufferBytes(heap, buf), 1, k)
  PROVE  Stream!StreamNext
<1>1. call'.op = "read" /\ call'.n = n
  BY CallIs, Zenon
<1>2. PICK a \in Seq(Byte), b \in Seq(Byte) : a = BufferBytes(heap, buf) /\ b = BufferBytes(heap', buf')
  BY Zenon
<1>3. k \in 0..Len(a) /\ b = SubSeq(a, k + 1, Len(a)) /\ (k = n \/ k = Len(a))
  BY <1>2, GoneAre, Zenon
<1>4. k = IF n <= Len(a) THEN n ELSE Len(a)
  BY <1>3
<1>5. Stream!Read(n)
  <2>1. k = IF n <= Len(BufferBytes(heap, buf)) THEN n ELSE Len(BufferBytes(heap, buf))
    BY <1>2, <1>4, Zenon
  <2>2. BufferBytes(heap', buf') = SubSeq(BufferBytes(heap, buf), k + 1, Len(BufferBytes(heap, buf)))
    BY <1>2, <1>3, Zenon
  <2> QED
    BY <2>1, <2>2, Zenon DEF Stream!Read
<1>6. Stream!Read(call'.n)
  BY <1>1, <1>5, Zenon
<1> QED
  BY <1>1, <1>6, Zenon DEF Stream!StreamNext

\* They are dropped: as many as asked for, or none.
LEMMA AsSkip ==
  ASSUME NEW n \in Nat, call' = Ask("skip", n), got' = <<>>,
         BufferBytes(heap, buf) \in Seq(Byte), BufferBytes(heap', buf') \in Seq(Byte),
         WithoutFirst(BufferBytes(heap, buf), BufferBytes(heap', buf'), IF n <= Len(BufferBytes(heap, buf)) THEN n ELSE 0)
  PROVE  Stream!StreamNext
<1>1. call'.op = "skip" /\ call'.n = n
  BY CallIs, Zenon
<1>2. PICK a \in Seq(Byte), b \in Seq(Byte) : a = BufferBytes(heap, buf) /\ b = BufferBytes(heap', buf')
  BY Zenon
<1>3. CASE n <= Len(a)
  <2>1. WithoutFirst(a, b, n)
    BY <1>2, <1>3, Zenon
  <2>2. b = SubSeq(a, n + 1, Len(a))
    BY <2>1, GoneAre, Zenon
  <2>3. Stream!Skip(n)
    BY <1>2, <1>3, <2>2, Zenon DEF Stream!Skip
  <2> QED
    BY <1>1, <2>3, Zenon DEF Stream!StreamNext
<1>4. CASE ~(n <= Len(a))
  <2>1. WithoutFirst(a, b, 0)
    BY <1>2, <1>4, Zenon
  <2>2. b = a
    BY <2>1, NoneGone, Zenon
  <2>3. Stream!Skip(n)
    BY <1>2, <1>4, <2>2, Zenon DEF Stream!Skip
  <2> QED
    BY <1>1, <2>3, Zenon DEF Stream!StreamNext
<1> QED
  BY <1>3, <1>4, Zenon

\* The last bytes are dropped.
LEMMA AsKeep ==
  ASSUME NEW e \in Seq(Byte), BufferBytes(heap', buf') \in Seq(Byte), NEW n, n = Len(BufferBytes(heap', buf')),
         call' = Ask("keep", n), BufferBytes(heap, buf) = BufferBytes(heap', buf') \o e, got' = <<>>
  PROVE  Stream!StreamNext
<1>1. PICK b, a : b \in Seq(Byte) /\ b = BufferBytes(heap', buf') /\ a = BufferBytes(heap, buf) /\ a = b \o e
  BY Zenon
<1>2. Len(b) \in Nat /\ Len(b) <= Len(b) /\ SubSeq(b, 1, Len(b)) = b
  <2>1. SubSeq(b, 1, Len(b)) = b
    BY <1>1, SubSeqFull
  <2> QED
    BY <1>1, <2>1
<1>3. SubSeq(b \o e, 1, Len(b)) = SubSeq(b, 1, Len(b))
  BY <1>1, <1>2, FirstOfTwo, Zenon
<1>4. b = SubSeq(a, 1, n)
  BY <1>1, <1>2, <1>3, Zenon
<1>5. Stream!Keep(n)
  BY <1>1, <1>4, Zenon DEF Stream!Keep
<1>6. call'.op = "keep" /\ call'.n = n
  BY CallIs, Zenon
<1> QED
  BY <1>5, <1>6, Zenon DEF Stream!StreamNext

\* The buffer is left alone, and the first bytes, or none, are handed out.
LEMMA QuietStep ==
  ASSUME StreamDataInv, StreamDataInv', buf' = buf, Kept(heap, heap', buf.vs), NEW n,
         call' = Ask("look", n), got' = Seen(BufferBytes(heap, buf), n)
  PROVE  Stream!StreamNext
<1>1. heap \in HeapType /\ heap' \in HeapType
  BY BytesType, Zenon
<1>2. BufferBytes(heap', buf) = BufferBytes(heap, buf)
  BY <1>1, InvParts, BytesKept, Zenon
<1> QED
  BY <1>2, AsLook, Zenon

\* A slice, or nothing, is added.
LEMMA AddStep ==
  ASSUME StreamDataInv, StreamDataInv', Kept(heap, heap', buf.vs),
         NEW bs, Brought(bs), call' = Bring(bs), got' = <<>>
  PROVE  Stream!StreamNext
<1>1. heap \in HeapType /\ heap' \in HeapType
  BY BytesType, Zenon
<1>2. PICK s \in SliceType : buf' = add_slice(buf, s) /\ Within(heap', s) /\ Content(heap', s) = bs
  BY Zenon DEF Brought
<1>3. BufferOK(buf)
  BY InvParts, Zenon
<1>4. PICK p : p = add_slice(buf, s) /\ buf' = p
  BY <1>2, Zenon
<1>5. Within(heap', s)
  BY <1>2, Zenon
<1>6. BufferBytes(heap', p) = BufferBytes(heap, buf) \o Content(heap', s)
  BY <1>1, <1>3, <1>4, <1>5, BytesAdded
<1>7. BufferBytes(heap', buf') = BufferBytes(heap, buf) \o bs
  BY <1>2, <1>4, <1>6, Zenon
<1> QED
  BY <1>7, AsWrite, Zenon

\* Bytes are consumed.
LEMMA Dropped ==
  ASSUME StreamDataInv, StreamDataInv', NEW r, Apply(r), NEW n \in Nat,
         Consumed(heap, obj, buf, r.heap, r.buf, n)
  PROVE  WithoutFirst(BufferBytes(heap, buf), BufferBytes(heap', buf'), n)
<1>1. heap' = r.heap /\ buf' = r.buf
  BY Zenon DEF Apply
<1>2. WithoutFirst(BufferBytes(heap, buf), BufferBytes(r.heap, r.buf), n)
  BY InvParts, BytesConsumed, Zenon
<1> QED
  BY <1>1, <1>2, Zenon

LEMMA SliceStreams ==
  ASSUME StreamDataInv, SliceNext
  PROVE  Stream!StreamNext
<1>1. PICK o \in Objects :
        \/ \E bs \in Payloads : SliceConstruct(o, bs)
        \/ \E n \in 0..Len(StaticBytes) : SliceStatic(o, n)
        \/ \E p \in Objects : SliceCopy(o, p) \/ SliceMove(o, p) \/ SliceAppend(o, p)
        \/ \E n \in Sizes : SliceCut(o, n)
  BY Zenon DEF SliceNext
<1>2. \A n \in Sizes : n \in Nat
  BY StreamDataAssumption DEF Sizes
<1>3. StreamDataInv' /\ Kept(heap, heap', buf.vs)
  BY <1>1, <1>2, SliceConstructStep, SliceStaticStep, SliceCopyStep, SliceMoveStep, SliceAppendStep,
     SliceCutStep, Zenon
<1>4. UNCHANGED <<buf, peeked>> /\ got' = <<>> /\ call' = Quiet
  <2>1. \A bs : SliceConstruct(o, bs) => UNCHANGED <<buf, peeked>> /\ got' = <<>> /\ call' = Quiet
    BY Zenon DEF SliceConstruct
  <2>2. \A n : SliceStatic(o, n) => UNCHANGED <<buf, peeked>> /\ got' = <<>> /\ call' = Quiet
    BY Zenon DEF SliceStatic
  <2>3. \A p : SliceCopy(o, p) \/ SliceMove(o, p) \/ SliceAppend(o, p) => UNCHANGED <<buf, peeked>> /\ got' = <<>> /\ call' = Quiet
    BY Zenon DEF SliceCopy, SliceMove, SliceAppend
  <2>4. \A n : SliceCut(o, n) => UNCHANGED <<buf, peeked>> /\ got' = <<>> /\ call' = Quiet
    BY DEF SliceCut
  <2> QED
    BY <1>1, <2>1, <2>2, <2>3, <2>4, Zenon
<1>5. buf' = buf
  BY <1>4
<1>6. got' = Seen(BufferBytes(heap, buf), 0) /\ call' = Ask("look", 0)
  BY <1>3, <1>4, BytesType, SeenNoneOrAll, Zenon DEF Quiet
<1> QED
  BY <1>3, <1>5, <1>6, QuietStep, Zenon

LEMMA BufferStreams ==
  ASSUME StreamDataInv, BufferNext
  PROVE  Stream!StreamNext
<1>1. (\A n \in Sizes : n \in Nat) /\ \A n \in 0..MaxBlock : n \in Nat
  BY StreamDataAssumption DEF Sizes
<1>2. ASSUME NEW o \in Objects, AddSlice(o) \/ AddSliceMove(o) PROVE Stream!StreamNext
  <2>1. StreamDataInv' /\ Kept(heap, heap', buf.vs) /\ Brought(Content(heap, obj[o]))
    BY <1>2, AddSliceStep, AddSliceMoveStep, Zenon
  <2>2. got' = <<>> /\ call' = Bring(Content(heap, obj[o]))
    BY <1>2, Zenon DEF AddSlice, AddSliceMove
  <2> QED
    BY <2>1, <2>2, AddStep, Zenon
<1>3. ASSUME NEW o \in Objects, Merge(o) \/ \E n \in 0..MaxBlock : GetHeader(o, n) PROVE Stream!StreamNext
  <2>1. buf' = buf
    <3>1. UNCHANGED <<buf, peeked>>
      BY <1>3, Zenon DEF Merge, GetHeader
    <3> QED
      BY <3>1
  <2>2. CASE Merge(o)
    <3>1. StreamDataInv' /\ Kept(heap, heap', buf.vs) /\ got' = BufferBytes(heap, buf)
      BY <2>2, MergeStep, Zenon
    <3>2. call' = Ask("look", buf.length)
      BY <2>2, Zenon DEF Merge
    <3>3. PICK a \in Seq(Byte) : a = BufferBytes(heap, buf) /\ Len(a) = buf.length
      BY <3>1, BytesType, Zenon
    <3>4. got' = Seen(BufferBytes(heap, buf), buf.length)
      BY <3>1, <3>3, SeenNoneOrAll, Zenon
    <3> QED
      BY <2>1, <3>1, <3>2, <3>4, QuietStep, Zenon
  <2>3. ASSUME NEW n \in 0..MaxBlock, GetHeader(o, n) PROVE Stream!StreamNext
    <3>1. StreamDataInv' /\ Kept(heap, heap', buf.vs) /\ got' = Seen(BufferBytes(heap, buf), n)
      BY <1>1, <2>3, GetHeaderStep, Zenon
    <3>2. call' = Ask("look", n)
      BY <2>3, Zenon DEF GetHeader
    <3> QED
      BY <2>1, <3>1, <3>2, QuietStep, Zenon
  <2> QED
    BY <1>3, <2>2, <2>3, Zenon
<1>4. ASSUME NEW n \in Nat, MoveHeader(n) PROVE Stream!StreamNext
  <2>1. PICK r : r = move_header(heap, buf, n) /\ Apply(r) /\ got' = <<>> /\ call' = Ask("skip", n)
    BY <1>4, Zenon DEF MoveHeader
  <2>2. BufferOK(buf) /\ Owned(heap, obj, buf.vs) /\ StreamDataInv'
    BY <1>4, InvParts, MoveHeaderStep, Zenon
  <2>3. PICK m \in Nat : m = IF n <= buf.length THEN n ELSE 0
    OBVIOUS
  <2>4. Consumed(heap, obj, buf, r.heap, r.buf, IF n <= buf.length THEN n ELSE 0)
    BY <2>1, <2>2, MoveHeaderOK
  <2>5. WithoutFirst(BufferBytes(heap, buf), BufferBytes(heap', buf'), m)
    BY <2>1, <2>2, <2>3, <2>4, Dropped, Zenon
  <2>6. /\ BufferBytes(heap, buf) \in Seq(Byte) /\ BufferBytes(heap', buf') \in Seq(Byte)
        /\ m = IF n <= Len(BufferBytes(heap, buf)) THEN n ELSE 0
    BY <2>2, <2>3, BytesType, Zenon
  <2> QED
    BY <2>1, <2>5, <2>6, AsSkip, Zenon
<1>5. ASSUME PopFront PROVE Stream!StreamNext
  <2>1. PICK r, n : r = pop_front(heap, buf) /\ Apply(r) /\ got' = <<>> /\ n = FirstSize(buf) /\ call' = Ask("skip", n)
    BY <1>5, Zenon DEF PopFront
  <2>2. BufferOK(buf) /\ Owned(heap, obj, buf.vs) /\ StreamDataInv'
    BY <1>5, InvParts, PopFrontStep, Zenon
  <2>3. FirstSize(buf) \in Nat /\ Consumed(heap, obj, buf, r.heap, r.buf, FirstSize(buf))
    BY <2>1, <2>2, PopFrontOK
  <2>4. n \in Nat /\ WithoutFirst(BufferBytes(heap, buf), BufferBytes(heap', buf'), n)
    BY <2>1, <2>2, <2>3, Dropped, Zenon
  <2>5. PICK a \in Seq(Byte), b \in Seq(Byte) : a = BufferBytes(heap, buf) /\ b = BufferBytes(heap', buf')
    BY <2>2, BytesType, Zenon
  <2>6. n \in 0..Len(a)
    BY <2>4, <2>5, GoneAre, Zenon
  <2>7. n = IF n <= Len(a) THEN n ELSE 0
    BY <2>6
  <2>8. n = IF n <= Len(BufferBytes(heap, buf)) THEN n ELSE 0
    BY <2>5, <2>7, Zenon
  <2> QED
    BY <2>1, <2>4, <2>5, <2>8, AsSkip, Zenon
<1>6. ASSUME PopBack PROVE Stream!StreamNext
  <2>1. PICK r : /\ r = pop_back(heap, buf) /\ heap' = r.heap /\ buf' = r.buf /\ got' = <<>>
                 /\ call' = Ask("keep", buf.length - LastSize(buf))
    BY <1>6, Zenon DEF PopBack, Apply
  <2>2. BufferOK(buf) /\ Owned(heap, obj, buf.vs) /\ StreamDataInv' /\ heap \in HeapType
    BY <1>6, InvParts, PopBackStep, Zenon
  <2>3. /\ BufferOK(r.buf) /\ Owned(r.heap, obj, r.buf.vs) /\ Kept(heap, r.heap, Current(r.buf))
        /\ BackGone(Current(buf), Current(r.buf)) /\ r.buf.length = buf.length - LastSize(buf)
    <3>1. r = pop_back(heap, buf) /\ BufferOK(buf) /\ Owned(heap, obj, buf.vs)
      BY <2>1, <2>2, Zenon
    <3> QED
      BY <3>1, PopBackOK
  <2>4. PICK d \in Seq(SliceType) : d = Current(r.buf) /\ Joined(heap', d) = Joined(heap, d)
    <3>1. Current(r.buf) \in Seq(SliceType) /\ r.heap \in HeapType
      BY <2>3, BufferParts, OwnedParts, Zenon
    <3>2. Joined(r.heap, Current(r.buf)) = Joined(heap, Current(r.buf))
      BY <2>2, <2>3, <3>1, JoinedKept, Zenon
    <3> QED
      BY <2>1, <3>1, <3>2, Zenon
  <2>5. \E e \in Seq(Byte) : Joined(heap, Current(buf)) = Joined(heap, d) \o e
    <3>1. CASE d = Current(buf)
      <4>1. <<>> \in Seq(Byte) /\ Joined(heap, d) \o <<>> = Joined(heap, d)
        BY <2>2, JoinedType
      <4> QED
        BY <3>1, <4>1, Zenon
    <3>2. CASE \E x \in SliceType : Current(buf) = Append(d, x)
      <4>1. PICK x \in SliceType : Current(buf) = Append(d, x)
        BY <3>2, Zenon
      <4>2. Append(d, x) = d \o <<x>> /\ <<x>> \in Seq(SliceType)
        BY AppendJoins
      <4>3. Joined(heap, d \o <<x>>) = Joined(heap, d) \o Content(heap, x)
        BY <2>2, <4>2, JoinedConcat, JoinedFew, Zenon
      <4>4. Content(heap, x) \in Seq(Byte)
        BY <2>2, ContentType, Zenon
      <4> QED
        BY <4>1, <4>2, <4>3, <4>4, Zenon
    <3> QED
      BY <2>3, <2>4, <3>1, <3>2, Zenon DEF BackGone
  <2>6. BufferBytes(heap', buf') = Joined(heap, d) /\ BufferBytes(heap, buf) = Joined(heap, Current(buf))
    BY <2>1, <2>4, Zenon DEF BufferBytes
  <2>7. BufferBytes(heap', buf') \in Seq(Byte) /\ buf'.length = Len(BufferBytes(heap', buf'))
    BY <2>2, BytesType, Zenon
  <2>8. call' = Ask("keep", buf'.length)
    BY <2>1, <2>3, Zenon
  <2> QED
    BY <2>1, <2>5, <2>6, <2>7, <2>8, AsKeep, Zenon
<1>7. ASSUME ClearBuffer PROVE Stream!StreamNext
  <2>1. PICK r : r = clear_buffer(heap, buf) /\ heap' = r.heap /\ buf' = r.buf /\ got' = <<>> /\ call' = Ask("keep", 0)
    BY <1>7, Zenon DEF ClearBuffer, Apply
  <2>2. BufferOK(buf) /\ Owned(heap, obj, buf.vs) /\ StreamDataInv'
    BY <1>7, InvParts, ClearBufferStep, Zenon
  <2>3. Current(buf') = <<>>
    <3>1. Current(r.buf) = <<>>
      BY <2>1, <2>2, ClearOK
    <3> QED
      BY <2>1, <3>1, Zenon
  <2>4. PICK a \in Seq(Byte) : a = BufferBytes(heap, buf) /\ heap' \in HeapType
    BY <2>2, BytesType, Zenon
  <2>5. BufferBytes(heap', buf') = <<>>
    BY <2>3, <2>4, EmptyIs, JoinedFew, Zenon DEF BufferBytes
  <2>6. <<>> \in Seq(Byte) /\ a = <<>> \o a /\ 0 = Len(<<>>)
    OBVIOUS
  <2> QED
    BY <2>1, <2>4, <2>5, <2>6, AsKeep, Zenon
<1> QED
  BY <1>1, <1>2, <1>3, <1>4, <1>5, <1>6, <1>7, Zenon DEF BufferNext

LEMMA StreamStreams ==
  ASSUME StreamDataInv, StreamNext
  PROVE  Stream!StreamNext
<1>1. \A n \in Sizes : n \in Nat
  BY StreamDataAssumption DEF Sizes
<1>2. ASSUME NEW bs \in Payloads, AppendData(bs) PROVE Stream!StreamNext
  <2>1. StreamDataInv' /\ Kept(heap, heap', buf.vs) /\ Brought(bs)
    BY <1>2, AppendDataStep, Zenon
  <2>2. got' = <<>> /\ call' = Bring(bs)
    BY <1>2, Zenon DEF AppendData
  <2> QED
    BY <2>1, <2>2, AddStep, Zenon
<1>3. ASSUME NEW n \in Nat, ReadData(n) PROVE Stream!StreamNext
  <2>1. PICK k \in Nat, bs \in Seq(Byte) :
          /\ bs = copy_to_buffer(heap, buf, n) /\ k = Len(bs) /\ k <= n /\ k <= buf.length
          /\ k = n \/ k = buf.length
          /\ bs = SubSeq(BufferBytes(heap, buf), 1, k)
    BY CopyBytes, Zenon
  <2>2. got' = bs /\ Apply(move_header(heap, buf, k)) /\ call' = Ask("read", n)
    BY <1>3, <2>1, Zenon DEF ReadData
  <2>3. PICK r : r = move_header(heap, buf, k) /\ Apply(r)
    BY <2>2, Zenon
  <2>4. BufferOK(buf) /\ Owned(heap, obj, buf.vs) /\ StreamDataInv'
    BY <1>3, InvParts, ReadDataStep, Zenon
  <2>5. Consumed(heap, obj, buf, r.heap, r.buf, IF k <= buf.length THEN k ELSE 0)
    BY <2>3, <2>4, MoveHeaderOK
  <2>6. Consumed(heap, obj, buf, r.heap, r.buf, k) /\ got' = SubSeq(BufferBytes(heap, buf), 1, k)
    BY <2>1, <2>2, <2>5, Zenon
  <2>7. /\ BufferBytes(heap, buf) \in Seq(Byte) /\ BufferBytes(heap', buf') \in Seq(Byte)
        /\ k = n \/ k = Len(BufferBytes(heap, buf))
    BY <2>1, <2>4, BytesType, Zenon
  <2>8. WithoutFirst(BufferBytes(heap, buf), BufferBytes(heap', buf'), k)
    BY <2>3, <2>4, <2>6, Dropped, Zenon
  <2> QED
    BY <2>1, <2>2, <2>6, <2>7, <2>8, AsRead, Zenon
<1>4. ASSUME PeekData PROVE Stream!StreamNext
  <2>1. StreamDataInv' /\ Kept(heap, heap', buf.vs)
    BY <1>4, PeekDataStep, Zenon
  <2>2. slice_count(buf) > 0 /\ buf' = buf
    BY <1>4 DEF PeekData
  <2>3. PICK v \in Seq(SliceType), a \in Nat : v = buf.vs /\ a = buf.start /\ Len(v) - a > 0 /\ Current(buf) = SubSeq(v, a + 1, Len(v))
    BY <2>2, InvParts, BufferParts, Zenon DEF slice_count, Current
  <2>4. a < Len(v)
    <3>1. Len(v) - a > 0
      BY <2>3, Zenon
    <3> QED
      BY <3>1
  <2>5. PICK s \in SliceType, t \in Seq(SliceType) : s = v[a + 1] /\ Current(buf) = <<s>> \o t /\ s = buf.vs[buf.start + 1]
    <3>1. /\ v[a + 1] \in SliceType /\ SubSeq(v, (a + 1) + 1, Len(v)) \in Seq(SliceType)
          /\ SubSeq(v, a + 1, Len(v)) = <<v[a + 1]>> \o SubSeq(v, (a + 1) + 1, Len(v))
      BY <2>4, RestIs
    <3> QED
      BY <2>3, <3>1, Zenon
  <2>6. PICK c \in Seq(Byte), e \in Seq(Byte) : c = Content(heap, s) /\ BufferBytes(heap, buf) = c \o e
    <3>1. <<s>> \in Seq(SliceType)
      OBVIOUS
    <3>2. heap \in HeapType
      BY InvParts, Zenon
    <3>3. Joined(heap, <<s>> \o t) = Joined(heap, <<s>>) \o Joined(heap, t) /\ Joined(heap, <<s>>) = Content(heap, s)
      BY <3>1, <3>2, JoinedConcat, JoinedFew, Zenon
    <3> QED
      BY <2>5, <3>2, <3>3, ContentType, JoinedType, Zenon DEF BufferBytes
  <2>7. Len(c) \in Nat /\ Len(c) <= Len(c) /\ Len(c) \in 0..Len(c \o e) /\ SubSeq(c, 1, Len(c)) = c
    <3>1. SubSeq(c, 1, Len(c)) = c
      BY SubSeqFull
    <3>2. Len(c \o e) = Len(c) + Len(e)
      BY ConcatByPlace
    <3> QED
      BY <3>1, <3>2
  <2>8. SubSeq(c \o e, 1, Len(c)) = c
    BY <2>7, FirstOfTwo, Zenon
  <2>9. Len(c) = s.len
    <3>1. Current(buf)[1] = buf.vs[buf.start + 1] /\ 1 \in 1..Len(Current(buf))
      BY <2>3, <2>4, InvParts, FirstIs, Zenon
    <3>2. Within(heap, s)
      BY <2>5, <3>1, InvParts, CurrentIs, Zenon
    <3> QED
      BY <2>6, <3>2, InvParts, ContentIs, Zenon
  <2>10. got' = c /\ call' = Ask("look", Len(c))
    <3>1. got' = Content(heap, s) /\ call' = Ask("look", FirstSize(buf))
      BY <1>4, <2>5, Zenon DEF PeekData
    <3>2. FirstSize(buf) = s.len
      BY <2>2, <2>5, Zenon DEF FirstSize
    <3> QED
      BY <2>6, <2>9, <3>1, <3>2, Zenon
  <2>11. c = Seen(BufferBytes(heap, buf), Len(c))
    <3>1. Len(c) <= Len(c \o e)
      BY <2>7
    <3> QED
      BY <2>6, <2>8, <3>1, Zenon DEF Seen
  <2> QED
    BY <2>1, <2>2, <2>10, <2>11, QuietStep, Zenon
<1> QED
  BY <1>1, <1>2, <1>3, <1>4, Zenon DEF StreamNext

\* Slices, references, cuts and copies are not seen from outside: the data
\* cache is one sequence of bytes, and each call does to it exactly what was
\* asked: bytes come in at the end as they were brought, and those that are
\* read or dropped are gone, and no others (slice_buffer.cc, stream.cc).
THEOREM StreamsBytes == Spec => ImplementsByteStream
<1>1. Init => BufferBytes(heap, buf) = <<>> /\ got = <<>>
  <2> SUFFICES ASSUME Init PROVE BufferBytes(heap, buf) = <<>> /\ got = <<>>
    OBVIOUS
  <2>1. heap \in HeapType /\ BufferOK(buf)
    BY InitInv, InvParts, Zenon
  <2>2. buf = EmptyBuffer /\ got = <<>>
    BY Zenon DEF Init
  <2>3. SubSeq(buf.vs, buf.start + 1, Len(buf.vs)) = <<>>
    BY <2>2 DEF EmptyBuffer
  <2>4. BufferBytes(heap, buf) = Joined(heap, <<>>)
    BY <2>3, Zenon DEF BufferBytes, Current
  <2> QED
    BY <2>1, <2>2, <2>4, EmptyIs, JoinedFew, Zenon
<1>2. StreamDataInv /\ [Next]_vars => [Stream!StreamNext]_(Stream!streamVars)
  <2> SUFFICES ASSUME StreamDataInv, [Next]_vars PROVE [Stream!StreamNext]_(Stream!streamVars)
    OBVIOUS
  <2>1. CASE Next
    BY <2>1, SliceStreams, BufferStreams, StreamStreams, Zenon DEF Next
  <2>2. CASE UNCHANGED vars
    <3>1. heap' = heap /\ buf' = buf /\ call' = call /\ got' = got
      BY <2>2 DEF vars
    <3> QED
      BY <3>1 DEF Stream!streamVars
  <2> QED
    BY <2>1, <2>2, Zenon
<1> QED
  BY <1>1, <1>2, StreamDataSafe, PTL DEF Spec, ImplementsByteStream, Stream!StreamSpec

=============================================================================
