----------------------------- MODULE MpscqProofs -----------------------------
(***************************************************************************)
(* The queue of utils/mpscq.cc is a FIFO queue, for any number of          *)
(* producers, nodes and pushes.                                            *)
(*                                                                         *)
(* The argument is about the chain: the cells from _oldest to _newest,     *)
(* linked by next but for the places where a push has exchanged _newest    *)
(* and not yet stored prev->next.  Its elements other than the stub are    *)
(* what waits.  A push appends to the chain at its Exchange, its store     *)
(* closes a gap, and the consumer takes cells off the front where there is *)
(* no gap.                                                                 *)
(***************************************************************************)
EXTENDS Mpscq, SequenceTheorems, TLAPS

\* A sequence of nodes with the stub put in at place k, for k = 0 nowhere.
WithStub(w, k) ==
  IF k = 0 THEN w
  ELSE [i \in 1..(Len(w) + 1) |-> IF i < k THEN w[i] ELSE IF i = k THEN stub ELSE w[i - 1]]

\* A link between neighbours is there, or a push is about to store it.
Linked(ch) ==
  \A i \in 1..(Len(ch) - 1) :
    \/ next[ch[i]] = ch[i + 1]
    \/ /\ next[ch[i]] = null
       /\ \E t \in Threads : push[t] = [at |-> "link", node |-> ch[i + 1], prev |-> ch[i]]

\* Every push under way is at the end of the chain, or at a gap in it.
PushesAt(ch) ==
  \A t \in Threads :
    /\ push[t].at = "exchange" =>
         /\ next[push[t].node] = null
         /\ \A i \in 1..Len(ch) : ch[i] # push[t].node
    /\ push[t].at = "link" =>
         \E i \in 1..(Len(ch) - 1) :
           push[t].prev = ch[i] /\ push[t].node = ch[i + 1] /\ next[ch[i]] = null

IsChain(ch) ==
  /\ ch \in Seq(Cells) /\ ch # <<>>
  /\ \A i, j \in 1..Len(ch) : ch[i] = ch[j] => i = j
  /\ oldest = ch[1]
  /\ newest = ch[Len(ch)]
  /\ next[newest] = null
  /\ Linked(ch)
  /\ PushesAt(ch)

\* The stub is outside the chain while the consumer is about to put it back.
ChainInv ==
  \E k \in 0..(Len(Waiting) + 1) :
    /\ IsChain(WithStub(Waiting, k))
    /\ pop.at = "stub" /\ push[Consumer].at # "link" => k = 0

\* Who pushes what: nobody two things, and nothing is pushed twice at once.
PushInv ==
  \A t \in Threads :
    /\ push[t].at = "idle" => push[t] = Idle
    /\ push[t].at # "idle" =>
         /\ push[t].node \in (IF t = Consumer THEN {stub} ELSE Nodes)
         /\ \A u \in Threads : push[u].node = push[t].node => u = t

PopInv ==
  /\ push[Consumer].at # "idle" => pop.at = "stub"
  /\ pop.at # "idle" => pop.tail = oldest /\ oldest # stub
  /\ asleep => pop.at = "idle" /\ oldest = stub /\ next[stub] = null

MpscqInv ==
  /\ TypeOK
  /\ Len(popped) <= Len(pushed)
  /\ ChainInv
  /\ PushInv
  /\ PopInv

-----------------------------------------------------------------------------
(***************************************************************************)
(* Sequences: what waits, and the stub among it.                           *)
(***************************************************************************)

\* Appending an element, place by place.
LEMMA AppendByPlace ==
  ASSUME NEW S, NEW s \in Seq(S), NEW e \in S
  PROVE  \E v \in Seq(S) :
           /\ v = Append(s, e)
           /\ Len(v) = Len(s) + 1
           /\ \A i \in 1..Len(s) : v[i] = s[i]
           /\ v[Len(s) + 1] = e
<1>1. Append(s, e) \in Seq(S) /\ Len(Append(s, e)) = Len(s) + 1
  OBVIOUS
<1>2. (\A i \in 1..Len(s) : Append(s, e)[i] = s[i]) /\ Append(s, e)[Len(s) + 1] = e
  OBVIOUS
<1> QED
  BY <1>1, <1>2

\* Dropping the first element, place by place.
LEMMA TailByPlace ==
  ASSUME NEW S, NEW s \in Seq(S), s # <<>>
  PROVE  \E v \in Seq(S) :
           /\ v = Tail(s)
           /\ Len(v) = Len(s) - 1
           /\ \A i \in 1..(Len(s) - 1) : v[i] = s[i + 1]
<1>1. Tail(s) \in Seq(S) /\ Len(Tail(s)) = Len(s) - 1
  OBVIOUS
<1>2. \A i \in 1..(Len(s) - 1) : Tail(s)[i] = s[i + 1]
  OBVIOUS
<1> QED
  BY <1>1, <1>2

\* The part of a history that comes after its first m elements.
LEMMA Rest ==
  ASSUME NEW S, NEW s \in Seq(S), NEW m \in 0..Len(s)
  PROVE  /\ SubSeq(s, m + 1, Len(s)) \in Seq(S)
         /\ Len(SubSeq(s, m + 1, Len(s))) = Len(s) - m
         /\ \A i \in 1..(Len(s) - m) : SubSeq(s, m + 1, Len(s))[i] = s[m + i]
<1>1. \A i \in (m + 1)..Len(s) : s[i] \in S
  BY ElementOfSeq
<1> QED
  BY <1>1, SubSeqProperties

\* It grows with the history.
LEMMA RestAppend ==
  ASSUME NEW S, NEW s \in Seq(S), NEW m \in 0..Len(s), NEW e \in S
  PROVE  SubSeq(Append(s, e), m + 1, Len(s) + 1) = Append(SubSeq(s, m + 1, Len(s)), e)
<1> DEFINE r == SubSeq(s, m + 1, Len(s))
           t == Append(s, e)
           u == SubSeq(t, m + 1, Len(t))
<1>1. t \in Seq(S) /\ Len(t) = Len(s) + 1 /\ m \in 0..Len(t)
  OBVIOUS
<1>2. u \in Seq(S) /\ Len(u) = Len(s) + 1 - m /\ \A i \in 1..(Len(s) + 1 - m) : u[i] = t[m + i]
  BY <1>1, Rest
<1>3. r \in Seq(S) /\ Len(r) = Len(s) - m /\ \A i \in 1..(Len(s) - m) : r[i] = s[m + i]
  BY Rest
<1>4. \A i \in 1..Len(u) : u[i] = Append(r, e)[i]
  BY <1>1, <1>2, <1>3
<1>5. Append(r, e) \in Seq(S) /\ Len(Append(r, e)) = Len(u)
  BY <1>2, <1>3, AppendProperties
<1> HIDE DEF r, u
<1>6. u = Append(r, e)
  BY <1>2, <1>4, <1>5, SeqEqual
<1> QED
  BY <1>1, <1>6 DEF r, u

\* One element less of it is its tail.
LEMMA RestTail ==
  ASSUME NEW S, NEW s \in Seq(S), NEW m \in 0..Len(s), m < Len(s)
  PROVE  /\ SubSeq(s, m + 1, Len(s)) # <<>>
         /\ Head(SubSeq(s, m + 1, Len(s))) = s[m + 1]
         /\ SubSeq(s, m + 2, Len(s)) = Tail(SubSeq(s, m + 1, Len(s)))
<1>1. m + 1 \in 1..Len(s) /\ Len(s) \in (m + 1)..Len(s)
  OBVIOUS
<1>2. /\ Head(SubSeq(s, m + 1, Len(s))) = s[m + 1]
      /\ Tail(SubSeq(s, m + 1, Len(s))) = SubSeq(s, (m + 1) + 1, Len(s))
  BY <1>1, HeadTailOfSubSeq
<1>3. PICK r \in Seq(S) : r = SubSeq(s, m + 1, Len(s)) /\ Len(r) = Len(s) - m
  BY Rest
<1>5. r # <<>>
  <2>1. Len(r) # 0
    BY <1>3
  <2> QED
    BY <2>1
<1>4. (m + 1) + 1 = m + 2
  OBVIOUS
<1> QED
  BY <1>2, <1>3, <1>4, <1>5

\* Cells in a row, Len(w) or one more of them.
LEMMA WithStubType ==
  ASSUME NEW w \in Seq(Nodes), NEW k \in 0..(Len(w) + 1)
  PROVE  /\ WithStub(w, k) \in Seq(Cells)
         /\ Len(WithStub(w, k)) = IF k = 0 THEN Len(w) ELSE Len(w) + 1
         /\ k # 0 => \A i \in 1..(Len(w) + 1) :
              WithStub(w, k)[i] = IF i < k THEN w[i] ELSE IF i = k THEN stub ELSE w[i - 1]
BY DEF WithStub, Cells

\* A node that is pushed comes behind the stub, too.
LEMMA WithStubAppend ==
  ASSUME NEW w \in Seq(Nodes), NEW k \in 0..(Len(w) + 1), NEW n \in Nodes
  PROVE  WithStub(Append(w, n), k) = Append(WithStub(w, k), n)
<1>1. CASE k = 0
  BY <1>1 DEF WithStub
<1>2. CASE k # 0
  <2>1. PICK v \in Seq(Nodes) :
          /\ v = Append(w, n)
          /\ Len(v) = Len(w) + 1
          /\ \A i \in 1..Len(w) : v[i] = w[i]
          /\ v[Len(w) + 1] = n
    BY AppendByPlace, ZenonT(60)
  <2>2. PICK a \in Seq(Cells) :
          /\ a = WithStub(v, k) /\ Len(a) = Len(w) + 2
          /\ \A i \in 1..(Len(w) + 2) : a[i] = IF i < k THEN v[i] ELSE IF i = k THEN stub ELSE v[i - 1]
    <3>1. k \in 0..(Len(v) + 1) /\ Len(v) + 1 = Len(w) + 2
      BY <2>1
    <3> QED
      BY <1>2, <3>1, WithStubType
  <2>3. PICK c \in Seq(Cells) :
          /\ c = WithStub(w, k) /\ Len(c) = Len(w) + 1
          /\ \A i \in 1..(Len(w) + 1) : c[i] = IF i < k THEN w[i] ELSE IF i = k THEN stub ELSE w[i - 1]
    BY <1>2, WithStubType
  <2>4. n \in Cells
    BY DEF Cells
  <2>5. PICK b \in Seq(Cells) :
          /\ b = Append(c, n)
          /\ Len(b) = Len(c) + 1
          /\ \A i \in 1..Len(c) : b[i] = c[i]
          /\ b[Len(c) + 1] = n
    BY <2>4, AppendByPlace, ZenonT(60)
  <2>6. ASSUME NEW i \in 1..Len(a) PROVE a[i] = b[i]
    <3>1. CASE i = Len(w) + 2
      BY <2>1, <2>2, <2>3, <2>5, <3>1
    <3>2. CASE i \in 1..(Len(w) + 1)
      <4>1. b[i] = IF i < k THEN w[i] ELSE IF i = k THEN stub ELSE w[i - 1]
        BY <2>3, <2>5, <3>2
      <4>2. a[i] = IF i < k THEN v[i] ELSE IF i = k THEN stub ELSE v[i - 1]
        BY <2>2
      <4>3. (i < k => v[i] = w[i]) /\ (i > k => v[i - 1] = w[i - 1])
        BY <1>2, <2>1, <3>2
      <4> QED
        BY <4>1, <4>2, <4>3
    <3> QED
      BY <2>2, <3>1, <3>2
  <2>8. Len(a) = Len(b)
    BY <2>2, <2>3, <2>5
  <2>7. a = b
    BY <2>6, <2>8, SeqEqual
  <2> QED
    BY <2>1, <2>2, <2>3, <2>5, <2>7
<1> QED
  BY <1>1, <1>2

\* The stub that is pushed is the last cell.
LEMMA WithStubLast ==
  ASSUME NEW w \in Seq(Nodes)
  PROVE  WithStub(w, Len(w) + 1) = Append(WithStub(w, 0), stub)
<1>1. /\ WithStub(w, Len(w) + 1) \in Seq(Cells) /\ Len(WithStub(w, Len(w) + 1)) = Len(w) + 1
      /\ \A i \in 1..(Len(w) + 1) :
           WithStub(w, Len(w) + 1)[i] =
             IF i < Len(w) + 1 THEN w[i] ELSE IF i = Len(w) + 1 THEN stub ELSE w[i - 1]
  BY WithStubType
<1>2. w \in Seq(Cells) /\ stub \in Cells
  BY DEF Cells
<1>3. WithStub(w, 0) = w
  BY DEF WithStub
<1>4. WithStub(w, Len(w) + 1) = Append(w, stub)
  BY <1>1, <1>2, SeqEqual
<1> QED
  BY <1>3, <1>4

\* A node that is popped was in front of the stub.
LEMMA WithStubTail ==
  ASSUME NEW w \in Seq(Nodes), w # <<>>, NEW k \in 0..(Len(w) + 1), k # 1
  PROVE  WithStub(Tail(w), IF k = 0 THEN 0 ELSE k - 1) = Tail(WithStub(w, k))
<1>1. CASE k = 0
  BY <1>1 DEF WithStub
<1>2. CASE k # 0
  <2>1. PICK v \in Seq(Nodes) :
          /\ v = Tail(w)
          /\ Len(v) = Len(w) - 1
          /\ \A i \in 1..(Len(w) - 1) : v[i] = w[i + 1]
    BY TailByPlace
  <2>2. PICK j \in 1..Len(w) : j = k - 1
    BY <1>2
  <2>3. PICK a \in Seq(Cells) :
          /\ a = WithStub(v, j) /\ Len(a) = Len(w)
          /\ \A i \in 1..Len(w) : a[i] = IF i < j THEN v[i] ELSE IF i = j THEN stub ELSE v[i - 1]
    <3>1. j \in 0..(Len(v) + 1) /\ j # 0 /\ Len(v) + 1 = Len(w)
      BY <2>1
    <3> QED
      BY <3>1, WithStubType
  <2>4. PICK c \in Seq(Cells) :
          /\ c = WithStub(w, k) /\ Len(c) = Len(w) + 1
          /\ \A i \in 1..(Len(w) + 1) : c[i] = IF i < k THEN w[i] ELSE IF i = k THEN stub ELSE w[i - 1]
    BY <1>2, WithStubType
  <2>5. PICK b \in Seq(Cells) :
          /\ b = Tail(c)
          /\ Len(b) = Len(c) - 1
          /\ \A i \in 1..(Len(c) - 1) : b[i] = c[i + 1]
    <3>1. c # <<>>
      BY <2>4
    <3> QED
      BY <3>1, TailByPlace
  <2>6. \A i \in 1..Len(a) : a[i] = b[i]
    BY <2>1, <2>2, <2>3, <2>4, <2>5
  <2>8. Len(a) = Len(b)
    BY <2>3, <2>4, <2>5
  <2>7. a = b
    BY <2>6, <2>8, SeqEqual
  <2> QED
    BY <1>2, <2>1, <2>2, <2>3, <2>4, <2>5, <2>7
<1> QED
  BY <1>1, <1>2

\* Without a stub at its head, what is left is what waits.
LEMMA WithStubOff ==
  ASSUME NEW w \in Seq(Nodes)
  PROVE  Tail(WithStub(w, 1)) = WithStub(w, 0)
<1>1. /\ WithStub(w, 1) \in Seq(Cells) /\ Len(WithStub(w, 1)) = Len(w) + 1
      /\ \A i \in 1..(Len(w) + 1) :
           WithStub(w, 1)[i] = IF i < 1 THEN w[i] ELSE IF i = 1 THEN stub ELSE w[i - 1]
  BY WithStubType
<1>2. w \in Seq(Cells)
  BY DEF Cells
<1>3. /\ Tail(WithStub(w, 1)) \in Seq(Cells) /\ Len(Tail(WithStub(w, 1))) = Len(w)
      /\ \A i \in 1..Len(w) : Tail(WithStub(w, 1))[i] = WithStub(w, 1)[i + 1]
  BY <1>1, HeadTailProperties
<1>4. \A i \in 1..Len(w) : Tail(WithStub(w, 1))[i] = w[i]
  BY <1>1, <1>3
<1>5. Tail(WithStub(w, 1)) = w
  BY <1>2, <1>3, <1>4, SeqEqual
<1> QED
  BY <1>5 DEF WithStub


-----------------------------------------------------------------------------
(***************************************************************************)
(* The chain, access by access.                                            *)
(***************************************************************************)

\* A push appends its node at its Exchange and leaves a gap in front of it.
LEMMA ChainExchange ==
  ASSUME TypeOK, PushInv, NEW ch \in Seq(Cells), IsChain(ch), NEW t \in Threads, Exchange(t),
         UNCHANGED <<next, oldest>>, NEW n \in Cells, n = push[t].node
  PROVE  IsChain(Append(ch, n))'
<1>2. PICK c \in Seq(Cells) :
        /\ c = Append(ch, n)
        /\ Len(c) = Len(ch) + 1
        /\ \A i \in 1..Len(ch) : c[i] = ch[i]
        /\ c[Len(ch) + 1] = n
  BY AppendByPlace, ZenonT(60)
<1> USE DEF IsChain
<1>1. next[n] = null /\ \A i \in 1..Len(ch) : ch[i] # n
  BY DEF Exchange, PushesAt
<1>3. newest' = n /\ push'[t] = [at |-> "link", node |-> n, prev |-> newest]
  BY ZenonT(60) DEF Exchange, TypeOK
<1>4. \A u \in Threads : u # t => push'[u] = push[u]
  BY DEF Exchange, TypeOK
<1>5. Len(ch) \in Nat \ {0}
  BY EmptySeq
<1>6. c # <<>> /\ c \in Seq(Cells) /\ \A i, j \in 1..Len(c) : c[i] = c[j] => i = j
  <2>1. c # <<>>
    BY <1>2, <1>5
  <2> QED
    BY <1>1, <1>2, <1>5, <2>1
<1>7. oldest' = c[1] /\ newest' = c[Len(c)] /\ next'[newest'] = null
  BY <1>1, <1>2, <1>3, <1>5
<1>8. Linked(c)'
  <2> SUFFICES ASSUME NEW i \in 1..(Len(c) - 1)
               PROVE  \/ next'[c[i]] = c[i + 1]
                      \/ /\ next'[c[i]] = null
                         /\ \E u \in Threads : push'[u] = [at |-> "link", node |-> c[i + 1], prev |-> c[i]]
    BY DEF Linked
  <2>1. CASE i = Len(ch)
    <3>1. c[i] = newest /\ c[i + 1] = n
      BY <1>2, <1>5, <2>1
    <3> QED
      BY <1>3, <3>1
  <2>2. CASE i \in 1..(Len(ch) - 1)
    <3>1. c[i] = ch[i] /\ c[i + 1] = ch[i + 1]
      BY <1>2, <1>5, <2>2
    <3>2. \A u \in Threads : push[u].at = "link" => push'[u] = push[u]
      BY <1>4 DEF Exchange
    <3> QED
      BY <2>2, <3>1, <3>2 DEF Linked
  <2> QED
    BY <1>2, <1>5, <2>1, <2>2
<1>9. PushesAt(c)'
  <2> SUFFICES ASSUME NEW u \in Threads
               PROVE  /\ push'[u].at = "exchange" =>
                           /\ next'[push'[u].node] = null
                           /\ \A i \in 1..Len(c) : c[i] # push'[u].node
                      /\ push'[u].at = "link" =>
                           \E i \in 1..(Len(c) - 1) :
                             push'[u].prev = c[i] /\ push'[u].node = c[i + 1] /\ next'[c[i]] = null
    BY DEF PushesAt
  <2>1. CASE u = t
    <3>1. Len(ch) \in 1..(Len(c) - 1) /\ c[Len(ch)] = newest /\ c[Len(ch) + 1] = n
      BY <1>2, <1>5
    <3>2. next'[newest] = null
      OBVIOUS
    <3>3. push'[u].at = "link" /\ push'[u].node = n /\ push'[u].prev = newest
      BY <1>3, <2>1
    <3> QED
      BY <3>1, <3>2, <3>3
  <2>2. CASE u # t /\ push[u].at = "exchange"
    <3>1. push[u].node # n
      BY <2>2 DEF PushInv, Exchange
    <3>2. next[push[u].node] = null /\ \A i \in 1..Len(ch) : ch[i] # push[u].node
      BY <2>2 DEF PushesAt
    <3>3. \A i \in 1..Len(c) : c[i] # push[u].node
      BY <1>2, <1>5, <3>1, <3>2
    <3> QED
      BY <1>4, <2>2, <3>2, <3>3
  <2>3. CASE u # t /\ push[u].at = "link"
    <3>1. PICK i \in 1..(Len(ch) - 1) :
            push[u].prev = ch[i] /\ push[u].node = ch[i + 1] /\ next[ch[i]] = null
      BY <2>3 DEF PushesAt
    <3>2. i \in 1..(Len(c) - 1) /\ c[i] = ch[i] /\ c[i + 1] = ch[i + 1]
      BY <1>2, <1>5
    <3> QED
      BY <1>4, <2>3, <3>1, <3>2
  <2>4. CASE u # t /\ push[u].at \notin {"exchange", "link"}
    BY <1>4, <2>4
  <2> QED
    BY <2>1, <2>2, <2>3, <2>4, Zenon
<1> QED
  BY <1>2, <1>6, <1>7, <1>8, <1>9

\* Its store closes the gap.
LEMMA ChainLink ==
  ASSUME TypeOK, PushInv, NEW ch \in Seq(Cells), IsChain(ch), NEW t \in Threads, PushLink(t),
         UNCHANGED <<newest, oldest>>
  PROVE  IsChain(ch)'
<1> USE DEF IsChain
<1>1. PICK g \in 1..(Len(ch) - 1) :
        push[t].prev = ch[g] /\ push[t].node = ch[g + 1] /\ next[ch[g]] = null
  BY DEF PushLink, PushesAt
<1>2. Len(ch) \in Nat /\ \A i \in 1..Len(ch) : ch[i] \in Cells
  BY ElementOfSeq
<1>3. \A x \in Cells : next'[x] = IF x = ch[g] THEN ch[g + 1] ELSE next[x]
  BY <1>1 DEF PushLink, Store, TypeOK
<1>4. push'[t] = Idle /\ \A u \in Threads : u # t => push'[u] = push[u]
  BY DEF PushLink, TypeOK
<1>5. next'[newest'] = null
  <2>1. newest \in Cells /\ newest # ch[g]
    BY <1>2
  <2> QED
    BY <1>3, <2>1
<1>6. Linked(ch)'
  <2> SUFFICES ASSUME NEW i \in 1..(Len(ch) - 1)
               PROVE  \/ next'[ch[i]] = ch[i + 1]
                      \/ /\ next'[ch[i]] = null
                         /\ \E u \in Threads : push'[u] = [at |-> "link", node |-> ch[i + 1], prev |-> ch[i]]
    BY DEF Linked
  <2>1. CASE i = g
    BY <1>2, <1>3, <2>1
  <2>2. CASE i # g
    <3>1. next'[ch[i]] = next[ch[i]] /\ ch[i + 1] # ch[g + 1]
      <4>1. i \in 1..Len(ch) /\ g \in 1..Len(ch) /\ i + 1 \in 1..Len(ch) /\ g + 1 \in 1..Len(ch)
        BY <1>2
      <4>2. ch[i] # ch[g] /\ ch[i + 1] # ch[g + 1]
        BY <2>2, <4>1
      <4> QED
        BY <1>2, <1>3, <4>1, <4>2
    <3>2. ASSUME NEW u \in Threads, push[u] = [at |-> "link", node |-> ch[i + 1], prev |-> ch[i]]
          PROVE  push'[u] = push[u]
      BY <1>1, <1>4, <3>1, <3>2
    <3> QED
      BY <3>1, <3>2 DEF Linked
  <2> QED
    BY <2>1, <2>2
<1>7. PushesAt(ch)'
  <2> SUFFICES ASSUME NEW u \in Threads, u # t
               PROVE  /\ push[u].at = "exchange" =>
                           /\ next'[push[u].node] = null
                           /\ \A i \in 1..Len(ch) : ch[i] # push[u].node
                      /\ push[u].at = "link" =>
                           \E i \in 1..(Len(ch) - 1) :
                             push[u].prev = ch[i] /\ push[u].node = ch[i + 1] /\ next'[ch[i]] = null
    BY <1>4 DEF PushesAt, Idle
  <2>1. CASE push[u].at = "exchange"
    <3>1. /\ push[u].node \in Cells
          /\ next[push[u].node] = null
          /\ \A i \in 1..Len(ch) : ch[i] # push[u].node
      BY <2>1 DEF PushesAt, PushInv, Cells
    <3>2. push[u].node # ch[g]
      BY <1>2, <3>1
    <3> QED
      BY <1>3, <2>1, <3>1, <3>2
  <2>2. CASE push[u].at = "link"
    <3>1. PICK i \in 1..(Len(ch) - 1) :
            push[u].prev = ch[i] /\ push[u].node = ch[i + 1] /\ next[ch[i]] = null
      BY <2>2 DEF PushesAt
    <3>2. push[u].node # push[t].node
      BY DEF PushInv, PushLink
    <3>3. i # g
      BY <1>1, <3>1, <3>2
    <3>4. next'[ch[i]] = null
      BY <1>2, <1>3, <3>1, <3>3
    <3> QED
      BY <2>2, <3>1, <3>4
  <2> QED
    BY <2>1, <2>2
<1> QED
  BY <1>5, <1>6, <1>7

\* A push begins with a node that is outside the chain.
LEMMA ChainClear ==
  ASSUME TypeOK, PushInv, NEW ch \in Seq(Cells), IsChain(ch), NEW t \in Threads, NEW n \in Cells,
         PushClear(t, n), UNCHANGED <<newest, oldest>>,
         \A i \in 1..Len(ch) : ch[i] # n
  PROVE  IsChain(ch)'
<1> USE DEF IsChain
<1>1. Len(ch) \in Nat \ {0} /\ \A i \in 1..Len(ch) : ch[i] \in Cells
  BY ElementOfSeq, EmptySeq
<1>2. \A x \in Cells : next'[x] = IF x = n THEN null ELSE next[x]
  BY DEF PushClear, Store, TypeOK
<1>3. \A i \in 1..Len(ch) : next'[ch[i]] = next[ch[i]]
  BY <1>1, <1>2
<1>4. /\ push[t].at = "idle"
      /\ push'[t] = [at |-> "exchange", node |-> n, prev |-> null]
      /\ \A u \in Threads : u # t => push'[u] = push[u]
  BY DEF PushClear, TypeOK
<1>5. next'[newest'] = null
  BY <1>1, <1>3
<1>6. Linked(ch)'
  <2>1. \A u \in Threads : push[u].at = "link" => push'[u] = push[u]
    BY <1>4
  <2>2. \A i \in 1..(Len(ch) - 1) : next'[ch[i]] = next[ch[i]]
    BY <1>1, <1>3
  <2> QED
    BY <2>1, <2>2 DEF Linked
<1>7. PushesAt(ch)'
  <2>1. next'[n] = null
    BY <1>2
  <2>2. \A u \in Threads : u # t /\ push[u].at = "exchange" => next'[push[u].node] = null
    BY <1>2 DEF PushesAt, PushInv, Cells
  <2>3. \A i \in 1..(Len(ch) - 1) : next'[ch[i]] = next[ch[i]]
    BY <1>1, <1>3
  <2> QED
    BY <1>4, <2>1, <2>2, <2>3 DEF PushesAt
<1> QED
  BY <1>5, <1>6, <1>7

\* The consumer takes the first cell when there is no gap behind it.
LEMMA ChainTail ==
  ASSUME TypeOK, NEW ch \in Seq(Cells), IsChain(ch), next[oldest] # null, oldest' = next[oldest],
         UNCHANGED <<next, newest, push>>
  PROVE  Len(ch) > 1 /\ IsChain(Tail(ch))'
<1> USE DEF IsChain
<1>1. Len(ch) \in Nat /\ Len(ch) > 1
  <2>1. Len(ch) \in Nat \ {0}
    BY EmptySeq
  <2> QED
    BY <2>1
<1>2. PICK c \in Seq(Cells) :
        /\ c = Tail(ch)
        /\ Len(c) = Len(ch) - 1
        /\ \A i \in 1..(Len(ch) - 1) : c[i] = ch[i + 1]
  BY TailByPlace
<1>3. next[ch[1]] = ch[2]
  <2>1. 1 \in 1..(Len(ch) - 1) /\ 1 + 1 = 2
    BY <1>1
  <2> QED
    BY <2>1 DEF Linked
<1>4. c # <<>> /\ c \in Seq(Cells) /\ \A i, j \in 1..Len(c) : c[i] = c[j] => i = j
  <2>1. c # <<>>
    <3>1. Len(c) # 0
      BY <1>1, <1>2
    <3> QED
      BY <3>1
  <2>2. ASSUME NEW i \in 1..Len(c), NEW j \in 1..Len(c), c[i] = c[j] PROVE i = j
    <3>1. i + 1 \in 1..Len(ch) /\ j + 1 \in 1..Len(ch) /\ ch[i + 1] = ch[j + 1]
      BY <1>1, <1>2, <2>2
    <3> QED
      BY <3>1
  <2> QED
    BY <2>1, <2>2
<1>5. oldest' = c[1] /\ newest' = c[Len(c)] /\ next'[newest'] = null
  BY <1>1, <1>2, <1>3
<1>6. Linked(c)'
  <2> SUFFICES ASSUME NEW i \in 1..(Len(c) - 1)
               PROVE  \/ next[c[i]] = c[i + 1]
                      \/ /\ next[c[i]] = null
                         /\ \E u \in Threads : push[u] = [at |-> "link", node |-> c[i + 1], prev |-> c[i]]
    BY DEF Linked
  <2>1. i + 1 \in 1..(Len(ch) - 1) /\ c[i] = ch[i + 1] /\ c[i + 1] = ch[(i + 1) + 1]
    BY <1>1, <1>2
  <2> QED
    BY <2>1 DEF Linked
<1>7. PushesAt(c)'
  <2> SUFFICES ASSUME NEW u \in Threads
               PROVE  /\ push[u].at = "exchange" =>
                           /\ next[push[u].node] = null
                           /\ \A i \in 1..Len(c) : c[i] # push[u].node
                      /\ push[u].at = "link" =>
                           \E i \in 1..(Len(c) - 1) :
                             push[u].prev = c[i] /\ push[u].node = c[i + 1] /\ next[c[i]] = null
    BY DEF PushesAt
  <2>1. CASE push[u].at = "exchange"
    BY <1>1, <1>2, <2>1 DEF PushesAt
  <2>2. CASE push[u].at = "link"
    <3>1. PICK i \in 1..(Len(ch) - 1) :
            push[u].prev = ch[i] /\ push[u].node = ch[i + 1] /\ next[ch[i]] = null
      BY <2>2 DEF PushesAt
    <3>2. i # 1
      BY <3>1
    <3>3. i - 1 \in 1..(Len(c) - 1) /\ c[i - 1] = ch[i] /\ c[(i - 1) + 1] = ch[i + 1]
      BY <1>1, <1>2, <3>2
    <3> QED
      BY <2>2, <3>1, <3>3
  <2> QED
    BY <2>1, <2>2
<1> QED
  BY <1>1, <1>2, <1>4, <1>5, <1>6, <1>7


-----------------------------------------------------------------------------
(***************************************************************************)
(* What waits, step by step.                                               *)
(***************************************************************************)

\* Where the stub and the nodes are in a row of cells.
LEMMA StubPlace ==
  ASSUME NEW w \in Seq(Nodes), NEW k \in 0..(Len(w) + 1),
         NEW ch \in Seq(Cells), ch = WithStub(w, k)
  PROVE  /\ Len(ch) = IF k = 0 THEN Len(w) ELSE Len(w) + 1
         /\ k # 0 => ch[k] = stub
         /\ \A i \in 1..Len(ch) : ch[i] = stub => k # 0 /\ i = k
         /\ \A i \in 1..Len(ch) : ch[i] # stub => \E j \in 1..Len(w) : ch[i] = w[j]
         /\ Len(ch) > 0 /\ k # 1 => Len(w) > 0 /\ ch[1] = w[1]
         /\ Len(ch) > 1 /\ k = 1 => Len(w) > 0 /\ ch[2] = w[1]
<1>1. \A i \in 1..Len(w) : w[i] \in Nodes /\ w[i] # stub
  BY ElementOfSeq, MpscqAssumption
<1>2. CASE k = 0
  BY <1>1, <1>2 DEF WithStub
<1>3. CASE k # 0
  <2>1. /\ Len(ch) = Len(w) + 1
        /\ \A i \in 1..(Len(w) + 1) : ch[i] = IF i < k THEN w[i] ELSE IF i = k THEN stub ELSE w[i - 1]
    BY <1>3, WithStubType
  <2>2. \A i \in 1..Len(ch) : i < k => i \in 1..Len(w) /\ ch[i] = w[i]
    BY <2>1
  <2>3. \A i \in 1..Len(ch) : i > k => i - 1 \in 1..Len(w) /\ ch[i] = w[i - 1]
    BY <1>3, <2>1
  <2>4. ch[k] = stub /\ k \in 1..Len(ch)
    BY <1>3, <2>1
  <2>5. ASSUME NEW i \in 1..Len(ch)
        PROVE  /\ ch[i] = stub => i = k
               /\ ch[i] # stub => \E j \in 1..Len(w) : ch[i] = w[j]
    BY <1>1, <2>2, <2>3, <2>4
  <2> QED
    BY <1>3, <2>1, <2>2, <2>3, <2>4, <2>5
<1> QED
  BY <1>2, <1>3

\* What waits is a row of nodes.
LEMMA WaitingType ==
  ASSUME TypeOK, Len(popped) <= Len(pushed)
  PROVE  Waiting \in Seq(Nodes)
<1>1. pushed \in Seq(Nodes) /\ Len(popped) \in 0..Len(pushed)
  BY DEF TypeOK
<1> QED
  BY <1>1, Rest DEF Waiting

\* A step that neither exchanges a node in nor pops one leaves it alone.
LEMMA WaitingSame ==
  ASSUME UNCHANGED <<pushed, popped>>
  PROVE  Waiting' = Waiting
BY DEF Waiting

\* The Exchange of a producer's push adds its node at the end.
LEMMA WaitingPush ==
  ASSUME TypeOK, Len(popped) <= Len(pushed), NEW n \in Nodes,
         pushed' = Append(pushed, n), popped' = popped
  PROVE  Waiting' = Append(Waiting, n) /\ Len(popped') <= Len(pushed')
<1>1. pushed \in Seq(Nodes) /\ Len(popped) \in 0..Len(pushed)
  BY DEF TypeOK
<1>2. Len(pushed') = Len(pushed) + 1
  BY <1>1
<1>3. SubSeq(Append(pushed, n), Len(popped) + 1, Len(pushed) + 1)
        = Append(SubSeq(pushed, Len(popped) + 1, Len(pushed)), n)
  BY <1>1, RestAppend
<1>4. Waiting' = SubSeq(Append(pushed, n), Len(popped) + 1, Len(pushed) + 1)
  BY <1>2, Zenon DEF Waiting
<1>5. Len(popped') <= Len(pushed')
  BY <1>1, <1>2
<1> QED
  BY <1>3, <1>4, <1>5, Zenon DEF Waiting

\* A pop takes the node at the front.
LEMMA WaitingPop ==
  ASSUME TypeOK, Len(popped) <= Len(pushed), Waiting # <<>>, NEW n \in Nodes,
         pushed' = pushed, popped' = Append(popped, n)
  PROVE  Waiting' = Tail(Waiting) /\ Len(popped') <= Len(pushed')
<1>1. pushed \in Seq(Nodes) /\ popped \in Seq(Nodes) /\ Len(popped) \in 0..Len(pushed)
  BY DEF TypeOK
<1>2. Len(popped') = Len(popped) + 1
  BY <1>1
<1>3. Len(popped) # Len(pushed)
  BY <1>1, SubSeqEmpty DEF Waiting
<1>4. SubSeq(pushed, Len(popped) + 2, Len(pushed)) = Tail(SubSeq(pushed, Len(popped) + 1, Len(pushed)))
  BY <1>1, <1>3, RestTail
<1>5. (Len(popped) + 1) + 1 = Len(popped) + 2 /\ Len(popped) + 1 <= Len(pushed)
  BY <1>1, <1>3
<1> QED
  BY <1>2, <1>4, <1>5 DEF Waiting

\* The chain of a state, with the row of nodes it is made of.
LEMMA TheChain ==
  ASSUME MpscqInv
  PROVE  \E w \in Seq(Nodes), k \in Nat, ch \in Seq(Cells) :
           /\ k \in 0..(Len(w) + 1) /\ w = Waiting /\ ch = WithStub(w, k) /\ IsChain(ch)
           /\ pop.at = "stub" /\ push[Consumer].at # "link" => k = 0
<1>1. PICK w \in Seq(Nodes) : w = Waiting
  BY WaitingType DEF MpscqInv
<1>2. PICK k \in 0..(Len(w) + 1) :
        /\ IsChain(WithStub(w, k))
        /\ pop.at = "stub" /\ push[Consumer].at # "link" => k = 0
  BY <1>1 DEF MpscqInv, ChainInv
<1>3. WithStub(w, k) \in Seq(Cells)
  BY WithStubType
<1> QED
  BY <1>1, <1>2, <1>3

\* A chain is all it takes.
LEMMA ChainAfter ==
  ASSUME NEW w \in Seq(Nodes), NEW k \in 0..(Len(w) + 1), Waiting' = w,
         IsChain(WithStub(w, k))',
         pop'.at = "stub" /\ push'[Consumer].at # "link" => k = 0
  PROVE  ChainInv'
BY DEF ChainInv

-----------------------------------------------------------------------------
(***************************************************************************)
(* The producers' steps.                                                   *)
(***************************************************************************)

\* A producer that starts to push: its node is outside the chain.
LEMMA ClearStep ==
  ASSUME MpscqInv, NEW p \in Producers, ProducerClear(p)
  PROVE  MpscqInv'
<1> USE DEF MpscqInv
<1>1. PICK n \in Nodes : Free(n) /\ PushClear(p, n)
  BY DEF ProducerClear
<1>2. UNCHANGED <<newest, oldest, pop, pushed, popped, asleep>>
  BY DEF ProducerClear
<1>3. p \in Threads /\ Consumer \in Threads /\ p # Consumer /\ n \in Cells /\ n # stub /\ n # null
  BY MpscqAssumption DEF Threads, Cells
<1>4. /\ push[p].at = "idle"
      /\ push'[p] = [at |-> "exchange", node |-> n, prev |-> null]
      /\ \A u \in Threads : u # p => push'[u] = push[u]
      /\ \A x \in Cells : next'[x] = IF x = n THEN null ELSE next[x]
  BY <1>1, <1>3 DEF PushClear, Store, TypeOK
<1>5. TypeOK'
  BY <1>1, <1>2, <1>3 DEF TypeOK, PushClear, Store
<1>6. ChainInv'
  <2>1. PICK w \in Seq(Nodes), k \in Nat, ch \in Seq(Cells) :
          /\ k \in 0..(Len(w) + 1) /\ w = Waiting /\ ch = WithStub(w, k) /\ IsChain(ch)
          /\ pop.at = "stub" /\ push[Consumer].at # "link" => k = 0
    BY TheChain
  <2>2. ASSUME NEW i \in 1..Len(ch) PROVE ch[i] # n
    <3>1. ch[i] # stub => \E j \in 1..Len(w) : ch[i] = w[j]
      BY <2>1, StubPlace
    <3>2. \A j \in 1..Len(w) : w[j] # n
      BY <1>1, <2>1 DEF Free
    <3> QED
      BY <1>3, <3>1, <3>2
  <2>3. IsChain(ch)'
    BY <1>1, <1>2, <1>3, <2>1, <2>2, ChainClear
  <2>4. Waiting' = w
    BY <1>2, <2>1, WaitingSame
  <2>5. push'[Consumer] = push[Consumer]
    BY <1>3, <1>4
  <2> QED
    BY <1>2, <2>1, <2>3, <2>4, <2>5, ChainAfter
<1>7. PushInv'
  <2>1. \A u \in Threads : push[u].node # n
    BY <1>1 DEF Free
  <2> QED
    BY <1>3, <1>4, <2>1 DEF PushInv
<1>8. PopInv'
  <2>1. next[stub] = null => next'[stub] = null
    BY <1>4 DEF Cells
  <2> QED
    BY <1>2, <1>3, <1>4, <2>1 DEF PopInv
<1> QED
  BY <1>2, <1>5, <1>6, <1>7, <1>8

\* Its Exchange puts the node at the end of what waits.
LEMMA ExchangeStep ==
  ASSUME MpscqInv, NEW p \in Producers, ProducerExchange(p)
  PROVE  MpscqInv'
<1> USE DEF MpscqInv
<1>1. p \in Threads /\ Consumer \in Threads /\ p # Consumer
  BY MpscqAssumption DEF Threads
<1>2. PICK n \in Nodes : n = push[p].node
  BY <1>1 DEF ProducerExchange, Exchange, PushInv
<1>3. Exchange(p) /\ pushed' = Append(pushed, n) /\ UNCHANGED <<next, oldest, pop, popped, asleep>>
  BY <1>2 DEF ProducerExchange
<1>4. n \in Cells
  BY DEF Cells
<1>5. /\ push[p].at = "exchange" /\ newest' = n
      /\ push'[p] = [at |-> "link", node |-> n, prev |-> newest]
      /\ \A u \in Threads : u # p => push'[u] = push[u]
  BY <1>1, <1>2, <1>3 DEF Exchange, TypeOK
<1>6. TypeOK'
  <2>1. pushed' \in Seq(Nodes)
    BY <1>3 DEF TypeOK
  <2>2. push' \in [Threads -> [at : {"idle", "exchange", "link"},
                              node : Cells \cup {null}, prev : Cells \cup {null}]]
    BY <1>1, <1>3, <1>4, ZenonT(60) DEF TypeOK, Exchange
  <2> QED
    BY <1>3, <1>4, <1>5, <2>1, <2>2 DEF TypeOK
<1>7. Waiting' = Append(Waiting, n) /\ Len(popped') <= Len(pushed')
  BY <1>3, WaitingPush
<1>8. ChainInv'
  <2>1. PICK w \in Seq(Nodes), k \in Nat, ch \in Seq(Cells) :
          /\ k \in 0..(Len(w) + 1) /\ w = Waiting /\ ch = WithStub(w, k) /\ IsChain(ch)
          /\ pop.at = "stub" /\ push[Consumer].at # "link" => k = 0
    BY TheChain
  <2>2. IsChain(Append(ch, n))'
    BY <1>1, <1>2, <1>3, <1>4, <2>1, ChainExchange
  <2>3. PICK v \in Seq(Nodes) : v = Append(w, n) /\ Len(v) = Len(w) + 1
    BY AppendByPlace
  <2>4. WithStub(v, k) = Append(ch, n)
    BY <2>1, <2>3, WithStubAppend
  <2>5. k \in 0..(Len(v) + 1) /\ Waiting' = v
    BY <1>7, <2>1, <2>3
  <2>6. push'[Consumer] = push[Consumer]
    BY <1>1, <1>5
  <2> QED
    BY <1>3, <2>1, <2>2, <2>4, <2>5, <2>6, ChainAfter
<1>9. PushInv'
  BY <1>1, <1>2, <1>5 DEF PushInv
<1>10. PopInv'
  BY <1>1, <1>3, <1>5 DEF PopInv
<1> QED
  BY <1>6, <1>7, <1>8, <1>9, <1>10

\* Its store closes the gap; behind the stub, it wakes the consumer.
LEMMA LinkStep ==
  ASSUME MpscqInv, NEW p \in Producers, ProducerLink(p)
  PROVE  MpscqInv'
<1> USE DEF MpscqInv
<1>1. p \in Threads /\ Consumer \in Threads /\ p # Consumer
  BY MpscqAssumption DEF Threads
<1>2. /\ PushLink(p) /\ asleep' = (asleep /\ push[p].prev # stub)
      /\ UNCHANGED <<newest, oldest, pop, pushed, popped>>
  BY DEF ProducerLink, PushReturns
<1>3. PICK w \in Seq(Nodes), k \in Nat, ch \in Seq(Cells) :
        /\ k \in 0..(Len(w) + 1) /\ w = Waiting /\ ch = WithStub(w, k) /\ IsChain(ch)
        /\ pop.at = "stub" /\ push[Consumer].at # "link" => k = 0
  BY TheChain
<1>4. push[p].prev \in Cells /\ push[p].node \in Cells
  <2>1. PICK i \in 1..(Len(ch) - 1) : push[p].prev = ch[i] /\ push[p].node = ch[i + 1]
    BY <1>1, <1>2, <1>3 DEF PushLink, IsChain, PushesAt
  <2>2. i \in 1..Len(ch) /\ i + 1 \in 1..Len(ch)
    OBVIOUS
  <2> QED
    BY <2>1, <2>2, ElementOfSeq
<1>5. /\ push'[p] = Idle
      /\ \A u \in Threads : u # p => push'[u] = push[u]
      /\ \A x \in Cells : next'[x] = IF x = push[p].prev THEN push[p].node ELSE next[x]
  BY <1>1, <1>2 DEF PushLink, Store, TypeOK
<1>6. TypeOK'
  <2>1. push' \in [Threads -> [at : {"idle", "exchange", "link"},
                              node : Cells \cup {null}, prev : Cells \cup {null}]]
    BY <1>1, <1>2 DEF TypeOK, PushLink, Idle
  <2>2. next' \in [Cells -> Cells \cup {null}]
    BY <1>2, <1>4 DEF TypeOK, PushLink, Store
  <2>3. asleep' \in BOOLEAN
    BY <1>2, Zenon
  <2> QED
    BY <1>2, <2>1, <2>2, <2>3 DEF TypeOK
<1>7. ChainInv'
  <2>1. IsChain(ch)'
    BY <1>1, <1>2, <1>3, ChainLink
  <2>2. Waiting' = w
    BY <1>2, <1>3, WaitingSame
  <2>3. push'[Consumer] = push[Consumer]
    BY <1>1, <1>5
  <2> QED
    BY <1>2, <1>3, <2>1, <2>2, <2>3, ChainAfter
<1>8. PushInv'
  <2>1. \A t \in Threads : t # p /\ push[t].at # "idle" => push[t].node # null
    BY MpscqAssumption DEF PushInv
  <2> QED
    BY <1>1, <1>5, <2>1 DEF PushInv, Idle
<1>9. PopInv'
  <2>1. asleep' => next'[stub] = null
    BY <1>2, <1>5 DEF PopInv, Cells
  <2> QED
    BY <1>1, <1>2, <1>5, <2>1 DEF PopInv
<1> QED
  BY <1>2, <1>6, <1>7, <1>8, <1>9

-----------------------------------------------------------------------------
(***************************************************************************)
(* The consumer's steps.                                                   *)
(***************************************************************************)

\* Between its calls of push the consumer may take the cell at _oldest when
\* it is linked to the next: it is the first of what waits.
LEMMA TakeStep ==
  ASSUME MpscqInv, ~asleep, push[Consumer].at = "idle", oldest # stub, next[oldest] # null,
         ReturnNode(oldest, next[oldest]), UNCHANGED <<next, newest, push, pushed>>
  PROVE  /\ MpscqInv'
         /\ Waiting # <<>> /\ oldest = Head(Waiting) /\ Waiting' = Tail(Waiting)
         /\ popped' = Append(popped, oldest)
<1> USE DEF MpscqInv
<1>1. PICK w \in Seq(Nodes), k \in Nat, ch \in Seq(Cells) :
        /\ k \in 0..(Len(w) + 1) /\ w = Waiting /\ ch = WithStub(w, k) /\ IsChain(ch)
        /\ pop.at = "stub" /\ push[Consumer].at # "link" => k = 0
  BY TheChain
<1>2. /\ oldest' = next[oldest] /\ popped' = Append(popped, oldest)
      /\ pop' = PopIdle /\ asleep' = asleep
  BY DEF ReturnNode
<1>3. PICK n \in Nodes : n = oldest
  BY DEF TypeOK, Cells
<1>4. Len(ch) > 1 /\ IsChain(Tail(ch))'
  BY <1>1, <1>2, ChainTail
<1>5. k # 1 /\ Len(w) > 0 /\ w[1] = oldest
  <2>1. ch[1] = oldest
    BY <1>1 DEF IsChain
  <2>2. k # 1
    BY <1>1, <2>1, StubPlace
  <2>3. Len(w) > 0 /\ ch[1] = w[1]
    BY <1>1, <1>4, <2>2, StubPlace
  <2> QED
    BY <2>1, <2>2, <2>3
<1>6. w # <<>> /\ Head(w) = oldest
  BY <1>5
<1>7. Waiting' = Tail(Waiting) /\ Len(popped') <= Len(pushed')
  BY <1>1, <1>2, <1>3, <1>6, WaitingPop
<1>8. TypeOK'
  <2>1. popped' \in Seq(Nodes)
    BY <1>2, <1>3 DEF TypeOK
  <2>2. oldest' \in Cells
    BY <1>2 DEF TypeOK
  <2>3. pop' \in [at : {"idle", "reload", "newest", "stub", "recheck"}, tail : Nodes \cup {null}]
    BY <1>2 DEF PopIdle
  <2> QED
    BY <1>2, <2>1, <2>2, <2>3 DEF TypeOK
<1>9. ChainInv'
  <2>1. PICK v \in Seq(Nodes) : v = Tail(w) /\ Len(v) = Len(w) - 1
    BY <1>6, TailByPlace
  <2>2. PICK j \in Nat : j = IF k = 0 THEN 0 ELSE k - 1
    BY <1>5
  <2>3. j \in 0..(Len(v) + 1)
    BY <1>1, <1>5, <2>1, <2>2
  <2>4. WithStub(v, j) = Tail(ch)
    BY <1>1, <1>5, <1>6, <2>1, <2>2, WithStubTail
  <2>5. Waiting' = v
    BY <1>1, <1>7, <2>1
  <2> QED
    BY <1>2, <1>4, <2>3, <2>4, <2>5, ChainAfter DEF PopIdle
<1>10. PushInv'
  BY DEF PushInv
<1>11. PopInv'
  BY <1>2 DEF PopInv, PopIdle
<1> QED
  BY <1>1, <1>2, <1>6, <1>7, <1>8, <1>9, <1>10, <1>11

\* It moves on from the stub when there is something behind it.
LEMMA SkipStep ==
  ASSUME MpscqInv, ~asleep, pop.at = "idle", oldest = stub, next[oldest] # null,
         oldest' = next[oldest], Continue("reload", next[oldest]),
         UNCHANGED <<next, newest, push, pushed>>
  PROVE  MpscqInv'
<1> USE DEF MpscqInv
<1>1. PICK w \in Seq(Nodes), k \in Nat, ch \in Seq(Cells) :
        /\ k \in 0..(Len(w) + 1) /\ w = Waiting /\ ch = WithStub(w, k) /\ IsChain(ch)
        /\ pop.at = "stub" /\ push[Consumer].at # "link" => k = 0
  BY TheChain
<1>2. pop' = [at |-> "reload", tail |-> oldest'] /\ UNCHANGED <<popped, asleep>>
  BY DEF Continue
<1>3. Len(ch) > 1 /\ IsChain(Tail(ch))'
  BY <1>1, ChainTail
<1>4. k = 1
  <2>1. ch[1] = stub /\ 1 \in 1..Len(ch)
    BY <1>1, <1>3 DEF IsChain
  <2> QED
    BY <1>1, <2>1, StubPlace
<1>5. Tail(ch) = w
  BY <1>1, <1>4, WithStubOff DEF WithStub
<1>6. oldest' \in Nodes
  <2>1. w # <<>> /\ oldest' = w[1]
    BY <1>3, <1>5 DEF IsChain
  <2>2. 1 \in 1..Len(w)
    BY <2>1, EmptySeq
  <2> QED
    BY <2>1, <2>2, ElementOfSeq
<1>7. TypeOK'
  <2>1. pop' \in [at : {"idle", "reload", "newest", "stub", "recheck"}, tail : Nodes \cup {null}]
    BY <1>2, <1>6
  <2> QED
    BY <1>2, <1>6, <2>1 DEF TypeOK, Cells
<1>8. ChainInv'
  <2>1. WithStub(w, 0) = w /\ 0 \in 0..(Len(w) + 1)
    BY DEF WithStub
  <2>2. Waiting' = w
    BY <1>1, <1>2, WaitingSame
  <2> QED
    BY <1>3, <1>5, <2>1, <2>2, ChainAfter
<1>9. PushInv'
  BY DEF PushInv
<1>10. PopInv'
  <2>1. oldest' # stub
    BY <1>6, MpscqAssumption
  <2>2. push[Consumer].at = "idle"
    BY DEF PopInv
  <2> QED
    BY <1>2, <2>1, <2>2 DEF PopInv
<1> QED
  BY <1>2, <1>7, <1>8, <1>9, <1>10

\* A step that only moves the consumer on, or puts it to sleep.  It is about
\* to put the stub back only when a single cell is left.
LEMMA QuietStep ==
  ASSUME MpscqInv, UNCHANGED <<next, newest, oldest, push, pushed, popped>>,
         pop' \in [at : {"idle", "reload", "newest", "stub", "recheck"}, tail : Nodes \cup {null}],
         asleep' \in BOOLEAN, PopInv',
         pop'.at = "stub" => oldest = newest /\ oldest # stub
  PROVE  MpscqInv'
<1> USE DEF MpscqInv
<1>1. PICK w \in Seq(Nodes), k \in Nat, ch \in Seq(Cells) :
        /\ k \in 0..(Len(w) + 1) /\ w = Waiting /\ ch = WithStub(w, k) /\ IsChain(ch)
        /\ pop.at = "stub" /\ push[Consumer].at # "link" => k = 0
  BY TheChain
<1>2. IsChain(ch)'
  BY <1>1 DEF IsChain, Linked, PushesAt
<1>3. pop'.at = "stub" => k = 0
  <2> SUFFICES ASSUME oldest = newest, oldest # stub PROVE k = 0
    OBVIOUS
  <2>1. Len(ch) \in Nat \ {0}
    BY <1>1, EmptySeq DEF IsChain
  <2>2. Len(ch) = 1 /\ ch[1] # stub
    <3>1. 1 \in 1..Len(ch) /\ Len(ch) \in 1..Len(ch)
      BY <2>1
    <3>2. ch[1] = ch[Len(ch)] /\ ch[1] # stub
      BY <1>1 DEF IsChain
    <3>3. \A i, j \in 1..Len(ch) : ch[i] = ch[j] => i = j
      BY <1>1 DEF IsChain
    <3> QED
      BY <3>1, <3>2, <3>3
  <2>3. (k # 0 => ch[k] = stub) /\ Len(ch) = IF k = 0 THEN Len(w) ELSE Len(w) + 1
    BY <1>1, StubPlace
  <2> QED
    BY <1>1, <2>2, <2>3
<1>4. Waiting' = w
  BY <1>1, WaitingSame
<1>5. ChainInv'
  BY <1>1, <1>2, <1>3, <1>4, ChainAfter
<1>6. PushInv'
  BY DEF PushInv
<1> QED
  BY <1>5, <1>6 DEF TypeOK

\* The stub is put back: it is outside the chain when its push begins,
LEMMA StubClearStep ==
  ASSUME MpscqInv, StubClear
  PROVE  MpscqInv'
<1> USE DEF MpscqInv
<1>1. /\ pop.at = "stub" /\ PushClear(Consumer, stub)
      /\ UNCHANGED <<newest, oldest, pop, pushed, popped, asleep>>
  BY DEF StubClear
<1>2. Consumer \in Threads /\ stub \in Cells /\ stub # null
  BY MpscqAssumption DEF Threads, Cells
<1>3. /\ push[Consumer].at = "idle"
      /\ push'[Consumer] = [at |-> "exchange", node |-> stub, prev |-> null]
      /\ \A u \in Threads : u # Consumer => push'[u] = push[u]
  BY <1>1, <1>2 DEF PushClear, TypeOK
<1>4. PICK w \in Seq(Nodes), k \in Nat, ch \in Seq(Cells) :
        /\ k \in 0..(Len(w) + 1) /\ w = Waiting /\ ch = WithStub(w, k) /\ IsChain(ch)
        /\ pop.at = "stub" /\ push[Consumer].at # "link" => k = 0
  BY TheChain
<1>5. k = 0
  BY <1>1, <1>3, <1>4
<1>6. \A i \in 1..Len(ch) : ch[i] # stub
  BY <1>4, <1>5, StubPlace
<1>7. TypeOK'
  BY <1>1, <1>2 DEF TypeOK, PushClear, Store
<1>8. ChainInv'
  <2>1. IsChain(ch)'
    BY <1>1, <1>2, <1>4, <1>6, ChainClear
  <2>2. Waiting' = w
    BY <1>1, <1>4, WaitingSame
  <2> QED
    BY <1>4, <1>5, <2>1, <2>2, ChainAfter
<1>9. PushInv'
  <2>1. \A u \in Threads : push[u].node # stub
    BY <1>2, <1>3, MpscqAssumption DEF PushInv, Idle, TypeOK
  <2> QED
    BY <1>2, <1>3, <2>1 DEF PushInv
<1>10. PopInv'
  BY <1>1, <1>3 DEF PopInv
<1> QED
  BY <1>1, <1>7, <1>8, <1>9, <1>10

\* it is the last cell of the chain after its Exchange,
LEMMA StubExchangeStep ==
  ASSUME MpscqInv, StubExchange
  PROVE  MpscqInv'
<1> USE DEF MpscqInv
<1>1. Exchange(Consumer) /\ UNCHANGED <<next, oldest, pop, pushed, popped, asleep>>
  BY DEF StubExchange
<1>2. Consumer \in Threads /\ stub \in Cells /\ stub # null
  BY MpscqAssumption DEF Threads, Cells
<1>3. push[Consumer].node = stub /\ pop.at = "stub"
  BY <1>1, <1>2 DEF Exchange, PushInv, PopInv
<1>4. /\ push[Consumer].at = "exchange" /\ newest' = stub
      /\ push'[Consumer] = [at |-> "link", node |-> stub, prev |-> newest]
      /\ \A u \in Threads : u # Consumer => push'[u] = push[u]
  BY <1>1, <1>2, <1>3 DEF Exchange, TypeOK
<1>5. PICK w \in Seq(Nodes), k \in Nat, ch \in Seq(Cells) :
        /\ k \in 0..(Len(w) + 1) /\ w = Waiting /\ ch = WithStub(w, k) /\ IsChain(ch)
        /\ pop.at = "stub" /\ push[Consumer].at # "link" => k = 0
  BY TheChain
<1>6. TypeOK'
  <2>1. push' \in [Threads -> [at : {"idle", "exchange", "link"},
                              node : Cells \cup {null}, prev : Cells \cup {null}]]
    BY <1>1, <1>2, ZenonT(60) DEF TypeOK, Exchange
  <2> QED
    BY <1>1, <1>2, <1>4, <2>1 DEF TypeOK
<1>7. ChainInv'
  <2>1. IsChain(Append(ch, stub))'
    BY <1>1, <1>2, <1>3, <1>5, ChainExchange
  <2>2. Waiting' = w
    BY <1>1, <1>5, WaitingSame
  <2>3. ch = WithStub(w, 0)
    BY <1>3, <1>4, <1>5
  <2>4. WithStub(w, Len(w) + 1) = Append(ch, stub)
    BY <2>3, WithStubLast
  <2>5. PICK j \in 0..(Len(w) + 1) : j = Len(w) + 1
    OBVIOUS
  <2>6. IsChain(WithStub(w, j))'
    BY <2>1, <2>4, <2>5
  <2> QED
    BY <1>4, <2>2, <2>6, ChainAfter
<1>8. PushInv'
  BY <1>2, <1>3, <1>4 DEF PushInv
<1>9. PopInv'
  BY <1>1, <1>3, <1>4 DEF PopInv
<1> QED
  BY <1>1, <1>6, <1>7, <1>8, <1>9

\* and its store closes the gap.
LEMMA StubLinkStep ==
  ASSUME MpscqInv, StubLink
  PROVE  MpscqInv'
<1> USE DEF MpscqInv
<1>1. /\ PushLink(Consumer) /\ pop' = [at |-> "recheck", tail |-> pop.tail]
      /\ UNCHANGED <<newest, oldest, pushed, popped, asleep>>
  BY DEF StubLink, Continue
<1>2. Consumer \in Threads
  BY DEF Threads
<1>3. push[Consumer].at = "link" /\ pop.at = "stub"
  BY <1>1 DEF PushLink, PopInv
<1>4. PICK w \in Seq(Nodes), k \in Nat, ch \in Seq(Cells) :
        /\ k \in 0..(Len(w) + 1) /\ w = Waiting /\ ch = WithStub(w, k) /\ IsChain(ch)
        /\ pop.at = "stub" /\ push[Consumer].at # "link" => k = 0
  BY TheChain
<1>5. push[Consumer].prev \in Cells /\ push[Consumer].node \in Cells
  <2>1. PICK i \in 1..(Len(ch) - 1) : push[Consumer].prev = ch[i] /\ push[Consumer].node = ch[i + 1]
    BY <1>2, <1>3, <1>4 DEF IsChain, PushesAt
  <2>2. i \in 1..Len(ch) /\ i + 1 \in 1..Len(ch)
    OBVIOUS
  <2> QED
    BY <2>1, <2>2, ElementOfSeq
<1>6. push'[Consumer] = Idle /\ \A u \in Threads : u # Consumer => push'[u] = push[u]
  BY <1>1, <1>2 DEF PushLink, TypeOK
<1>7. TypeOK'
  <2>1. push' \in [Threads -> [at : {"idle", "exchange", "link"},
                              node : Cells \cup {null}, prev : Cells \cup {null}]]
    BY <1>1, <1>2 DEF TypeOK, PushLink, Idle
  <2>2. next' \in [Cells -> Cells \cup {null}]
    BY <1>1, <1>5 DEF TypeOK, PushLink, Store
  <2>3. pop' \in [at : {"idle", "reload", "newest", "stub", "recheck"}, tail : Nodes \cup {null}]
    BY <1>1 DEF TypeOK
  <2> QED
    BY <1>1, <2>1, <2>2, <2>3 DEF TypeOK
<1>8. ChainInv'
  <2>1. IsChain(ch)'
    BY <1>1, <1>2, <1>4, ChainLink
  <2>2. Waiting' = w
    BY <1>1, <1>4, WaitingSame
  <2> QED
    BY <1>1, <1>4, <2>1, <2>2, ChainAfter
<1>9. PushInv'
  <2>1. \A t \in Threads : t # Consumer /\ push[t].at # "idle" => push[t].node # null
    BY MpscqAssumption DEF PushInv
  <2> QED
    BY <1>2, <1>6, <2>1 DEF PushInv, Idle
<1>10. PopInv'
  BY <1>1, <1>3, <1>6 DEF PopInv, Idle
<1> QED
  BY <1>1, <1>7, <1>8, <1>9, <1>10

-----------------------------------------------------------------------------
(***************************************************************************)
(* The specification.                                                      *)
(***************************************************************************)

\* What a step does to the histories: nothing, or a node goes in at the back
\* of what waits, or the first of what waits is popped.
Quiet == UNCHANGED <<pushed, popped>>
GoesIn == \E n \in Nodes : Waiting' = Append(Waiting, n) /\ popped' = popped
ComesOut ==
  /\ Waiting # <<>> /\ Waiting' = Tail(Waiting)
  /\ popped' = Append(popped, Head(Waiting))

\* The step of PopAndCheckEnd() that returns the cell at its tail, wherever
\* it is in the call.
LEMMA TakeIsDequeue ==
  ASSUME MpscqInv, ~asleep, push[Consumer].at = "idle", oldest # stub, next[oldest] # null,
         ReturnNode(oldest, next[oldest]), UNCHANGED <<next, newest, push, pushed>>
  PROVE  MpscqInv' /\ ComesOut
BY TakeStep DEF ComesOut

\* Every step of PopAndCheckEnd() keeps the invariant.
LEMMA ConsumerStep ==
  ASSUME MpscqInv, Consume
  PROVE  MpscqInv' /\ (Quiet \/ ComesOut)
<1>0. /\ pop \in [at : {"idle", "reload", "newest", "stub", "recheck"}, tail : Nodes \cup {null}]
      /\ oldest \in Cells /\ asleep \in BOOLEAN
  BY DEF MpscqInv, TypeOK
<1>1. CASE PopStart
  <2>1. pop.at = "idle" /\ ~asleep /\ push[Consumer].at = "idle"
    BY <1>1 DEF PopStart, MpscqInv, PopInv
  <2>2. UNCHANGED <<next, newest, push, pushed>>
    BY <1>1 DEF PopStart
  <2>3. CASE oldest = stub /\ next[oldest] = null /\ ReturnNull(TRUE)
    <3>1. PopInv' /\ UNCHANGED <<oldest, popped>> /\ pop' = PopIdle /\ asleep' = TRUE
      BY <2>1, <2>2, <2>3 DEF ReturnNull, PopInv, PopIdle, MpscqInv
    <3> QED
      BY <2>2, <3>1, QuietStep DEF Quiet, PopIdle
  <2>4. CASE oldest = stub /\ next[oldest] # null /\ oldest' = next[oldest] /\ Continue("reload", next[oldest])
    BY <2>1, <2>2, <2>4, SkipStep DEF Quiet, Continue
  <2>5. CASE oldest # stub /\ next[oldest] # null /\ ReturnNode(oldest, next[oldest])
    BY <2>1, <2>2, <2>5, TakeIsDequeue
  <2>6. CASE oldest # stub /\ next[oldest] = null /\ Continue("newest", oldest) /\ UNCHANGED oldest
    <3>1. /\ pop' = [at |-> "newest", tail |-> oldest] /\ UNCHANGED <<oldest, popped, asleep>>
          /\ oldest \in Nodes
      BY <1>0, <2>6 DEF Continue, Cells
    <3>2. PopInv'
      BY <2>1, <2>2, <2>6, <3>1 DEF PopInv
    <3> QED
      BY <1>0, <2>2, <3>1, <3>2, QuietStep DEF Quiet
  <2> QED
    BY <1>1, <2>3, <2>4, <2>5, <2>6 DEF PopStart, Load
<1>2. CASE PopReload
  <2>1. /\ pop.at = "reload" /\ ~asleep /\ push[Consumer].at = "idle"
        /\ pop.tail = oldest /\ oldest # stub
    BY <1>2 DEF PopReload, MpscqInv, PopInv
  <2>2. UNCHANGED <<next, newest, push, pushed>>
    BY <1>2 DEF PopReload
  <2>3. CASE next[oldest] # null /\ ReturnNode(oldest, next[oldest])
    BY <2>1, <2>2, <2>3, TakeIsDequeue
  <2>4. CASE Continue("newest", oldest) /\ UNCHANGED oldest
    <3>1. /\ pop' = [at |-> "newest", tail |-> oldest] /\ UNCHANGED <<oldest, popped, asleep>>
          /\ oldest \in Nodes
      BY <1>0, <2>1, <2>4 DEF Continue, Cells
    <3>2. PopInv'
      BY <2>1, <2>2, <3>1 DEF PopInv
    <3> QED
      BY <1>0, <2>2, <3>1, <3>2, QuietStep DEF Quiet
  <2> QED
    BY <1>2, <2>1, <2>3, <2>4 DEF PopReload, Load
<1>3. CASE PopNewest
  <2>1. /\ pop.at = "newest" /\ ~asleep /\ push[Consumer].at = "idle"
        /\ pop.tail = oldest /\ oldest # stub
    BY <1>3 DEF PopNewest, MpscqInv, PopInv
  <2>2. UNCHANGED <<next, newest, push, pushed>>
    BY <1>3 DEF PopNewest
  <2>3. CASE ReturnNull(FALSE)
    <3>1. PopInv' /\ UNCHANGED <<oldest, popped>> /\ pop' = PopIdle /\ asleep' = FALSE
      BY <2>1, <2>2, <2>3 DEF ReturnNull, PopInv, PopIdle
    <3> QED
      BY <2>2, <3>1, QuietStep DEF Quiet, PopIdle
  <2>4. CASE oldest = newest /\ Continue("stub", oldest) /\ UNCHANGED oldest
    <3>1. /\ pop' = [at |-> "stub", tail |-> oldest] /\ UNCHANGED <<oldest, popped, asleep>>
          /\ oldest \in Nodes
      BY <1>0, <2>1, <2>4 DEF Continue, Cells
    <3>2. PopInv'
      BY <2>1, <2>2, <3>1 DEF PopInv
    <3> QED
      BY <1>0, <2>1, <2>2, <2>4, <3>1, <3>2, QuietStep DEF Quiet
  <2> QED
    BY <1>3, <2>1, <2>3, <2>4 DEF PopNewest
<1>4. CASE StubClear
  BY <1>4, StubClearStep DEF Quiet, StubClear
<1>5. CASE StubExchange
  BY <1>5, StubExchangeStep DEF Quiet, StubExchange
<1>6. CASE StubLink
  BY <1>6, StubLinkStep DEF Quiet, StubLink, Continue
<1>7. CASE PopRecheck
  <2>1. /\ pop.at = "recheck" /\ ~asleep /\ push[Consumer].at = "idle"
        /\ pop.tail = oldest /\ oldest # stub
    BY <1>7 DEF PopRecheck, MpscqInv, PopInv
  <2>2. UNCHANGED <<next, newest, push, pushed>>
    BY <1>7 DEF PopRecheck
  <2>3. CASE next[oldest] # null /\ ReturnNode(oldest, next[oldest])
    BY <2>1, <2>2, <2>3, TakeIsDequeue
  <2>4. CASE ReturnNull(FALSE)
    <3>1. PopInv' /\ UNCHANGED <<oldest, popped>> /\ pop' = PopIdle /\ asleep' = FALSE
      BY <2>1, <2>2, <2>4 DEF ReturnNull, PopInv, PopIdle
    <3> QED
      BY <2>2, <3>1, QuietStep DEF Quiet, PopIdle
  <2> QED
    BY <1>7, <2>1, <2>3, <2>4 DEF PopRecheck, Load
<1> QED
  BY <1>1, <1>2, <1>3, <1>4, <1>5, <1>6, <1>7 DEF Consume

\* Every access of every thread keeps the chain, and does to what waits what
\* a queue does.
LEMMA MpscqStep ==
  ASSUME MpscqInv, [Next]_vars
  PROVE  MpscqInv' /\ (Quiet \/ ComesOut \/ GoesIn)
<1>1. CASE Consume
  BY <1>1, ConsumerStep
<1>2. ASSUME NEW p \in Producers, Produce(p) PROVE MpscqInv' /\ (Quiet \/ GoesIn)
  <2>1. CASE ProducerClear(p)
    BY <2>1, ClearStep DEF Quiet, ProducerClear
  <2>2. CASE ProducerExchange(p)
    <3>1. p \in Threads /\ p # Consumer
      BY MpscqAssumption DEF Threads
    <3>2. PICK n \in Nodes : n = push[p].node
      BY <2>2, <3>1 DEF ProducerExchange, Exchange, MpscqInv, PushInv
    <3>3. pushed' = Append(pushed, n) /\ popped' = popped
      BY <2>2, <3>2 DEF ProducerExchange
    <3>4. Waiting' = Append(Waiting, n)
      BY <3>3, WaitingPush DEF MpscqInv
    <3> QED
      BY <2>2, <3>3, <3>4, ExchangeStep DEF GoesIn
  <2>3. CASE ProducerLink(p)
    BY <2>3, LinkStep DEF Quiet, ProducerLink
  <2> QED
    BY <1>2, <2>1, <2>2, <2>3 DEF Produce
<1>3. CASE UNCHANGED vars
  <2>1. MpscqInv'
    <3>1. UNCHANGED <<next, newest, oldest, push, pop, pushed, popped, asleep>>
      BY <1>3 DEF vars
    <3>2. TypeOK'
      BY <3>1 DEF MpscqInv, TypeOK
    <3>3. ChainInv'
      <4>1. PICK w \in Seq(Nodes), k \in Nat, ch \in Seq(Cells) :
              /\ k \in 0..(Len(w) + 1) /\ w = Waiting /\ ch = WithStub(w, k) /\ IsChain(ch)
              /\ pop.at = "stub" /\ push[Consumer].at # "link" => k = 0
        BY TheChain
      <4>2. IsChain(ch)'
        BY <3>1, <4>1 DEF IsChain, Linked, PushesAt
      <4>3. Waiting' = w
        BY <3>1, <4>1, WaitingSame
      <4> QED
        BY <3>1, <4>1, <4>2, <4>3, ChainAfter
    <3>4. PushInv' /\ PopInv'
      BY <3>1 DEF MpscqInv, PushInv, PopInv
    <3> QED
      BY <3>1, <3>2, <3>3, <3>4 DEF MpscqInv
  <2> QED
    BY <1>3, <2>1 DEF vars, Quiet
<1> QED
  BY <1>1, <1>2, <1>3 DEF Next

\* The chain of a new queue is the stub.
LEMMA MpscqStart == Init => MpscqInv
<1> SUFFICES ASSUME Init PROVE MpscqInv
  OBVIOUS
<1>1. stub \in Cells /\ Consumer \in Threads
  BY DEF Cells, Threads
<1>2. TypeOK
  <2>1. pushed \in Seq(Nodes) /\ popped \in Seq(Nodes)
    BY DEF Init
  <2>2. /\ next \in [Cells -> Cells \cup {null}]
        /\ newest \in Cells /\ oldest \in Cells /\ asleep \in BOOLEAN
    BY <1>1 DEF Init
  <2>3. push \in [Threads -> [at : {"idle", "exchange", "link"},
                             node : Cells \cup {null}, prev : Cells \cup {null}]]
    BY DEF Init, Idle
  <2>4. pop \in [at : {"idle", "reload", "newest", "stub", "recheck"}, tail : Nodes \cup {null}]
    BY DEF Init, PopIdle
  <2> QED
    BY <2>1, <2>2, <2>3, <2>4 DEF TypeOK
<1>3. Waiting = <<>> /\ Len(popped) <= Len(pushed)
  <2>1. SubSeq(<<>>, 1, 0) = <<>> /\ Len(<<>>) = 0
    OBVIOUS
  <2> QED
    BY <2>1 DEF Init, Waiting
<1>4. ChainInv
  <2>1. WithStub(<<>>, 1) = <<stub>>
    <3>1. Len(<<>>) + 1 = 1 /\ <<stub>> = [i \in 1..1 |-> stub]
      OBVIOUS
    <3> QED
      BY <3>1 DEF WithStub
  <2>2. IsChain(<<stub>>)
    <3>1. /\ <<stub>> \in Seq(Cells) /\ <<stub>> # <<>> /\ Len(<<stub>>) = 1
          /\ <<stub>>[1] = stub
      BY <1>1
    <3>2. \A t \in Threads : push[t].at = "idle"
      BY DEF Init, Idle
    <3>3. oldest = stub /\ newest = stub /\ next[newest] = null
      BY <1>1 DEF Init
    <3> QED
      BY <3>1, <3>2, <3>3 DEF IsChain, Linked, PushesAt
  <2>3. pop.at = "idle" /\ 1 \in 0..(Len(Waiting) + 1)
    BY <1>3 DEF Init, PopIdle
  <2> QED
    BY <1>3, <2>1, <2>2, <2>3 DEF ChainInv
<1>5. PushInv
  BY DEF Init, PushInv, Idle
<1>6. PopInv
  BY <1>1 DEF Init, PopInv, Idle, PopIdle
<1> QED
  BY <1>2, <1>3, <1>4, <1>5, <1>6 DEF MpscqInv

\* The inductive invariant: at every moment the cells from _oldest to _newest
\* are one chain, whose gaps are the pushes under way.
THEOREM MpscqInvariant == Spec => []MpscqInv
<1>1. MpscqInv /\ [Next]_vars => MpscqInv'
  BY MpscqStep
<1> QED
  BY <1>1, MpscqStart, PTL DEF Spec

\* What pop returns no push can touch: a push before its store holds a prev
\* that waits or is the stub.
THEOREM PoppedReleased == Spec => []PoppedIsReleased
<1>1. MpscqInv => PoppedIsReleased
  <2> SUFFICES ASSUME MpscqInv, NEW t \in Threads, push[t].at = "link"
               PROVE  push[t].prev = stub \/ \E i \in 1..Len(Waiting) : Waiting[i] = push[t].prev
    BY DEF PoppedIsReleased, MpscqInv
  <2>1. PICK w \in Seq(Nodes), k \in Nat, ch \in Seq(Cells) :
          /\ k \in 0..(Len(w) + 1) /\ w = Waiting /\ ch = WithStub(w, k) /\ IsChain(ch)
    BY TheChain
  <2>2. PICK i \in 1..(Len(ch) - 1) : push[t].prev = ch[i]
    BY <2>1 DEF IsChain, PushesAt
  <2>3. i \in 1..Len(ch)
    OBVIOUS
  <2>4. ch[i] # stub => \E j \in 1..Len(w) : ch[i] = w[j]
    BY <2>1, <2>3, StubPlace
  <2> QED
    BY <2>1, <2>2, <2>4
<1> QED
  BY <1>1, MpscqInvariant, PTL

\* No wake-up is lost: what a sleeping consumer has waiting begins behind a
\* gap after the stub, and the push of that gap returns true.
THEOREM WakeupNotLost == Spec => []NoLostWakeup
<1>1. MpscqInv => NoLostWakeup
  <2> SUFFICES ASSUME MpscqInv, asleep, Waiting # <<>>
               PROVE  \E p \in Producers : push[p].at = "link" /\ push[p].prev = stub
    BY DEF NoLostWakeup
  <2>1. oldest = stub /\ next[stub] = null /\ push[Consumer].at = "idle"
    BY DEF MpscqInv, PopInv
  <2>2. PICK w \in Seq(Nodes), k \in Nat, ch \in Seq(Cells) :
          /\ k \in 0..(Len(w) + 1) /\ w = Waiting /\ ch = WithStub(w, k) /\ IsChain(ch)
    BY TheChain
  <2>3. Len(w) \in Nat \ {0}
    BY <2>2, EmptySeq
  <2>4. ch[1] = stub
    BY <2>1, <2>2 DEF IsChain
  <2>5. Len(ch) = Len(w) + 1
    <3>1. Len(ch) = IF k = 0 THEN Len(w) ELSE Len(w) + 1
      BY <2>2, StubPlace
    <3>2. 1 \in 1..Len(ch)
      BY <2>2, <2>3, <3>1
    <3>3. k # 0
      BY <2>2, <2>4, <3>2, StubPlace
    <3> QED
      BY <3>1, <3>3
  <2>6. 1 \in 1..(Len(ch) - 1) /\ 1 + 1 \in 1..Len(ch)
    BY <2>3, <2>5
  <2>7. ch[1 + 1] # null
    BY <2>6, ElementOfSeq, MpscqAssumption DEF Cells
  <2>8. PICK t \in Threads : push[t] = [at |-> "link", node |-> ch[1 + 1], prev |-> ch[1]]
    BY <2>1, <2>2, <2>4, <2>6, <2>7 DEF IsChain, Linked
  <2>9. t # Consumer
    BY <2>1, <2>8
  <2> QED
    BY <2>4, <2>8, <2>9 DEF Threads
<1> QED
  BY <1>1, MpscqInvariant, PTL

\* The destructor's assertions: when nothing waits, the chain is the stub.
THEOREM DrainedReset == Spec => []DrainedIsReset
<1>1. MpscqInv => DrainedIsReset
  <2>0. SUFFICES ASSUME MpscqInv, Waiting = <<>> PROVE newest = stub /\ oldest = stub
    BY DEF DrainedIsReset
  <2>1. PICK w \in Seq(Nodes), k \in Nat, ch \in Seq(Cells) :
          /\ k \in 0..(Len(w) + 1) /\ w = Waiting /\ ch = WithStub(w, k) /\ IsChain(ch)
    BY <2>0, TheChain
  <2>2. Len(w) = 0
    BY <2>0, <2>1
  <2>3. (k # 0 => ch[k] = stub) /\ Len(ch) = IF k = 0 THEN Len(w) ELSE Len(w) + 1
    BY <2>1, StubPlace
  <2>4. Len(ch) \in Nat \ {0}
    BY <2>1, EmptySeq DEF IsChain
  <2>5. k = 1 /\ Len(ch) = 1 /\ ch[1] = stub
    BY <2>1, <2>2, <2>3, <2>4
  <2> QED
    BY <2>1, <2>5 DEF IsChain
<1> QED
  BY <1>1, MpscqInvariant, PTL

\* The refinement: with what waits as its queue, every access of every thread
\* is an enqueue, a dequeue or nothing.
THEOREM MpscqIsFifo == Spec => ImplementsFifo
<1>1. Init => Fifo!FifoInit
  <2> SUFFICES ASSUME Init PROVE Fifo!FifoInit
    OBVIOUS
  <2>1. Waiting = <<>>
    <3>1. SubSeq(<<>>, 1, 0) = <<>> /\ Len(<<>>) = 0
      OBVIOUS
    <3> QED
      BY <3>1 DEF Init, Waiting
  <2> QED
    BY <2>1, MpscqAssumption DEF Init, Fifo!FifoInit, NoNode
<1>2. MpscqInv /\ [Next]_vars => [Fifo!FifoNext]_(Fifo!fifoVars)
  <2> SUFFICES ASSUME MpscqInv, [Next]_vars PROVE [Fifo!FifoNext]_(Fifo!fifoVars)
    OBVIOUS
  <2>1. CASE Quiet
    <3>1. Waiting' = Waiting /\ popped' = popped
      BY <2>1, WaitingSame DEF Quiet
    <3> QED
      BY <3>1, Zenon DEF Fifo!fifoVars
  <2>2. CASE GoesIn
    BY <2>2, Zenon DEF GoesIn, Fifo!FifoNext, Fifo!Enqueue
  <2>3. CASE ComesOut
    <3>1. Waiting # <<>> /\ Waiting' = Tail(Waiting)
      BY <2>3 DEF ComesOut
    <3>2. PICK n \in Nodes : n = Head(Waiting)
      <4>1. PICK w \in Seq(Nodes) : w = Waiting
        BY WaitingType DEF MpscqInv
      <4> QED
        BY <3>1, <4>1
    <3>3. PICK h \in Seq(Nodes) : h = popped
      BY DEF MpscqInv, TypeOK
    <3>4. Append(h, n) # <<>> /\ Append(h, n)[Len(Append(h, n))] = n
      OBVIOUS
    <3>5. popped' # <<>> /\ Last(popped') = Head(Waiting)
      BY <2>3, <3>2, <3>3, <3>4 DEF ComesOut, Last
    <3> QED
      BY <3>1, <3>5, Zenon DEF Fifo!FifoNext, Fifo!Dequeue
  <2> QED
    BY <2>1, <2>2, <2>3, MpscqStep
<1> QED
  BY <1>1, <1>2, MpscqInvariant, PTL DEF Spec, ImplementsFifo, Fifo!FifoSpec

=============================================================================
