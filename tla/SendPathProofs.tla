--------------------------- MODULE SendPathProofs ---------------------------
(***************************************************************************)
(* What a client hands to the transport arrives in order, and both ends    *)
(* keep the same books of the connection's window, for any streams, sizes  *)
(* and windows and whether or not sending may fail.                        *)
(*                                                                         *)
(* The order rests on what the buffer may hold: nothing in the unbuffered  *)
(* mode, nothing before the preface, and the preface never.  The books are *)
(* totals over what is under way; their lemmas are in TotalsProofs.        *)
(***************************************************************************)
EXTENDS SendPath, TotalsProofs

OutFrames ==
  [kind : {"data"}, id : Streams, size : Nat, end : BOOLEAN]
  \cup [kind : {"headers"}, id : Streams, end : BOOLEAN]
  \cup [kind : {"credit"}, id : Streams]
  \cup [kind : {"preface", "settings", "goaway"}]

BackFrames ==
  [kind : {"window"}, id : Streams \cup {Connection}, inc : Nat]
  \cup [kind : {"end", "reset"}, id : Streams]
  \cup [kind : {"goaway"}]

FramesOK ==
  /\ wire \in Seq(OutFrames) /\ sendBuffer \in Seq(OutFrames) /\ issued \in Seq(OutFrames)
  /\ back \in Seq(BackFrames)

\* What is on the wire was issued, in that order; what was issued and is not
\* on the wire is in the buffer.
OrderInv ==
  /\ Len(wire) <= Len(issued)
  /\ \A i \in 1..Len(wire) : wire[i] = issued[i]
  /\ ~broken => wire \o sendBuffer = issued
  /\ ~broken /\ ~buffered => sendBuffer = <<>>

\* The preface goes first, and once.
PrefaceInv ==
  /\ ~prefaceSent => wire = <<>> /\ ~greeted
  /\ ~prefaceSent /\ ~broken => sendBuffer = <<>>
  /\ ~greeted /\ issued # <<>> => issued[1] = Preface
  /\ ~greeted /\ issued = <<>> => ~prefaceSent
  /\ \A i \in 1..Len(wire) : wire[i] = Preface => i = 1 /\ ~greeted
  /\ \A i \in 1..Len(sendBuffer) : sendBuffer[i] # Preface

\* The books, without the types.
Accounts ==
  /\ sendWindow + Outstanding(wire) + Returning(back) <= recvWindow + stray
  /\ ~broken => sendWindow + Outstanding(wire) + Returning(back) + Outstanding(sendBuffer)
                  = recvWindow + stray

SendPathInv ==
  /\ TypeOK
  /\ FramesOK
  /\ OrderInv
  /\ PrefaceInv
  /\ Accounts

-----------------------------------------------------------------------------
(***************************************************************************)
(* The octets under way.                                                   *)
(***************************************************************************)

DataOctets == [f \in OutFrames |-> IF f.kind = "data" THEN f.size ELSE 0]
ConnectionOctets ==
  [f \in BackFrames |-> IF f.kind = "window" /\ f.id = Connection THEN f.inc ELSE 0]

\* Octets are natural numbers.
LEMMA OctetsType ==
  /\ \A f \in OutFrames : DataOctets[f] \in Nat
  /\ \A f \in BackFrames : ConnectionOctets[f] \in Nat
BY DEF DataOctets, ConnectionOctets, OutFrames, BackFrames

\* The books of the model are totals of weights.
LEMMA OutstandingIs ==
  ASSUME NEW s \in Seq(OutFrames)
  PROVE  Outstanding(s) = Weighed(DataOctets, s)
<1>1. \A i \in 1..Len(s) : s[i] \in OutFrames
  BY ElementOfSeq
<1>2. \A f \in OutFrames : DataOctets[f] = IF f.kind = "data" THEN f.size ELSE 0
  BY DEF DataOctets
<1>3. [i \in 1..Len(s) |-> IF s[i].kind = "data" THEN s[i].size ELSE 0]
        = [i \in 1..Len(s) |-> DataOctets[s[i]]]
  BY <1>1, <1>2
<1> QED
  BY <1>3, Zenon DEF Outstanding, Weighed, Weights

\* So are those of the increments.
LEMMA ReturningIs ==
  ASSUME NEW s \in Seq(BackFrames)
  PROVE  Returning(s) = Weighed(ConnectionOctets, s)
<1>1. \A i \in 1..Len(s) : s[i] \in BackFrames
  BY ElementOfSeq
<1>2. \A f \in BackFrames :
        ConnectionOctets[f] = IF f.kind = "window" /\ f.id = Connection THEN f.inc ELSE 0
  BY DEF ConnectionOctets
<1>3. [i \in 1..Len(s) |-> IF s[i].kind = "window" /\ s[i].id = Connection THEN s[i].inc ELSE 0]
        = [i \in 1..Len(s) |-> ConnectionOctets[s[i]]]
  BY <1>1, <1>2
<1> QED
  BY <1>3, Zenon DEF Returning, Weighed, Weights

\* What is behind one another adds up.
LEMMA OutConcat ==
  ASSUME NEW s \in Seq(OutFrames), NEW t \in Seq(OutFrames)
  PROVE  /\ s \o t \in Seq(OutFrames)
         /\ Outstanding(s) \in Nat
         /\ Outstanding(s \o t) = Outstanding(s) + Outstanding(t)
<1>0. s \o t \in Seq(OutFrames)
  BY ConcatProperties
<1>1. Outstanding(s) = Weighed(DataOctets, s) /\ Outstanding(t) = Weighed(DataOctets, t)
      /\ Outstanding(s \o t) = Weighed(DataOctets, s \o t)
  BY <1>0, OutstandingIs
<1>2. (\A f \in OutFrames : DataOctets[f] \in Nat) /\ (\A f \in OutFrames : DataOctets[f] \in Int)
  BY OctetsType
<1>3. Weighed(DataOctets, s \o t) = Weighed(DataOctets, s) + Weighed(DataOctets, t)
  BY <1>2, WeighedConcat
<1>4. Weighed(DataOctets, s) \in Nat
  BY <1>2, WeighedNat
<1> QED
  BY <1>0, <1>1, <1>3, <1>4, Zenon

\* So do increments.
LEMMA BackConcat ==
  ASSUME NEW s \in Seq(BackFrames), NEW t \in Seq(BackFrames)
  PROVE  /\ s \o t \in Seq(BackFrames)
         /\ Returning(s) \in Nat
         /\ Returning(s \o t) = Returning(s) + Returning(t)
<1>0. s \o t \in Seq(BackFrames)
  BY ConcatProperties
<1>1. Returning(s) = Weighed(ConnectionOctets, s) /\ Returning(t) = Weighed(ConnectionOctets, t)
      /\ Returning(s \o t) = Weighed(ConnectionOctets, s \o t)
  BY <1>0, ReturningIs
<1>2. /\ \A f \in BackFrames : ConnectionOctets[f] \in Nat
      /\ \A f \in BackFrames : ConnectionOctets[f] \in Int
  BY OctetsType
<1>3. Weighed(ConnectionOctets, s \o t)
        = Weighed(ConnectionOctets, s) + Weighed(ConnectionOctets, t)
  BY <1>2, WeighedConcat
<1>4. Weighed(ConnectionOctets, s) \in Nat
  BY <1>2, WeighedNat
<1> QED
  BY <1>0, <1>1, <1>3, <1>4, Zenon

\* A frame by itself.
LEMMA OutOne ==
  ASSUME NEW f \in OutFrames
  PROVE  /\ <<f>> \in Seq(OutFrames)
         /\ Outstanding(<<f>>) = IF f.kind = "data" THEN f.size ELSE 0
<1>0. <<f>> \in Seq(OutFrames)
  OBVIOUS
<1>1. \A x \in OutFrames : DataOctets[x] \in Int
  BY OctetsType
<1>2. Weighed(DataOctets, <<f>>) = DataOctets[f]
  BY <1>1, WeighedOne
<1>3. DataOctets[f] = IF f.kind = "data" THEN f.size ELSE 0
  BY DEF DataOctets
<1> QED
  BY <1>0, <1>2, <1>3, OutstandingIs

\* An increment by itself.
LEMMA BackOne ==
  ASSUME NEW f \in BackFrames
  PROVE  /\ <<f>> \in Seq(BackFrames)
         /\ Returning(<<f>>) = IF f.kind = "window" /\ f.id = Connection THEN f.inc ELSE 0
<1>0. <<f>> \in Seq(BackFrames)
  OBVIOUS
<1>1. \A x \in BackFrames : ConnectionOctets[x] \in Int
  BY OctetsType
<1>2. Weighed(ConnectionOctets, <<f>>) = ConnectionOctets[f]
  BY <1>1, WeighedOne
<1>3. ConnectionOctets[f] = IF f.kind = "window" /\ f.id = Connection THEN f.inc ELSE 0
  BY DEF ConnectionOctets
<1> QED
  BY <1>0, <1>2, <1>3, ReturningIs

\* Nothing is under way at first.
LEMMA OctetsEmpty == Outstanding(<<>>) = 0 /\ Returning(<<>>) = 0
<1>1. <<>> \in Seq(OutFrames) /\ <<>> \in Seq(BackFrames)
  OBVIOUS
<1> QED
  BY <1>1, OutstandingIs, ReturningIs, WeighedEmpty

\* The frame at the front is read.
LEMMA OutTail ==
  ASSUME NEW s \in Seq(OutFrames), s # <<>>
  PROVE  /\ Head(s) \in OutFrames /\ Tail(s) \in Seq(OutFrames)
         /\ Outstanding(s) = (IF Head(s).kind = "data" THEN Head(s).size ELSE 0) + Outstanding(Tail(s))
<1>0. Head(s) \in OutFrames /\ Tail(s) \in Seq(OutFrames)
  OBVIOUS
<1>1. \A x \in OutFrames : DataOctets[x] \in Nat
  BY OctetsType
<1>2. Weighed(DataOctets, s) = DataOctets[Head(s)] + Weighed(DataOctets, Tail(s))
  BY <1>1, WeighedTail
<1>3. DataOctets[Head(s)] = IF Head(s).kind = "data" THEN Head(s).size ELSE 0
  BY <1>0 DEF DataOctets
<1> QED
  BY <1>0, <1>2, <1>3, OutstandingIs

\* The increment at the front is read.
LEMMA BackTail ==
  ASSUME NEW s \in Seq(BackFrames), s # <<>>
  PROVE  /\ Head(s) \in BackFrames /\ Tail(s) \in Seq(BackFrames)
         /\ Returning(s) =
              (IF Head(s).kind = "window" /\ Head(s).id = Connection THEN Head(s).inc ELSE 0)
              + Returning(Tail(s))
<1>0. Head(s) \in BackFrames /\ Tail(s) \in Seq(BackFrames)
  OBVIOUS
<1>1. \A x \in BackFrames : ConnectionOctets[x] \in Nat
  BY OctetsType
<1>2. Weighed(ConnectionOctets, s) = ConnectionOctets[Head(s)] + Weighed(ConnectionOctets, Tail(s))
  BY <1>1, WeighedTail
<1>3. ConnectionOctets[Head(s)] =
        IF Head(s).kind = "window" /\ Head(s).id = Connection THEN Head(s).inc ELSE 0
  BY <1>0 DEF ConnectionOctets
<1> QED
  BY <1>0, <1>2, <1>3, ReturningIs

\* A part at the front has no more octets than the whole.
LEMMA OutPrefix ==
  ASSUME NEW s \in Seq(OutFrames), NEW n \in 0..Len(s)
  PROVE  /\ SubSeq(s, 1, n) \in Seq(OutFrames)
         /\ Outstanding(SubSeq(s, 1, n)) <= Outstanding(s)
<1>1. \A x \in OutFrames : DataOctets[x] \in Nat
  BY OctetsType
<1>2. /\ SubSeq(s, 1, n) \in Seq(OutFrames)
      /\ Weighed(DataOctets, SubSeq(s, 1, n)) <= Weighed(DataOctets, s)
  BY <1>1, WeighedPrefix
<1> QED
  BY <1>2, OutstandingIs

\* How many pieces there are: one less does not hold the size.
LEMMA HowManyPieces ==
  ASSUME NEW size \in Nat \ {0}, NEW m \in Nat \ {0}
  PROVE  \E n \in Nat \ {0} :
           /\ n = (size + m - 1) \div m
           /\ (n - 1) * m < size
           /\ size <= n * m
<1>1. PICK a \in Nat : a = size + m - 1 /\ a >= m
  OBVIOUS
<1>2. PICK q \in Int, r \in Int : q = a \div m /\ a = m * q + r /\ 0 <= r /\ r < m
  OBVIOUS
<1>3. q >= 1
  <2>1. q <= 0 => m * q <= 0
    OBVIOUS
  <2> QED
    BY <1>1, <1>2, <2>1
<1>4. (q - 1) * m = m * q - m /\ q * m = m * q /\ m * q \in Int
  OBVIOUS
<1>5. (q - 1) * m < size /\ size <= q * m
  BY <1>1, <1>2, <1>4
<1> QED
  BY <1>1, <1>2, <1>3, <1>5

\* The pieces of a payload carry all of it.
LEMMA CutCarries ==
  ASSUME NEW id \in Streams, NEW size \in Nat \ {0}, NEW end \in BOOLEAN
  PROVE  /\ Cut(id, size, end) \in Seq(OutFrames)
         /\ \A i \in 1..Len(Cut(id, size, end)) : Cut(id, size, end)[i] # Preface
         /\ Outstanding(Cut(id, size, end)) = size
<1>1. PICK m \in Nat \ {0} : m = MaxFrameSize
  BY SendPathAssumption
<1>2. PICK n \in Nat \ {0} :
        /\ n = (size + m - 1) \div m
        /\ (n - 1) * m < size
        /\ size <= n * m
  BY HowManyPieces
<1>3. PICK k \in Nat : k = (n - 1) * m
  OBVIOUS
<1> DEFINE d == [i \in 1..n |-> DataFrame(id, IF i < n THEN m ELSE size - k, end /\ i = n)]
<1>4. Cut(id, size, end) = d
  BY <1>1, <1>2, <1>3 DEF Cut
<1>5. \A i \in 1..n : /\ d[i] \in OutFrames /\ d[i].kind = "data"
                      /\ d[i].size = IF i < n THEN m ELSE size - k
  <2>1. size - k \in Nat
    BY <1>2, <1>3
  <2>2. ASSUME NEW i \in 1..n PROVE (end /\ i = n) \in BOOLEAN
    BY Zenon
  <2> QED
    BY <2>1, <2>2 DEF DataFrame, OutFrames
<1>6. d \in Seq(OutFrames) /\ Len(d) = n
  BY <1>5
<1> HIDE DEF d
<1>7. \A i \in 1..Len(d) : d[i] # Preface
  BY <1>5, <1>6 DEF Preface
<1> DEFINE w == [i \in 1..n |-> IF i < n THEN m ELSE size - k]
           f == [i \in 0..n |-> IF i < n THEN i * m ELSE size]
<1>8. Outstanding(d) = Total(w)
  <2>1. [i \in 1..Len(d) |-> IF d[i].kind = "data" THEN d[i].size ELSE 0] = w
    BY <1>5, <1>6
  <2> QED
    BY <2>1 DEF Outstanding
<1>9. w \in Seq(Int) /\ Len(w) = n /\ \A i \in 1..n : w[i] = IF i < n THEN m ELSE size - k
  OBVIOUS
<1>10. f \in [0..n -> Int] /\ f[0] = 0 /\ f[n] = size
  <2>1. \A i \in 0..n : i * m \in Int
    OBVIOUS
  <2> QED
    BY <2>1
<1>11. ASSUME NEW i \in 1..n PROVE f[i] = f[i - 1] + w[i]
  <2>1. f[i - 1] = (i - 1) * m
    OBVIOUS
  <2>2. CASE i < n
    <3>1. f[i] = i * m /\ w[i] = m
      BY <2>2
    <3>2. i * m = (i - 1) * m + m
      OBVIOUS
    <3> QED
      BY <2>1, <3>1, <3>2
  <2>3. CASE i = n
    BY <1>3, <1>9, <1>10, <2>1, <2>3
  <2> QED
    BY <2>2, <2>3
<1> HIDE DEF w, f
<1>12. Total(w) = f[Len(w)]
  BY <1>9, <1>10, <1>11, TotalFrom
<1>13. Outstanding(d) = size
  BY <1>8, <1>9, <1>10, <1>12
<1> QED
  BY <1>4, <1>6, <1>7, <1>13

\* So does the empty frame, and the lack of one.
LEMMA PiecesCarry ==
  ASSUME NEW id \in Streams, NEW size \in Nat, NEW end \in BOOLEAN
  PROVE  /\ Pieces(id, size, end) \in Seq(OutFrames)
         /\ \A i \in 1..Len(Pieces(id, size, end)) : Pieces(id, size, end)[i] # Preface
         /\ Outstanding(Pieces(id, size, end)) = size
<1>1. CASE size > 0
  <2>1. size \in Nat \ {0} /\ Pieces(id, size, end) = Cut(id, size, end)
    BY <1>1 DEF Pieces
  <2> QED
    BY <2>1, CutCarries
<1>2. CASE size = 0 /\ end
  <2>0. /\ DataFrame(id, 0, TRUE) \in OutFrames
        /\ DataFrame(id, 0, TRUE).kind = "data" /\ DataFrame(id, 0, TRUE).size = 0
    BY SMT DEF DataFrame, OutFrames
  <2>1. PICK f \in OutFrames : f = DataFrame(id, 0, TRUE) /\ f.kind = "data" /\ f.size = 0
    BY <2>0, Zenon
  <2>2. Pieces(id, size, end) = <<f>>
    <3>1. ~ (size > 0)
      BY <1>2
    <3> QED
      BY <1>2, <2>1, <3>1, Zenon DEF Pieces
  <2>3. <<f>> \in Seq(OutFrames) /\ Outstanding(<<f>>) = 0
    BY <2>1, OutOne
  <2>4. \A i \in 1..Len(<<f>>) : <<f>>[i] # Preface
    <3>0. f.kind = "data"
      BY <2>1, Zenon
    <3>1. f # Preface
      BY <3>0 DEF Preface
    <3> QED
      BY <3>1
  <2> QED
    BY <1>2, <2>2, <2>3, <2>4, Zenon
<1>3. CASE size = 0 /\ ~end
  <2>1. Pieces(id, size, end) = <<>>
    BY <1>3 DEF Pieces
  <2>2. <<>> \in Seq(OutFrames) /\ \A i \in 1..Len(<<>>) : <<>>[i] # Preface
    OBVIOUS
  <2> QED
    BY <1>3, <2>1, <2>2, OctetsEmpty, Zenon
<1> QED
  BY <1>1, <1>2, <1>3

-----------------------------------------------------------------------------
(***************************************************************************)
(* What is handed over: x is issued, of it y gets onto the wire and z into *)
(* the buffer.                                                             *)
(***************************************************************************)

\* Where the elements of two sequences are when they are behind one another.
LEMMA ConcatAt ==
  \A S : \A s, t \in Seq(S) :
    /\ Len(s \o t) = Len(s) + Len(t)
    /\ \A i \in 1..(Len(s) + Len(t)) :
         (s \o t)[i] = IF i <= Len(s) THEN s[i] ELSE t[i - Len(s)]
BY ConcatProperties

\* It does not matter how three sequences are grouped.
LEMMA Regroup ==
  \A s, t, u \in Seq(OutFrames) : (s \o t) \o u = s \o (t \o u)
BY ConcatAssociative

\* u begins with w; u is w and then b.
Begins(w, u)     == Len(w) <= Len(u) /\ \A i \in 1..Len(w) : w[i] = u[i]
Together(w, b, u) == w \o b = u

\* What is on the wire stays the beginning of what was issued.
LEMMA PrefixGrows ==
  ASSUME NEW w \in Seq(OutFrames), NEW u \in Seq(OutFrames), NEW x \in Seq(OutFrames),
         NEW y \in Seq(OutFrames), Begins(w, u), Begins(y, x), y = <<>> \/ w = u
  PROVE  Begins(w \o y, u \o x)
<1>a. /\ Len(w \o y) = Len(w) + Len(y)
      /\ \A i \in 1..(Len(w) + Len(y)) : (w \o y)[i] = IF i <= Len(w) THEN w[i] ELSE y[i - Len(w)]
  BY ConcatAt, SMT
<1>b. /\ Len(u \o x) = Len(u) + Len(x)
      /\ \A i \in 1..(Len(u) + Len(x)) : (u \o x)[i] = IF i <= Len(u) THEN u[i] ELSE x[i - Len(u)]
  BY ConcatAt, SMT
<1>1. PICK m \in Nat, n \in Nat, k \in Nat, l \in Nat :
        Len(w) = m /\ Len(u) = n /\ Len(x) = k /\ Len(y) = l
  OBVIOUS
<1>2. Len(w \o y) = m + l /\ \A i \in 1..(m + l) : (w \o y)[i] = IF i <= m THEN w[i] ELSE y[i - m]
  BY <1>a, <1>1
<1>3. Len(u \o x) = n + k /\ \A i \in 1..(n + k) : (u \o x)[i] = IF i <= n THEN u[i] ELSE x[i - n]
  BY <1>b, <1>1
<1>0. /\ Len(w) <= Len(u) /\ \A i \in 1..Len(w) : w[i] = u[i]
      /\ Len(y) <= Len(x) /\ \A i \in 1..Len(y) : y[i] = x[i]
      /\ y = <<>> \/ w = u
  BY Zenon DEF Begins
<1>4. y = <<>> => l = 0
  BY <1>1
<1>5. w = u => m = n
  BY <1>1
<1>6. m <= n /\ l <= k /\ (l = 0 \/ m = n)
  BY <1>0, <1>1, <1>4, <1>5
<1>7. ASSUME NEW i \in 1..(m + l) PROVE (w \o y)[i] = (u \o x)[i]
  <2>1. i \in 1..(n + k)
    BY <1>6
  <2>2. CASE i <= m
    <3>1. i \in 1..m /\ i <= n
      BY <1>6, <2>2
    <3> QED
      BY <1>0, <1>1, <1>2, <1>3, <2>1, <2>2, <3>1
  <2>3. CASE ~ (i <= m)
    <3>1. m = n /\ i - m \in 1..l
      BY <1>6, <2>3
    <3>2. (w \o y)[i] = y[i - m] /\ (u \o x)[i] = x[i - m]
      BY <1>2, <1>3, <2>1, <2>3, <3>1
    <3> QED
      BY <1>0, <1>1, <3>1, <3>2
  <2> QED
    BY <2>2, <2>3
<1>8. m + l <= n + k
  BY <1>6
<1>9. Len(w \o y) <= Len(u \o x)
  BY <1>2, <1>3, <1>8, Zenon
<1>10. \A i \in 1..Len(w \o y) : (w \o y)[i] = (u \o x)[i]
  BY <1>2, <1>7, Zenon
<1> QED
  BY <1>9, <1>10, Zenon DEF Begins

\* The wire and the buffer together stay what was issued.
LEMMA NothingIsMissing ==
  ASSUME NEW w \in Seq(OutFrames), NEW b \in Seq(OutFrames), NEW y \in Seq(OutFrames),
         NEW z \in Seq(OutFrames), NEW u, Together(w, b, u), b = <<>> \/ y = <<>>
  PROVE  Together(w \o y, b \o z, u \o (y \o z))
<1>1. (w \o y) \o z = w \o (y \o z)
  BY Regroup, Zenon
<1>2. (w \o b) \o z = w \o (b \o z)
  BY Regroup, Zenon
<1>3. <<>> \o z = z /\ w \o <<>> = w
  BY ConcatEmptySeq
<1> QED
  BY <1>1, <1>2, <1>3, Zenon DEF Together

\* Where the preface is in what is put behind something else.
LEMMA PlacesIn ==
  ASSUME NEW S, NEW w \in Seq(S), NEW y \in Seq(S), NEW p
  PROVE  /\ (\A i \in 1..Len(w) : w[i] # p) /\ (\A i \in 1..Len(y) : y[i] # p)
              => \A i \in 1..Len(w \o y) : (w \o y)[i] # p
         /\ w # <<>> => w \o y # <<>> /\ (w \o y)[1] = w[1]
         /\ w = <<>> => w \o y = y
         /\ (\A i \in 1..Len(w) : w[i] = p => i = 1) /\ (\A i \in 1..Len(y) : y[i] # p)
              => \A i \in 1..Len(w \o y) : (w \o y)[i] = p => i = 1
<1>1. PICK m \in Nat, l \in Nat : Len(w) = m /\ Len(y) = l
  OBVIOUS
<1>2. Len(w \o y) = m + l /\ \A i \in 1..(m + l) : (w \o y)[i] = IF i <= m THEN w[i] ELSE y[i - m]
  BY <1>1, ConcatProperties
<1>3. \A i \in 1..(m + l) : (i <= m => i \in 1..m) /\ (~ (i <= m) => i - m \in 1..l)
  OBVIOUS
<1>4. w # <<>> => w \o y # <<>> /\ (w \o y)[1] = w[1]
  <2> SUFFICES ASSUME w # <<>> PROVE w \o y # <<>> /\ (w \o y)[1] = w[1]
    OBVIOUS
  <2>1. m >= 1
    BY <1>1
  <2>2. 1 \in 1..(m + l) /\ 1 <= m /\ m + l # 0
    BY <2>1
  <2>3. Len(<<>>) = 0
    OBVIOUS
  <2> QED
    BY <1>2, <2>2, <2>3
<1>5. w = <<>> => w \o y = y
  BY ConcatEmptySeq
<1> QED
  BY <1>1, <1>2, <1>3, <1>4, <1>5, SMTT(30)

\* What a call hands over: only what comes out right on an intact connection
\* has to be complete.
HandsOver(x, y, z) ==
  /\ issued' = issued \o x /\ wire' = wire \o y /\ sendBuffer' = sendBuffer \o z
  /\ Begins(y, x)
  /\ broken => broken' /\ y = <<>>
  /\ ~broken' => x = y \o z
  /\ y = <<>> \/ sendBuffer = <<>>
  /\ ~broken' /\ ~buffered => z = <<>>
  /\ ~prefaceSent' => ~prefaceSent /\ y = <<>> /\ broken'
  /\ ~prefaceSent => x # <<>> /\ x[1] = Preface
  /\ \A i \in 1..Len(y) : y[i] = Preface => i = 1 /\ ~prefaceSent
  /\ \A i \in 1..Len(z) : z[i] # Preface

\* Handing over keeps the order and the preface at the front.
LEMMA OrderStep ==
  ASSUME NEW x \in Seq(OutFrames), NEW y \in Seq(OutFrames), NEW z \in Seq(OutFrames),
         FramesOK, OrderInv, PrefaceInv, HandsOver(x, y, z),
         buffered' = buffered, greeted' = greeted
  PROVE  /\ wire' \in Seq(OutFrames) /\ sendBuffer' \in Seq(OutFrames) /\ issued' \in Seq(OutFrames)
         /\ OrderInv' /\ PrefaceInv'
<1>1. PICK w \in Seq(OutFrames), b \in Seq(OutFrames), u \in Seq(OutFrames) :
        w = wire /\ b = sendBuffer /\ u = issued
  BY DEF FramesOK
<1>2. w \o y \in Seq(OutFrames) /\ b \o z \in Seq(OutFrames) /\ u \o x \in Seq(OutFrames)
  BY ConcatProperties
<1>3. /\ issued' = u \o x /\ wire' = w \o y /\ sendBuffer' = b \o z
      /\ Begins(y, x)
      /\ broken => broken' /\ y = <<>>
      /\ ~broken' => x = y \o z
      /\ y = <<>> \/ b = <<>>
      /\ ~broken' /\ ~buffered => z = <<>>
  BY <1>1, Zenon DEF HandsOver
<1>4. /\ ~prefaceSent' => ~prefaceSent /\ y = <<>> /\ broken'
      /\ ~prefaceSent => x # <<>> /\ x[1] = Preface
      /\ \A i \in 1..Len(y) : y[i] = Preface => i = 1 /\ ~prefaceSent
      /\ \A i \in 1..Len(z) : z[i] # Preface
  BY Zenon DEF HandsOver
<1>5. /\ Len(w) <= Len(u) /\ \A i \in 1..Len(w) : w[i] = u[i]
      /\ ~broken => w \o b = u
      /\ ~broken /\ ~buffered => b = <<>>
  BY <1>1, Zenon DEF OrderInv
<1>6. /\ ~prefaceSent => w = <<>> /\ ~greeted
      /\ ~greeted /\ u # <<>> => u[1] = Preface
      /\ ~greeted /\ u = <<>> => ~prefaceSent
      /\ \A i \in 1..Len(w) : w[i] = Preface => i = 1 /\ ~greeted
      /\ \A i \in 1..Len(b) : b[i] # Preface
  BY <1>1, Zenon DEF PrefaceInv
<1>7. w \o <<>> = w /\ b \o <<>> = b /\ <<>> \o y = y /\ <<>> \o x = x
  BY ConcatEmptySeq
<1>8. OrderInv'
  <2>1. y = <<>> \/ w = u
    BY <1>3, <1>5, <1>7, Zenon
  <2>2. Begins(w \o y, u \o x)
    <3>1. Begins(w, u) /\ Begins(y, x)
      BY <1>3, <1>5, Zenon DEF Begins
    <3> QED
      BY <2>1, <3>1, PrefixGrows, Zenon
  <2>3. ~broken' => Together(w \o y, b \o z, u \o x)
    <3>1. ~broken' => Together(w, b, u) /\ x = y \o z
      BY <1>3, <1>5, Zenon DEF Together
    <3>2. b = <<>> \/ y = <<>>
      BY <1>3, Zenon
    <3> QED
      BY <3>1, <3>2, NothingIsMissing, Zenon
  <2>4. ~broken' /\ ~buffered => b \o z = <<>>
    BY <1>3, <1>5, <1>7, Zenon
  <2> QED
    BY <1>3, <2>2, <2>3, <2>4, Zenon DEF OrderInv, Begins, Together
<1>9. PrefaceInv'
  <2>1. ~prefaceSent' => w \o y = <<>> /\ ~greeted
    BY <1>4, <1>6, <1>7, Zenon
  <2>2. ~greeted => u \o x # <<>> /\ (u \o x)[1] = Preface
    <3>1. CASE u = <<>>
      BY <1>4, <1>6, <1>7, <3>1, Zenon
    <3>2. CASE u # <<>>
      <4>1. u \o x # <<>> /\ (u \o x)[1] = u[1]
        BY <3>2, PlacesIn
      <4> QED
        BY <1>6, <3>2, <4>1, Zenon
    <3> QED
      BY <3>1, <3>2
  <2>3. \A i \in 1..Len(w \o y) : (w \o y)[i] = Preface => i = 1 /\ ~greeted
    <3>1. CASE ~prefaceSent
      <4>1. w \o y = y
        BY <1>6, <1>7, <3>1, Zenon
      <4> QED
        BY <1>4, <1>6, <3>1, <4>1, Zenon
    <3>2. CASE prefaceSent
      <4>1. \A i \in 1..Len(y) : y[i] # Preface
        BY <1>4, <3>2, Zenon
      <4>2. CASE greeted
        <5>1. \A i \in 1..Len(w) : w[i] # Preface
          BY <1>6, <4>2, Zenon
        <5>2. \A i \in 1..Len(w \o y) : (w \o y)[i] # Preface
          BY <4>1, <5>1, PlacesIn
        <5> QED
          BY <5>2, Zenon
      <4>3. CASE ~greeted
        <5>1. \A i \in 1..Len(w) : w[i] = Preface => i = 1
          BY <1>6, Zenon
        <5>2. \A i \in 1..Len(w \o y) : (w \o y)[i] = Preface => i = 1
          BY <4>1, <5>1, PlacesIn
        <5> QED
          BY <4>3, <5>2, Zenon
      <4> QED
        BY <4>2, <4>3
    <3> QED
      BY <3>1, <3>2
  <2>4. \A i \in 1..Len(b \o z) : (b \o z)[i] # Preface
    <3>1. (\A i \in 1..Len(b) : b[i] # Preface) /\ (\A i \in 1..Len(z) : z[i] # Preface)
      BY <1>4, <1>6, Zenon
    <3> QED
      BY <3>1, PlacesIn
  <2> QED
    BY <1>3, <1>4, <2>1, <2>2, <2>3, <2>4, Zenon DEF PrefaceInv, Preface
<1> QED
  BY <1>2, <1>3, <1>8, <1>9, Zenon

\* What the transport takes of some slices: all of them, or it fails.
LEMMA TransmitFacts ==
  ASSUME NEW slices \in Seq(OutFrames), broken \in BOOLEAN, Transmit(slices)
  PROVE  \E y \in Seq(OutFrames) :
           /\ wire' = wire \o y /\ broken' \in BOOLEAN
           /\ Begins(y, slices)
           /\ broken => broken' /\ y = <<>>
           /\ ~broken' => y = slices
           /\ broken' /\ ~broken => Len(y) < Len(slices)
           /\ Outstanding(y) <= Outstanding(slices)
<1>0. PICK l \in Nat : l = Len(slices)
  OBVIOUS
<1>1. PICK n \in 0..l :
        /\ broken => n = 0
        /\ wire' = wire \o SubSeq(slices, 1, n)
        /\ broken' = (broken \/ n < l)
  BY <1>0 DEF Transmit
<1>2. SubSeq(slices, 1, n) \in Seq(OutFrames) /\ Outstanding(SubSeq(slices, 1, n)) <= Outstanding(slices)
  BY <1>0, OutPrefix
<1>3. Len(SubSeq(slices, 1, n)) = n /\ \A i \in 1..n : SubSeq(slices, 1, n)[i] = slices[i]
  BY <1>0
<1>4. n = l => SubSeq(slices, 1, n) = slices
  BY <1>0
<1>5. n = 0 => SubSeq(slices, 1, n) = <<>>
  OBVIOUS
<1>6. PICK y \in Seq(OutFrames) : y = SubSeq(slices, 1, n)
  BY <1>2, Zenon
<1>7. Begins(y, slices)
  BY <1>0, <1>3, <1>6 DEF Begins
<1>8. broken' \in BOOLEAN /\ (broken => broken' /\ y = <<>>)
  BY <1>1, <1>5, <1>6, Zenon
<1>9. ~broken' => y = slices
  <2>1. ~broken' => ~ (n < l)
    BY <1>1, Zenon
  <2>2. ~ (n < l) => n = l
    BY <1>0
  <2> QED
    BY <1>4, <1>6, <2>1, <2>2, Zenon
<1>10. broken' /\ ~broken => Len(y) < Len(slices)
  <2>1. broken' /\ ~broken => n < l
    BY <1>1, Zenon
  <2> QED
    BY <1>0, <1>3, <1>6, <2>1
<1> QED
  BY <1>1, <1>2, <1>6, <1>7, <1>8, <1>9, <1>10, Zenon

\* The frames that are not DATA carry no octets of the window.
LEMMA GreetingFrames ==
  /\ Preface \in OutFrames /\ Settings \in OutFrames /\ Settings # Preface
  /\ <<Preface>> # <<>> /\ Len(<<Preface>>) = 1 /\ <<Preface>>[1] = Preface
  /\ <<Preface>> \in Seq(OutFrames) /\ Outstanding(<<Preface>>) = 0
  /\ <<Settings>> \in Seq(OutFrames) /\ Outstanding(<<Settings>>) = 0
  /\ <<Preface, Settings>> \in Seq(OutFrames) /\ Outstanding(<<Preface, Settings>>) = 0
<1>1. Preface \in OutFrames /\ Preface.kind # "data" /\ Settings \in OutFrames /\ Settings.kind # "data"
  BY DEF Preface, Settings, OutFrames
<1>2. Settings # Preface
  <2>1. Settings.kind = "settings" /\ Preface.kind = "preface"
    BY DEF Preface, Settings
  <2> QED
    BY <2>1
<1>3. /\ <<Preface>> \in Seq(OutFrames) /\ Outstanding(<<Preface>>) = 0
      /\ <<Settings>> \in Seq(OutFrames) /\ Outstanding(<<Settings>>) = 0
  BY <1>1, OutOne
<1>4. <<Preface, Settings>> = <<Preface>> \o <<Settings>>
  <2>1. PICK p \in Seq(OutFrames), q \in Seq(OutFrames) : p = <<Preface>> /\ q = <<Settings>>
    BY <1>3, Zenon
  <2>2. Len(p) = 1 /\ p[1] = Preface /\ Len(q) = 1 /\ q[1] = Settings
    BY <2>1
  <2>3. p \o q \in Seq(OutFrames) /\ Len(p \o q) = 2 /\ (p \o q)[1] = Preface /\ (p \o q)[2] = Settings
    BY <2>2, ConcatProperties
  <2>4. PICK r \in Seq(OutFrames) : r = p \o q
    BY <2>3, Zenon
  <2>5. r = <<Preface, Settings>>
    <3>1. Len(r) = 2 /\ r[1] = Preface /\ r[2] = Settings
      BY <2>3, <2>4, Zenon
    <3>2. r = [i \in 1..2 |-> r[i]]
      BY <3>1
    <3> QED
      BY <3>1, <3>2
  <2> QED
    BY <2>1, <2>4, <2>5, Zenon
<1>5. /\ <<Preface>> \o <<Settings>> \in Seq(OutFrames)
      /\ Outstanding(<<Preface>> \o <<Settings>>) = Outstanding(<<Preface>>) + Outstanding(<<Settings>>)
  BY <1>3, OutConcat
<1> QED
  BY <1>1, <1>2, <1>3, <1>4, <1>5

\* What one call of Send hands over: the DATA in it is on the wire or in the
\* buffer, or the connection is broken.
SendsFor(slices) ==
  \E x, y, z \in Seq(OutFrames) :
    /\ HandsOver(x, y, z)
    /\ Outstanding(y) <= Outstanding(slices)
    /\ ~broken' => Outstanding(y) + Outstanding(z) = Outstanding(slices)

\* In the buffered mode only the preface goes out.
LEMMA BufferedSend ==
  ASSUME TypeOK, FramesOK, OrderInv, PrefaceInv,
         NEW slices \in Seq(OutFrames), \A i \in 1..Len(slices) : slices[i] # Preface,
         buffered, Send(slices)
  PROVE  /\ broken' \in BOOLEAN /\ prefaceSent' \in BOOLEAN /\ buffered' = buffered
         /\ SendsFor(slices)
<1> DEFINE hd == IF prefaceSent THEN <<>> ELSE <<Preface>>
           rs == IF prefaceSent \/ broken' THEN slices ELSE <<Settings>> \o slices
<1>1. /\ Transmit(hd)
      /\ sendBuffer' = sendBuffer \o rs
      /\ issued' = issued \o hd \o rs
      /\ prefaceSent' = (prefaceSent \/ ~broken')
      /\ buffered' = buffered
  BY Zenon DEF Send
<1>2. hd \in Seq(OutFrames) /\ Outstanding(hd) = 0
      /\ (prefaceSent => hd = <<>>) /\ (~prefaceSent => hd = <<Preface>>)
  <2>1. <<>> \in Seq(OutFrames)
    OBVIOUS
  <2> QED
    BY <2>1, GreetingFrames, OctetsEmpty, Zenon
<1>3. rs \in Seq(OutFrames) /\ Outstanding(rs) = Outstanding(slices)
      /\ \A i \in 1..Len(rs) : rs[i] # Preface
  <2> DEFINE ss == <<Settings>> \o slices
  <2>1. ss \in Seq(OutFrames) /\ Outstanding(ss) = Outstanding(slices)
    <3>1. PICK t \in Seq(OutFrames) : t = <<Settings>> /\ Outstanding(t) = 0
      BY GreetingFrames, Zenon
    <3>2. /\ t \o slices \in Seq(OutFrames) /\ Outstanding(slices) \in Nat
          /\ Outstanding(t \o slices) = Outstanding(t) + Outstanding(slices)
      BY OutConcat
    <3>3. Outstanding(t \o slices) = Outstanding(slices)
      BY <3>1, <3>2
    <3> QED
      BY <3>1, <3>2, <3>3, Zenon
  <2>2. \A i \in 1..Len(ss) : ss[i] # Preface
    <3>1. \A i \in 1..Len(<<Settings>>) : <<Settings>>[i] # Preface
      BY GreetingFrames
    <3> QED
      BY <3>1, GreetingFrames, PlacesIn
  <2> HIDE DEF ss
  <2>3. rs = slices \/ rs = ss
    BY Zenon DEF ss
  <2> HIDE DEF rs
  <2> QED
    BY <2>1, <2>2, <2>3, Zenon
<1> HIDE DEF hd, rs
<1>4. broken \in BOOLEAN /\ prefaceSent \in BOOLEAN
  BY DEF TypeOK
<1>5. PICK y \in Seq(OutFrames) :
           /\ wire' = wire \o y /\ broken' \in BOOLEAN
           /\ Begins(y, hd)
           /\ broken => broken' /\ y = <<>>
           /\ ~broken' => y = hd
           /\ broken' /\ ~broken => Len(y) < Len(hd)
           /\ Outstanding(y) <= Outstanding(hd)
  BY <1>1, <1>2, <1>4, TransmitFacts, Zenon
<1>6. PICK z \in Seq(OutFrames) : z = rs
  BY <1>3, Zenon
<1>7. PICK h \in Seq(OutFrames) : h = hd
  BY <1>2, Zenon
<1>8. PICK x \in Seq(OutFrames) : x = h \o z
  BY ConcatProperties
<1>9. issued' = issued \o x
  <2>1. PICK u \in Seq(OutFrames) : u = issued
    BY DEF FramesOK
  <2>2. (u \o h) \o z = u \o (h \o z)
    BY Regroup, Zenon
  <2> QED
    BY <1>1, <1>6, <1>7, <1>8, <2>1, <2>2, Zenon
<1>10. Begins(y, x)
  <2>1. y \o <<>> = y /\ <<>> \in Seq(OutFrames)
    BY ConcatEmptySeq
  <2>2. Begins(<<>>, z)
    BY DEF Begins
  <2>3. Begins(y, h)
    BY <1>5, <1>7, Zenon
  <2>4. Begins(y \o <<>>, h \o z)
    BY <2>1, <2>2, <2>3, PrefixGrows, Zenon
  <2> QED
    BY <1>8, <2>1, <2>4, Zenon
<1>11. h = <<>> => y = <<>>
  <2>1. Begins(y, h)
    BY <1>5, <1>7, Zenon
  <2> QED
    BY <2>1 DEF Begins
<1>12. y = <<>> \/ sendBuffer = <<>>
  <2>1. ~prefaceSent /\ ~broken => sendBuffer = <<>>
    BY Zenon DEF PrefaceInv
  <2> QED
    BY <1>2, <1>5, <1>7, <1>11, <2>1, Zenon
<1>13. ~prefaceSent' => ~prefaceSent /\ y = <<>> /\ broken'
  <2>1. ~prefaceSent' => ~prefaceSent /\ broken'
    BY <1>1, Zenon
  <2>2. ~prefaceSent => Len(h) = 1
    <3>1. Len(<<Preface>>) = 1
      OBVIOUS
    <3> QED
      BY <1>2, <1>7, <3>1, Zenon
  <2>3. broken' /\ ~broken /\ ~prefaceSent => Len(y) < 1
    BY <1>5, <1>7, <2>2, Zenon
  <2>4. Len(y) < 1 => y = <<>>
    OBVIOUS
  <2> QED
    BY <1>5, <2>1, <2>3, <2>4, Zenon
<1>14. ~prefaceSent => x # <<>> /\ x[1] = Preface
  <2> SUFFICES ASSUME ~prefaceSent PROVE x # <<>> /\ x[1] = Preface
    OBVIOUS
  <2>1. h # <<>> /\ h[1] = Preface
    BY <1>2, <1>7, GreetingFrames, Zenon
  <2> QED
    BY <1>8, <2>1, PlacesIn
<1>15. \A i \in 1..Len(y) : y[i] = Preface => i = 1 /\ ~prefaceSent
  <2>1. ASSUME NEW i \in 1..Len(y) PROVE i = 1 /\ ~prefaceSent
    <3>0. Begins(y, h)
      BY <1>5, <1>7, Zenon
    <3>1. Len(y) <= Len(h) /\ Len(h) \in Nat /\ Len(y) \in Nat
      BY <3>0 DEF Begins
    <3>2. (prefaceSent => Len(h) = 0) /\ (~prefaceSent => Len(h) = 1)
      <4>1. Len(<<>>) = 0
        OBVIOUS
      <4> QED
        BY <1>2, <1>7, <4>1, GreetingFrames, Zenon
    <3>3. Len(h) # 0 /\ (Len(h) = 1 => i = 1)
      <4>1. PICK a \in Nat, c \in Nat : a = Len(y) /\ c = Len(h)
        BY <3>1, Zenon
      <4>2. a <= c /\ i \in 1..a
        BY <3>1, <4>1, Zenon
      <4>3. c # 0 /\ (c = 1 => i = 1)
        BY <4>2
      <4> QED
        BY <4>1, <4>3, Zenon
    <3> QED
      BY <3>2, <3>3, Zenon
  <2> QED
    BY <2>1, Zenon
<1>16. ~broken' => x = y \o z
  BY <1>5, <1>7, <1>8, Zenon
<1>17. \A i \in 1..Len(z) : z[i] # Preface
  BY <1>3, <1>6, Zenon
<1>18. HandsOver(x, y, z)
  <2>1. sendBuffer' = sendBuffer \o z
    BY <1>1, <1>6, Zenon
  <2> QED
    BY <1>5, <1>9, <1>10, <1>12, <1>13, <1>14, <1>15, <1>16, <1>17, <2>1, Zenon DEF HandsOver
<1>19. Outstanding(y) = 0 /\ Outstanding(z) = Outstanding(slices) /\ Outstanding(slices) \in Nat
  <2>1. Outstanding(y) \in Nat /\ Outstanding(slices) \in Nat
    BY OutConcat
  <2>2. Outstanding(z) = Outstanding(slices)
    BY <1>3, <1>6, Zenon
  <2> QED
    BY <1>2, <1>5, <2>1, <2>2
<1>20. Outstanding(y) <= Outstanding(slices) /\ Outstanding(y) + Outstanding(z) = Outstanding(slices)
  BY <1>19
<1>21. SendsFor(slices)
  BY <1>18, <1>20, Zenon DEF SendsFor
<1>22. prefaceSent' \in BOOLEAN
  BY <1>1, <1>4, <1>5, Zenon
<1> QED
  BY <1>1, <1>5, <1>21, <1>22, Zenon

\* Without buffering everything goes out, the greeting first.
LEMMA UnbufferedSend ==
  ASSUME TypeOK, FramesOK, OrderInv, PrefaceInv,
         NEW slices \in Seq(OutFrames), \A i \in 1..Len(slices) : slices[i] # Preface,
         ~buffered, Send(slices)
  PROVE  /\ broken' \in BOOLEAN /\ prefaceSent' \in BOOLEAN /\ buffered' = buffered
         /\ SendsFor(slices)
<1> DEFINE gs == <<Preface, Settings>> \o slices
           all == IF prefaceSent THEN slices ELSE gs
<1>1. /\ Transmit(all)
      /\ issued' = issued \o all
      /\ prefaceSent' = (prefaceSent \/ Len(wire') > Len(wire))
      /\ sendBuffer' = sendBuffer
      /\ buffered' = buffered
  BY Zenon DEF Send
<1>2. PICK g \in Seq(OutFrames) :
         /\ g = <<Preface, Settings>> /\ Outstanding(g) = 0
         /\ Len(g) = 2 /\ g[1] = Preface /\ g[2] = Settings /\ g # <<>>
  <2>1. /\ Len(<<Preface, Settings>>) = 2 /\ <<Preface, Settings>>[1] = Preface
        /\ <<Preface, Settings>>[2] = Settings /\ <<Preface, Settings>> # <<>>
    OBVIOUS
  <2> QED
    BY <2>1, GreetingFrames, Zenon
<1>3. gs = g \o slices
  BY <1>2, Zenon
<1>4. gs \in Seq(OutFrames) /\ Outstanding(gs) = Outstanding(slices) /\ Outstanding(slices) \in Nat
  <2>1. /\ g \o slices \in Seq(OutFrames) /\ Outstanding(slices) \in Nat
        /\ Outstanding(g \o slices) = Outstanding(g) + Outstanding(slices)
    BY OutConcat
  <2>2. Outstanding(g \o slices) = Outstanding(slices)
    BY <1>2, <2>1
  <2> QED
    BY <1>3, <2>1, <2>2, Zenon
<1>5. gs # <<>> /\ gs[1] = Preface
  <2>1. g \o slices # <<>> /\ (g \o slices)[1] = g[1]
    BY <1>2, PlacesIn
  <2> QED
    BY <1>2, <1>3, <2>1, Zenon
<1>6. \A i \in 1..Len(gs) : gs[i] = Preface => i = 1
  <2>1. \A i \in 1..Len(g) : g[i] = Preface => i = 1
    <3>1. \A i \in 1..2 : i = 1 \/ i = 2
      OBVIOUS
    <3> QED
      BY <1>2, <3>1, GreetingFrames, Zenon
  <2>2. \A i \in 1..Len(g \o slices) : (g \o slices)[i] = Preface => i = 1
    BY <2>1, PlacesIn
  <2> QED
    BY <1>3, <2>2, Zenon
<1> HIDE DEF gs
<1>7. PICK x \in Seq(OutFrames) :
        /\ x = all /\ Outstanding(x) = Outstanding(slices)
        /\ prefaceSent => x = slices
        /\ ~prefaceSent => x = gs
  BY <1>4, Zenon
<1> HIDE DEF all
<1>8. broken \in BOOLEAN /\ prefaceSent \in BOOLEAN
  BY DEF TypeOK
<1>9. PICK y \in Seq(OutFrames) :
           /\ wire' = wire \o y /\ broken' \in BOOLEAN
           /\ Begins(y, x)
           /\ broken => broken' /\ y = <<>>
           /\ ~broken' => y = x
           /\ Outstanding(y) <= Outstanding(x)
  <2>1. Transmit(x)
    BY <1>1, <1>7, Zenon
  <2> QED
    BY <1>8, <2>1, TransmitFacts, Zenon
<1>10. PICK z \in Seq(OutFrames) : z = <<>>
  <2>1. <<>> \in Seq(OutFrames)
    OBVIOUS
  <2> QED
    BY <2>1, Zenon
<1>11. sendBuffer' = sendBuffer \o z /\ (~broken' => x = y \o z)
  <2>1. PICK b \in Seq(OutFrames) : b = sendBuffer
    BY DEF FramesOK
  <2>2. b \o <<>> = b /\ y \o <<>> = y
    BY ConcatEmptySeq
  <2> QED
    BY <1>1, <1>9, <1>10, <2>1, <2>2, Zenon
<1>12. y = <<>> \/ sendBuffer = <<>>
  <2>1. ~broken /\ ~buffered => sendBuffer = <<>>
    BY Zenon DEF OrderInv
  <2> QED
    BY <1>9, <2>1, Zenon
<1>13. ~prefaceSent' => ~prefaceSent /\ y = <<>> /\ broken'
  <2>1. PICK w \in Seq(OutFrames) : w = wire
    BY DEF FramesOK
  <2>2. ~ (Len(w \o y) > Len(w)) => y = <<>>
    <3>1. Len(w \o y) = Len(w) + Len(y)
      BY ConcatProperties
    <3> QED
      BY <3>1
  <2>3. ~prefaceSent' => ~prefaceSent /\ y = <<>>
    BY <1>1, <1>9, <2>1, <2>2, Zenon
  <2> QED
    BY <1>5, <1>7, <1>9, <2>3, Zenon
<1>14. ~prefaceSent => x # <<>> /\ x[1] = Preface
  BY <1>5, <1>7, Zenon
<1>15. \A i \in 1..Len(y) : y[i] = Preface => i = 1 /\ ~prefaceSent
  <2>1. \A i \in 1..Len(x) : x[i] = Preface => i = 1 /\ ~prefaceSent
    BY <1>6, <1>7, Zenon
  <2>2. ASSUME NEW i \in 1..Len(y) PROVE i \in 1..Len(x) /\ y[i] = x[i]
    BY <1>9 DEF Begins
  <2> QED
    BY <2>1, <2>2, Zenon
<1>16. \A i \in 1..Len(z) : z[i] # Preface
  BY <1>10
<1>17. HandsOver(x, y, z)
  <2>1. issued' = issued \o x
    BY <1>1, <1>7, Zenon
  <2> QED
    BY <1>9, <1>10, <1>11, <1>12, <1>13, <1>14, <1>15, <1>16, <2>1, Zenon DEF HandsOver
<1>18. Outstanding(y) <= Outstanding(slices)
       /\ (~broken' => Outstanding(y) + Outstanding(z) = Outstanding(slices))
  <2>1. Outstanding(z) = 0 /\ (~broken' => Outstanding(y) = Outstanding(slices))
        /\ Outstanding(y) <= Outstanding(slices)
    BY <1>7, <1>9, <1>10, OctetsEmpty, Zenon
  <2>2. Outstanding(slices) + 0 = Outstanding(slices)
    BY <1>4
  <2> QED
    BY <2>1, <2>2, Zenon
<1>19. SendsFor(slices)
  BY <1>17, <1>18, Zenon DEF SendsFor
<1>20. prefaceSent' \in BOOLEAN
  BY <1>1, <1>8, Zenon
<1> QED
  BY <1>1, <1>9, <1>19, <1>20, Zenon

\* What a call that carries n octets of DATA does to the frames under way and
\* to the octets among them.
Carries(n) ==
  /\ wire' \in Seq(OutFrames) /\ sendBuffer' \in Seq(OutFrames) /\ issued' \in Seq(OutFrames)
  /\ broken' \in BOOLEAN /\ prefaceSent' \in BOOLEAN
  /\ OrderInv' /\ PrefaceInv'
  /\ Outstanding(wire') \in Nat /\ Outstanding(sendBuffer') \in Nat
  /\ ~broken => Outstanding(wire') <= Outstanding(wire) + Outstanding(sendBuffer) + n
  /\ broken => broken' /\ Outstanding(wire') = Outstanding(wire)
  /\ ~broken' => Outstanding(wire') + Outstanding(sendBuffer')
                   = Outstanding(wire) + Outstanding(sendBuffer) + n

\* One call of Send.
LEMMA SendStep ==
  ASSUME TypeOK, FramesOK, OrderInv, PrefaceInv,
         NEW slices \in Seq(OutFrames), \A i \in 1..Len(slices) : slices[i] # Preface,
         Send(slices), greeted' = greeted
  PROVE  Carries(Outstanding(slices)) /\ buffered' = buffered
<1>1. broken' \in BOOLEAN /\ prefaceSent' \in BOOLEAN /\ buffered' = buffered /\ SendsFor(slices)
  BY BufferedSend, UnbufferedSend, Zenon
<1>2. PICK x \in Seq(OutFrames), y \in Seq(OutFrames), z \in Seq(OutFrames) :
        /\ HandsOver(x, y, z)
        /\ Outstanding(y) <= Outstanding(slices)
        /\ ~broken' => Outstanding(y) + Outstanding(z) = Outstanding(slices)
  BY <1>1, Zenon DEF SendsFor
<1>3. /\ wire' \in Seq(OutFrames) /\ sendBuffer' \in Seq(OutFrames) /\ issued' \in Seq(OutFrames)
      /\ OrderInv' /\ PrefaceInv'
  BY <1>1, <1>2, OrderStep, Zenon
<1>4. PICK w \in Seq(OutFrames), b \in Seq(OutFrames) : w = wire /\ b = sendBuffer
  BY DEF FramesOK
<1>5. wire' = w \o y /\ sendBuffer' = b \o z /\ (broken => broken' /\ y = <<>>)
  BY <1>2, <1>4, Zenon DEF HandsOver
<1>6. /\ Outstanding(w \o y) = Outstanding(w) + Outstanding(y)
      /\ Outstanding(b \o z) = Outstanding(b) + Outstanding(z)
      /\ Outstanding(w) \in Nat /\ Outstanding(b) \in Nat
      /\ Outstanding(y) \in Nat /\ Outstanding(z) \in Nat /\ Outstanding(slices) \in Nat
  BY OutConcat
<1>7. PICK ow \in Nat, ob \in Nat, oy \in Nat, oz \in Nat, os \in Nat :
        /\ ow = Outstanding(w) /\ ob = Outstanding(b) /\ oy = Outstanding(y)
        /\ oz = Outstanding(z) /\ os = Outstanding(slices)
  BY <1>6, Zenon
<1>8. Outstanding(wire') = ow + oy /\ Outstanding(sendBuffer') = ob + oz
      /\ Outstanding(wire) = ow /\ Outstanding(sendBuffer) = ob
  BY <1>4, <1>5, <1>6, <1>7, Zenon
<1>9. /\ ow + oy \in Nat /\ ob + oz \in Nat
      /\ oy <= os => ow + oy <= ow + ob + os
      /\ oy + oz = os => (ow + oy) + (ob + oz) = ow + ob + os
      /\ oy = 0 => ow + oy = ow
  OBVIOUS
<1>10. oy <= os /\ (~broken' => oy + oz = os) /\ (broken => oy = 0)
  BY <1>2, <1>5, <1>7, OctetsEmpty, Zenon
<1> QED
  BY <1>1, <1>3, <1>5, <1>7, <1>8, <1>9, <1>10, Zenon DEF Carries

\* What is buffered goes out, and the rest is kept when that fails.
LEMMA FlushStep ==
  ASSUME TypeOK, FramesOK, OrderInv, PrefaceInv, FlushBuffer
  PROVE  Carries(0)
<1>1. PICK w \in Seq(OutFrames), b \in Seq(OutFrames), u \in Seq(OutFrames) :
        w = wire /\ b = sendBuffer /\ u = issued
  BY DEF FramesOK
<1>2. /\ Transmit(b)
      /\ sendBuffer' = IF broken' /\ b # <<>> THEN b ELSE <<>>
      /\ prefaceSent' = prefaceSent /\ issued' = u /\ greeted' = greeted
  BY <1>1, Zenon DEF FlushBuffer, server
<1>3. broken \in BOOLEAN /\ prefaceSent \in BOOLEAN
  BY DEF TypeOK
<1>4. PICK y \in Seq(OutFrames) :
           /\ wire' = wire \o y /\ broken' \in BOOLEAN
           /\ Begins(y, b)
           /\ broken => broken' /\ y = <<>>
           /\ ~broken' => y = b
           /\ Outstanding(y) <= Outstanding(b)
  BY <1>2, <1>3, TransmitFacts, Zenon
<1>5. <<>> \in Seq(OutFrames) /\ Len(<<>>) = 0
  OBVIOUS
<1>6. PICK c \in Seq(OutFrames) :
        /\ sendBuffer' = c /\ (c = b \/ c = <<>>) /\ (~broken' => c = <<>>)
  BY <1>2, <1>5, Zenon
<1>7. /\ ~broken => w \o b = u
      /\ ~broken /\ ~buffered => b = <<>>
      /\ Begins(w, u)
  BY <1>1, Zenon DEF OrderInv, Begins
<1>8. /\ w \o y \in Seq(OutFrames) /\ w \o b \in Seq(OutFrames)
      /\ w \o <<>> = w /\ (w \o y) \o <<>> = w \o y
  BY ConcatProperties, ConcatEmptySeq
<1>9. Begins(w \o y, u)
  <2>1. CASE broken
    BY <1>4, <1>7, <1>8, <2>1, Zenon
  <2>2. CASE ~broken
    <3>1. Begins(w, w)
      BY DEF Begins
    <3>2. Begins(w \o y, w \o b)
      BY <1>4, <3>1, PrefixGrows, Zenon
    <3> QED
      BY <1>7, <2>2, <3>2, Zenon
  <2> QED
    BY <2>1, <2>2
<1>10. ~broken' => (w \o y) \o c = u
  BY <1>4, <1>6, <1>7, <1>8, Zenon
<1>11. OrderInv'
  BY <1>1, <1>2, <1>4, <1>6, <1>9, <1>10, Zenon DEF OrderInv, Begins
<1>12. /\ ~prefaceSent => w = <<>> /\ ~greeted
       /\ ~prefaceSent /\ ~broken => b = <<>>
       /\ ~greeted /\ u # <<>> => u[1] = Preface
       /\ ~greeted /\ u = <<>> => ~prefaceSent
       /\ \A i \in 1..Len(w) : w[i] = Preface => i = 1 /\ ~greeted
       /\ \A i \in 1..Len(b) : b[i] # Preface
  BY <1>1, Zenon DEF PrefaceInv
<1>13. \A i \in 1..Len(y) : y[i] # Preface
  <2>1. ASSUME NEW i \in 1..Len(y) PROVE i \in 1..Len(b) /\ y[i] = b[i]
    BY <1>4 DEF Begins
  <2> QED
    BY <1>12, <2>1, Zenon
<1>14. \A i \in 1..Len(w \o y) : (w \o y)[i] = Preface => i = 1 /\ ~greeted
  <2>1. CASE greeted
    <3>1. \A i \in 1..Len(w) : w[i] # Preface
      BY <1>12, <2>1, Zenon
    <3>2. \A i \in 1..Len(w \o y) : (w \o y)[i] # Preface
      BY <1>13, <3>1, PlacesIn
    <3> QED
      BY <3>2, Zenon
  <2>2. CASE ~greeted
    <3>1. \A i \in 1..Len(w) : w[i] = Preface => i = 1
      BY <1>12, Zenon
    <3>2. \A i \in 1..Len(w \o y) : (w \o y)[i] = Preface => i = 1
      BY <1>13, <3>1, PlacesIn
    <3> QED
      BY <2>2, <3>2, Zenon
  <2> QED
    BY <2>1, <2>2
<1>15. ~prefaceSent => w \o y = <<>>
  <2>1. b = <<>> => y = <<>>
    BY <1>4 DEF Begins
  <2>2. ~prefaceSent => y = <<>> /\ w = <<>>
    BY <1>4, <1>12, <2>1, Zenon
  <2> QED
    BY <1>8, <2>2, Zenon
<1>16. \A i \in 1..Len(c) : c[i] # Preface
  <2>1. \A i \in 1..0 : FALSE
    OBVIOUS
  <2> QED
    BY <1>5, <1>6, <1>12, <2>1, Zenon
<1>17. PrefaceInv'
  BY <1>1, <1>2, <1>4, <1>6, <1>12, <1>14, <1>15, <1>16, Zenon DEF PrefaceInv, Preface
<1>18. /\ Outstanding(w \o y) = Outstanding(w) + Outstanding(y)
       /\ Outstanding(w) \in Nat /\ Outstanding(b) \in Nat
       /\ Outstanding(y) \in Nat /\ Outstanding(c) \in Nat
  BY OutConcat
<1>19. PICK ow \in Nat, ob \in Nat, oy \in Nat, oc \in Nat :
        /\ ow = Outstanding(w) /\ ob = Outstanding(b) /\ oy = Outstanding(y) /\ oc = Outstanding(c)
  BY <1>18, Zenon
<1>20. Outstanding(wire') = ow + oy /\ Outstanding(sendBuffer') = oc
      /\ Outstanding(wire) = ow /\ Outstanding(sendBuffer) = ob
  BY <1>1, <1>4, <1>6, <1>18, <1>19, Zenon
<1>21. /\ ow + oy \in Nat
       /\ oy <= ob => ow + oy <= ow + ob + 0
       /\ oy = ob /\ oc = 0 => (ow + oy) + oc = ow + ob + 0
       /\ oy = 0 => ow + oy = ow
  OBVIOUS
<1>22. oy <= ob /\ (~broken' => oy = ob /\ oc = 0) /\ (broken => oy = 0)
  BY <1>4, <1>6, <1>19, OctetsEmpty, Zenon
<1> QED
  BY <1>1, <1>2, <1>3, <1>4, <1>6, <1>8, <1>11, <1>17, <1>19, <1>20, <1>21, <1>22, Zenon DEF Carries

\* What is behind the first element stays behind it.
LEMMA TailFacts ==
  ASSUME NEW w \in Seq(OutFrames), w # <<>>
  PROVE  /\ Tail(w) \in Seq(OutFrames) /\ Len(w) # 0 /\ Len(Tail(w)) = Len(w) - 1
         /\ \A i \in 1..Len(Tail(w)) : i + 1 \in 1..Len(w) /\ Tail(w)[i] = w[i + 1]
OBVIOUS

\* Reading the first of two sequences leaves the second where it is.
LEMMA TailConcat ==
  ASSUME NEW w \in Seq(OutFrames), NEW b \in Seq(OutFrames), w # <<>>
  PROVE  Tail(w) \o b = Tail(w \o b)
<1>1. PICK h \in Seq(OutFrames), t \in Seq(OutFrames) : h = <<Head(w)>> /\ t = Tail(w)
  <2>1. <<Head(w)>> \in Seq(OutFrames) /\ Tail(w) \in Seq(OutFrames)
    OBVIOUS
  <2> QED
    BY <2>1, Zenon
<1>2. w = h \o t
  BY <1>1
<1>3. (h \o t) \o b = h \o (t \o b)
  BY Regroup, Zenon
<1>4. PICK r \in Seq(OutFrames) : r = t \o b
  BY ConcatProperties
<1>5. Tail(h \o r) = r
  <2>1. Len(h) = 1
    BY <1>1
  <2>a. h \o r \in Seq(OutFrames)
    BY ConcatProperties
  <2>b. Len(h \o r) = Len(h) + Len(r)
        /\ \A i \in 1..(Len(h) + Len(r)) : (h \o r)[i] = IF i <= Len(h) THEN h[i] ELSE r[i - Len(h)]
    BY ConcatAt, SMT
  <2>2. h \o r \in Seq(OutFrames) /\ Len(h \o r) = 1 + Len(r)
        /\ \A i \in 1..(1 + Len(r)) : (h \o r)[i] = IF i <= 1 THEN h[i] ELSE r[i - 1]
    BY <2>1, <2>a, <2>b, Zenon
  <2>3. PICK q \in Seq(OutFrames) : q = h \o r
    BY <2>2, Zenon
  <2>4. Len(q) = 1 + Len(r) /\ \A i \in 1..(1 + Len(r)) : q[i] = IF i <= 1 THEN h[i] ELSE r[i - 1]
    BY <2>2, <2>3, Zenon
  <2>5. q # <<>> /\ Tail(q) \in Seq(OutFrames) /\ Len(Tail(q)) = Len(r)
        /\ \A i \in 1..Len(r) : Tail(q)[i] = q[i + 1]
    BY <2>4
  <2>6. \A i \in 1..Len(r) : q[i + 1] = r[i]
    BY <2>4
  <2>7. Tail(q) = r
    BY <2>5, <2>6, SeqEqual
  <2> QED
    BY <2>3, <2>7, Zenon
<1> QED
  BY <1>1, <1>2, <1>3, <1>4, <1>5, Zenon

\* The server reads a frame.
LEMMA ReadStep ==
  ASSUME FramesOK, OrderInv, PrefaceInv, wire # <<>>,
         wire' = Tail(wire), issued' = Tail(issued), greeted' = TRUE,
         UNCHANGED <<prefaceSent, buffered, sendBuffer, broken>>
  PROVE  /\ wire' \in Seq(OutFrames) /\ issued' \in Seq(OutFrames) /\ sendBuffer' \in Seq(OutFrames)
         /\ OrderInv' /\ PrefaceInv'
<1>1. PICK w \in Seq(OutFrames), b \in Seq(OutFrames), u \in Seq(OutFrames) :
        w = wire /\ b = sendBuffer /\ u = issued
  BY DEF FramesOK
<1>2. Len(w) <= Len(u) /\ (\A i \in 1..Len(w) : w[i] = u[i]) /\ w # <<>>
      /\ (~broken => w \o b = u) /\ (~broken /\ ~buffered => b = <<>>)
  BY <1>1, Zenon DEF OrderInv
<1>3. u # <<>>
  BY <1>2
<1>4. PICK t \in Seq(OutFrames), v \in Seq(OutFrames) : t = Tail(w) /\ v = Tail(u)
  BY <1>2, <1>3, TailFacts
<1>5. Len(t) = Len(w) - 1 /\ \A i \in 1..Len(t) : i + 1 \in 1..Len(w) /\ t[i] = w[i + 1]
  BY <1>2, <1>4, TailFacts
<1>6. Len(v) = Len(u) - 1 /\ \A i \in 1..Len(v) : i + 1 \in 1..Len(u) /\ v[i] = u[i + 1]
  BY <1>3, <1>4, TailFacts
<1>7. Len(t) <= Len(v)
  BY <1>2, <1>5, <1>6
<1>8. ASSUME NEW i \in 1..Len(t) PROVE t[i] = v[i]
  <2>1. i \in 1..Len(v)
    BY <1>7
  <2> QED
    BY <1>2, <1>5, <1>6, <2>1
<1>9. ~broken => t \o b = v
  <2>1. Tail(w) \o b = Tail(w \o b)
    BY <1>2, TailConcat
  <2> QED
    BY <1>2, <1>4, <2>1, Zenon
<1>10. OrderInv'
  BY <1>1, <1>2, <1>4, <1>7, <1>8, <1>9, Zenon DEF OrderInv
<1>11. /\ prefaceSent
       /\ \A i \in 1..Len(w) : w[i] = Preface => i = 1 /\ ~greeted
       /\ \A i \in 1..Len(b) : b[i] # Preface
  BY <1>1, <1>2, Zenon DEF PrefaceInv
<1>12. ASSUME NEW i \in 1..Len(t) PROVE t[i] # Preface
  <2>1. i + 1 # 1
    OBVIOUS
  <2> QED
    BY <1>5, <1>11, <2>1
<1>13. PrefaceInv'
  BY <1>1, <1>4, <1>11, <1>12, Zenon DEF PrefaceInv, Preface
<1> QED
  BY <1>1, <1>4, <1>10, <1>13, Zenon

-----------------------------------------------------------------------------
(***************************************************************************)
(* The steps.                                                              *)
(***************************************************************************)

\* What is under way is counted in natural numbers.
LEMMA OctetsAreNat ==
  ASSUME FramesOK
  PROVE  Outstanding(wire) \in Nat /\ Outstanding(sendBuffer) \in Nat /\ Returning(back) \in Nat
<1>1. PICK w \in Seq(OutFrames), b \in Seq(OutFrames), k \in Seq(BackFrames) :
        w = wire /\ b = sendBuffer /\ k = back
  BY DEF FramesOK
<1>2. Outstanding(w) \in Nat /\ Outstanding(b) \in Nat
  BY OutConcat
<1>3. Returning(k) \in Nat
  BY BackConcat
<1> QED
  BY <1>1, <1>2, <1>3, Zenon

\* A call takes its octets off the window and puts them under way.
LEMMA AccountsStep ==
  ASSUME TypeOK, FramesOK, Accounts, NEW n \in Nat, Carries(n),
         sendWindow' = sendWindow - n, Returning(back') = Returning(back),
         recvWindow' = recvWindow, stray' = stray
  PROVE  Accounts'
<1>1. PICK sw \in Nat, rw \in Int, st \in Nat : sw = sendWindow /\ rw = recvWindow /\ st = stray
  BY DEF TypeOK
<1>2. PICK ow \in Nat, ob \in Nat, rb \in Nat :
        ow = Outstanding(wire) /\ ob = Outstanding(sendBuffer) /\ rb = Returning(back)
  BY OctetsAreNat
<1>3. PICK pw \in Nat, pb \in Nat : pw = Outstanding(wire') /\ pb = Outstanding(sendBuffer')
  BY DEF Carries
<1>4. /\ ~broken => pw <= ow + ob + n
      /\ broken => broken' /\ pw = ow
      /\ ~broken' => pw + pb = ow + ob + n
  BY <1>2, <1>3, Zenon DEF Carries
<1>5. /\ sw + ow + rb <= rw + st
      /\ ~broken => sw + ow + rb + ob = rw + st
  BY <1>1, <1>2, Zenon DEF Accounts
<1>6. (sw - n) + pw + rb <= rw + st
  <2>1. CASE broken
    BY <1>4, <1>5, <2>1
  <2>2. CASE ~broken
    BY <1>4, <1>5, <2>2
  <2> QED
    BY <2>1, <2>2
<1>7. ~broken' => (sw - n) + pw + rb + pb = rw + st
  <2> SUFFICES ASSUME ~broken' PROVE (sw - n) + pw + rb + pb = rw + st
    OBVIOUS
  <2>1. ~broken
    BY <1>4, Zenon
  <2>2. pw + pb = ow + ob + n /\ sw + ow + rb + ob = rw + st
    BY <1>4, <1>5, <2>1, Zenon
  <2> QED
    BY <2>2
<1>8. /\ sendWindow' = sw - n /\ Outstanding(wire') = pw /\ Returning(back') = rb
      /\ Outstanding(sendBuffer') = pb /\ recvWindow' = rw /\ stray' = st
  BY <1>1, <1>2, <1>3, Zenon
<1>9. Accounts' = ( /\ sendWindow' + Outstanding(wire') + Returning(back') <= recvWindow' + stray'
                    /\ ~broken' => sendWindow' + Outstanding(wire') + Returning(back') + Outstanding(sendBuffer')
                                     = recvWindow' + stray')
  BY Zenon DEF Accounts, Outstanding, Returning, Connection
<1> QED
  BY <1>6, <1>7, <1>8, <1>9, Zenon

\* SetBufferedMode(true).
LEMMA EnterStep ==
  ASSUME SendPathInv, Enter
  PROVE  SendPathInv'
<1>1. TypeOK /\ FramesOK /\ OrderInv /\ PrefaceInv /\ Accounts
  BY DEF SendPathInv
<1>2. /\ buffered' = TRUE
      /\ prefaceSent' = prefaceSent /\ sendBuffer' = sendBuffer /\ broken' = broken /\ wire' = wire
      /\ issued' = issued /\ UNCHANGED <<client, server, back, history>>
  BY DEF Enter
<1>3. TypeOK'
  BY <1>1, <1>2, Zenon DEF TypeOK, client, server, history
<1>4. FramesOK' /\ OrderInv' /\ PrefaceInv'
  BY <1>1, <1>2, Zenon DEF FramesOK, OrderInv, PrefaceInv, server, Preface, OutFrames, BackFrames, Connection
<1>5. Accounts'
  BY <1>1, <1>2, Zenon DEF Accounts, client, server, history, Outstanding, Returning, Connection
<1> QED
  BY <1>3, <1>4, <1>5, Zenon DEF SendPathInv

\* Flush, and Flush with SetBufferedMode(false).
LEMMA FlushOrLeave ==
  ASSUME SendPathInv, Flush \/ Leave
  PROVE  SendPathInv'
<1>1. TypeOK /\ FramesOK /\ OrderInv /\ PrefaceInv /\ Accounts
  BY DEF SendPathInv
<1>2. FlushBuffer /\ UNCHANGED <<client, server, back, history>> /\ buffered' \in BOOLEAN
  BY <1>1, Zenon DEF Flush, Leave, FlushBuffer, TypeOK
<1>3. Carries(0)
  BY <1>1, <1>2, FlushStep
<1>4. TypeOK'
  BY <1>1, <1>2, <1>3, Zenon DEF TypeOK, Carries, client, server, history
<1>5. FramesOK' /\ OrderInv' /\ PrefaceInv'
  BY <1>1, <1>2, <1>3, Zenon DEF Carries, FramesOK, OutFrames, BackFrames, Connection
<1>6. Accounts'
  <2>1. recvWindow' = recvWindow /\ stray' = stray /\ Returning(back') = Returning(back) /\ sendWindow' = sendWindow
    BY <1>2, Zenon DEF client, server, history
  <2>2. sendWindow' = sendWindow - 0 /\ 0 \in Nat
    BY <1>1, <2>1 DEF TypeOK
  <2> QED
    BY <1>1, <1>3, <2>1, <2>2, AccountsStep
<1> QED
  BY <1>4, <1>5, <1>6, Zenon DEF SendPathInv

\* A call that carries nothing of the window and leaves the other end alone.
LEMMA CarriesNothing ==
  ASSUME SendPathInv, Carries(0), buffered' = buffered, back' \in Seq(BackFrames),
         Returning(back') = Returning(back), sendWindow' = sendWindow, UNCHANGED server,
         opened' \subseteq Streams, ended' \in [Streams -> SUBSET Side], sentGoAway' \in BOOLEAN,
         stray' = stray, calls' \in 0..MaxCalls
  PROVE  SendPathInv'
<1>1. TypeOK /\ FramesOK /\ OrderInv /\ PrefaceInv /\ Accounts
  BY DEF SendPathInv
<1>4. TypeOK'
  BY <1>1, Zenon DEF TypeOK, Carries, server
<1>5. FramesOK' /\ OrderInv' /\ PrefaceInv'
  BY Zenon DEF Carries, FramesOK, OutFrames, BackFrames, Connection
<1>6. Accounts'
  <2>1. recvWindow' = recvWindow
    BY Zenon DEF server
  <2>2. sendWindow' = sendWindow - 0 /\ 0 \in Nat
    BY <1>1 DEF TypeOK
  <2> QED
    BY <1>1, <2>1, <2>2, AccountsStep
<1> QED
  BY <1>4, <1>5, <1>6, Zenon DEF SendPathInv

\* A frame other than DATA, by itself.
LEMMA PlainFrame ==
  ASSUME NEW f \in OutFrames, f.kind # "data", f.kind # "preface"
  PROVE  /\ <<f>> \in Seq(OutFrames) /\ Outstanding(<<f>>) = 0
         /\ \A i \in 1..Len(<<f>>) : <<f>>[i] # Preface
<1>1. f # Preface
  BY DEF Preface
<1>2. <<f>> \in Seq(OutFrames) /\ Outstanding(<<f>>) = 0
  BY OutOne
<1> QED
  BY <1>1, <1>2

\* The sides of a stream.
LEMMA EndingIsSide ==
  ASSUME NEW e \in [Streams -> SUBSET Side], NEW id \in Streams, NEW side \in Side, NEW end \in BOOLEAN
  PROVE  /\ [e EXCEPT ![id] = @ \cup Ending(side, end)] \in [Streams -> SUBSET Side]
         /\ [e EXCEPT ![id] = Ending(side, end)] \in [Streams -> SUBSET Side]
<1>1. Ending(side, end) \in SUBSET Side
  BY DEF Ending
<1> QED
  BY <1>1

\* stream_send_headers.
LEMMA SendHeadersStep ==
  ASSUME SendPathInv, NEW id \in Streams, NEW end \in BOOLEAN, SendHeaders(id, end)
  PROVE  SendPathInv'
<1>1. TypeOK /\ FramesOK /\ OrderInv /\ PrefaceInv /\ Accounts
  BY DEF SendPathInv
<1>2. /\ Send(<<Headers(id, end)>>)
      /\ \/ opened' = opened /\ ended' = ended
         \/ opened' = opened \cup {id} /\ ended' = [ended EXCEPT ![id] = @ \cup Ending("local", end)]
      /\ UNCHANGED <<sendWindow, sentGoAway, server, back, history>>
  BY Zenon DEF SendHeaders
<1>3. /\ Headers(id, end) \in OutFrames
      /\ Headers(id, end).kind # "data" /\ Headers(id, end).kind # "preface"
  BY DEF Headers, OutFrames
<1>4. Carries(0) /\ buffered' = buffered
  <2>1. greeted' = greeted
    BY <1>2, Zenon DEF server
  <2> QED
    BY <1>1, <1>2, <1>3, <2>1, PlainFrame, SendStep
<1>5. opened' \subseteq Streams /\ ended' \in [Streams -> SUBSET Side]
  <2>1. [ended EXCEPT ![id] = @ \cup Ending("local", end)] \in [Streams -> SUBSET Side]
    <3>1. "local" \in Side
      BY DEF Side
    <3> QED
      BY <1>1, <3>1, EndingIsSide, Zenon DEF TypeOK
  <2> QED
    BY <1>1, <1>2, <2>1, Zenon DEF TypeOK
<1>6. sentGoAway' \in BOOLEAN /\ stray' = stray /\ calls' \in 0..MaxCalls
  BY <1>1, <1>2, Zenon DEF TypeOK, history
<1>7. back' \in Seq(BackFrames) /\ Returning(back') = Returning(back)
  BY <1>1, <1>2, Zenon DEF FramesOK
<1> QED
  BY <1>2, <1>4, <1>5, <1>6, <1>7, CarriesNothing, Zenon

\* stream_send_trailing_headers.
LEMMA SendTrailersStep ==
  ASSUME SendPathInv, NEW id \in Streams, SendTrailers(id)
  PROVE  SendPathInv'
<1>1. TypeOK /\ FramesOK /\ OrderInv /\ PrefaceInv /\ Accounts
  BY DEF SendPathInv
<1>2. /\ calls < MaxCalls
      /\ Send(<<Headers(id, TRUE)>>)
      /\ ended' = [ended EXCEPT ![id] = @ \cup {"local"}]
      /\ calls' = calls + 1
      /\ UNCHANGED <<sendWindow, opened, sentGoAway, server, back, stray>>
  BY Zenon DEF SendTrailers, MaySend
<1>3. /\ Headers(id, TRUE) \in OutFrames
      /\ Headers(id, TRUE).kind # "data" /\ Headers(id, TRUE).kind # "preface"
  BY DEF Headers, OutFrames
<1>4. Carries(0) /\ buffered' = buffered
  <2>1. greeted' = greeted
    BY <1>2, Zenon DEF server
  <2> QED
    BY <1>1, <1>2, <1>3, <2>1, PlainFrame, SendStep
<1>5. ended' \in [Streams -> SUBSET Side]
  BY <1>1, <1>2 DEF TypeOK, Side
<1>6. calls' \in 0..MaxCalls
  BY <1>1, <1>2, SendPathAssumption DEF TypeOK
<1>7. opened' \subseteq Streams /\ sentGoAway' \in BOOLEAN /\ stray' = stray
  BY <1>1, <1>2, Zenon DEF TypeOK
<1>8. back' \in Seq(BackFrames) /\ Returning(back') = Returning(back) /\ sendWindow' = sendWindow
      /\ UNCHANGED server
  BY <1>1, <1>2, Zenon DEF FramesOK
<1> QED
  BY <1>4, <1>5, <1>6, <1>7, <1>8, CarriesNothing, Zenon

\* stream_send_data within the window.
LEMMA SendDataStep ==
  ASSUME SendPathInv, NEW id \in Streams, NEW size \in Sizes, NEW end \in BOOLEAN,
         SendData(id, size, end)
  PROVE  SendPathInv'
<1>1. TypeOK /\ FramesOK /\ OrderInv /\ PrefaceInv /\ Accounts
  BY DEF SendPathInv
<1>2. /\ calls < MaxCalls /\ size <= sendWindow
      /\ sendWindow' = sendWindow - size
      /\ Send(Pieces(id, size, end))
      /\ ended' = [ended EXCEPT ![id] = IF broken' /\ ~buffered THEN @ ELSE @ \cup Ending("local", end)]
      /\ calls' = calls + 1
      /\ UNCHANGED <<opened, sentGoAway, server, back, stray>>
  BY Zenon DEF SendData, ChargeAndSend, MaySend
<1>3. size \in Nat
  BY SendPathAssumption
<1>4. Carries(size) /\ buffered' = buffered
  <2>1. greeted' = greeted
    BY <1>2, Zenon DEF server
  <2>2. PICK p \in Seq(OutFrames) : p = Pieces(id, size, end)
    BY <1>3, PiecesCarry
  <2>3. (\A i \in 1..Len(p) : p[i] # Preface) /\ Outstanding(p) = size
    BY <1>3, <2>2, PiecesCarry, Zenon
  <2>4. Send(p)
    BY <1>2, <2>2, Zenon
  <2>5. Carries(Outstanding(p)) /\ buffered' = buffered
    BY <1>1, <2>1, <2>3, <2>4, SendStep, Zenon
  <2> QED
    BY <2>3, <2>5, Zenon
<1>5. ended' \in [Streams -> SUBSET Side]
  <2>1. Ending("local", end) \subseteq Side
    BY DEF Ending, Side
  <2> QED
    BY <1>1, <1>2, <2>1 DEF TypeOK
<1>6. calls' \in 0..MaxCalls /\ sendWindow' \in Nat
  BY <1>1, <1>2, <1>3, SendPathAssumption DEF TypeOK
<1>7. TypeOK'
  BY <1>1, <1>2, <1>4, <1>5, <1>6, Zenon DEF TypeOK, Carries, server
<1>8. FramesOK' /\ OrderInv' /\ PrefaceInv'
  BY <1>1, <1>2, <1>4, Zenon DEF Carries, FramesOK, OutFrames, BackFrames, Connection
<1>9. Accounts'
  <2>1. recvWindow' = recvWindow /\ stray' = stray /\ Returning(back') = Returning(back)
    BY <1>2, Zenon DEF server
  <2> QED
    BY <1>1, <1>2, <1>3, <1>4, <2>1, AccountsStep
<1> QED
  BY <1>7, <1>8, <1>9, Zenon DEF SendPathInv

\* stream_send_data beyond the window.
LEMMA DropDataStep ==
  ASSUME SendPathInv, NEW id \in Streams, NEW size \in Sizes, NEW end \in BOOLEAN,
         DropData(id, size, end)
  PROVE  SendPathInv'
<1>1. TypeOK /\ FramesOK /\ OrderInv /\ PrefaceInv /\ Accounts
  BY DEF SendPathInv
<1>2. /\ calls < MaxCalls
      /\ Send(<<>>)
      /\ ended' = [ended EXCEPT ![id] = @ \cup Ending("local", end)]
      /\ calls' = calls + 1
      /\ UNCHANGED <<sendWindow, opened, sentGoAway, server, back, stray>>
  BY Zenon DEF DropData, MaySend
<1>3. Carries(0) /\ buffered' = buffered
  <2>1. greeted' = greeted
    BY <1>2, Zenon DEF server
  <2>2. PICK p \in Seq(OutFrames) : p = <<>>
    <3>1. <<>> \in Seq(OutFrames)
      OBVIOUS
    <3> QED
      BY <3>1, Zenon
  <2>3. (\A i \in 1..Len(p) : p[i] # Preface) /\ Outstanding(p) = 0
    BY <2>2, OctetsEmpty
  <2>4. Send(p)
    BY <1>2, <2>2, Zenon
  <2>5. Carries(Outstanding(p)) /\ buffered' = buffered
    BY <1>1, <2>1, <2>3, <2>4, SendStep, Zenon
  <2> QED
    BY <2>3, <2>5, Zenon
<1>4. ended' \in [Streams -> SUBSET Side]
  <2>1. Ending("local", end) \subseteq Side
    BY DEF Ending, Side
  <2> QED
    BY <1>1, <1>2, <2>1 DEF TypeOK
<1>5. calls' \in 0..MaxCalls
  BY <1>1, <1>2, SendPathAssumption DEF TypeOK
<1>6. opened' \subseteq Streams /\ sentGoAway' \in BOOLEAN /\ stray' = stray
  BY <1>1, <1>2, Zenon DEF TypeOK
<1>7. back' \in Seq(BackFrames) /\ Returning(back') = Returning(back) /\ sendWindow' = sendWindow
      /\ UNCHANGED server
  BY <1>1, <1>2, Zenon DEF FramesOK
<1> QED
  BY <1>3, <1>4, <1>5, <1>6, <1>7, CarriesNothing, Zenon

\* The client reads a frame that returns nothing to the connection.
LEMMA ClientReadsOther ==
  ASSUME FramesOK, ClientReads("end") \/ ClientReads("reset") \/ ClientReads("goaway")
  PROVE  /\ back' \in Seq(BackFrames) /\ Returning(back') = Returning(back)
         /\ Head(back).kind \in {"end", "reset"} => Head(back).id \in Streams
<1>1. PICK k \in Seq(BackFrames) : k = back
  BY DEF FramesOK
<1>2. k # <<>> /\ Head(k).kind \in {"end", "reset", "goaway"} /\ back' = Tail(k)
  BY <1>1, Zenon DEF ClientReads
<1>3. /\ Head(k) \in BackFrames /\ Tail(k) \in Seq(BackFrames)
      /\ Returning(k) =
           (IF Head(k).kind = "window" /\ Head(k).id = Connection THEN Head(k).inc ELSE 0)
           + Returning(Tail(k))
  BY <1>2, BackTail
<1>4. Head(k).kind # "window"
  BY <1>2
<1>5. Returning(Tail(k)) \in Nat
  BY <1>3, BackConcat
<1>6. Returning(k) = Returning(Tail(k))
  BY <1>3, <1>4, <1>5
<1>7. Head(k).kind \in {"end", "reset"} => Head(k).id \in Streams
  BY <1>3 DEF BackFrames
<1> QED
  BY <1>1, <1>2, <1>3, <1>6, <1>7, Zenon

\* Nothing is handed over.
LEMMA CarriesIdle ==
  ASSUME TypeOK, FramesOK, OrderInv, PrefaceInv, UNCHANGED outgoing, greeted' = greeted
  PROVE  Carries(0) /\ buffered' = buffered
<1>1. Outstanding(wire) \in Nat /\ Outstanding(sendBuffer) \in Nat
  BY OctetsAreNat
<1>2. /\ prefaceSent' = prefaceSent /\ buffered' = buffered /\ sendBuffer' = sendBuffer
      /\ broken' = broken /\ wire' = wire /\ issued' = issued
  BY Zenon DEF outgoing
<1>3. OrderInv' /\ PrefaceInv'
  BY <1>2, Zenon DEF OrderInv, PrefaceInv, Preface
<1>4. /\ wire' \in Seq(OutFrames) /\ sendBuffer' \in Seq(OutFrames) /\ issued' \in Seq(OutFrames)
      /\ broken' \in BOOLEAN /\ prefaceSent' \in BOOLEAN
  BY <1>2, Zenon DEF FramesOK, TypeOK
<1>5. PICK ow \in Nat, ob \in Nat : ow = Outstanding(wire) /\ ob = Outstanding(sendBuffer)
  BY <1>1, Zenon
<1>6. ow <= ow + ob + 0 /\ ow + ob = ow + ob + 0
  OBVIOUS
<1>7. ow = Outstanding(wire') /\ ob = Outstanding(sendBuffer')
  BY <1>2, <1>5, Zenon
<1> QED
  BY <1>2, <1>3, <1>4, <1>5, <1>6, <1>7, Zenon DEF Carries

\* received_data at the client.
LEMMA ReadEndStep ==
  ASSUME SendPathInv, ReadEnd
  PROVE  SendPathInv'
<1>1. TypeOK /\ FramesOK /\ OrderInv /\ PrefaceInv /\ Accounts
  BY DEF SendPathInv
<1>2. ClientReads("end") /\ UNCHANGED <<sendWindow, opened, sentGoAway, server, history>>
  BY DEF ReadEnd
<1>3. PICK id \in Streams : id = Head(back).id
  BY <1>1, <1>2, ClientReadsOther, Zenon DEF ClientReads
<1>4. back' \in Seq(BackFrames) /\ Returning(back') = Returning(back)
  BY <1>1, <1>2, ClientReadsOther, Zenon
<1>5. greeted' = greeted
  BY <1>2, Zenon DEF server
<1>6. Carries(0) /\ buffered' = buffered /\ ended' \in [Streams -> SUBSET Side]
  <2>1. CASE sentGoAway \/ ~Mapped(id)
    <3>1. UNCHANGED <<outgoing, ended>>
      BY <1>3, <2>1, Zenon DEF ReadEnd
    <3>2. ended' \in [Streams -> SUBSET Side]
      BY <1>1, <3>1, Zenon DEF TypeOK
    <3>3. UNCHANGED outgoing
      BY <3>1
    <3>4. Carries(0) /\ buffered' = buffered
      BY <1>1, <1>5, <3>3, CarriesIdle, Zenon
    <3> QED
      BY <3>2, <3>4, Zenon
  <2>2. CASE ~ (sentGoAway \/ ~Mapped(id))
    <3>1. ended' = [ended EXCEPT ![id] = @ \cup {"remote"}] /\ Send(<<Credit(id)>>)
      BY <1>3, <2>2, Zenon DEF ReadEnd
    <3>2. ended' \in [Streams -> SUBSET Side]
      BY <1>1, <3>1 DEF TypeOK, Side
    <3>3. Credit(id) \in OutFrames /\ Credit(id).kind # "data" /\ Credit(id).kind # "preface"
      BY DEF Credit, OutFrames
    <3>4. Carries(0) /\ buffered' = buffered
      BY <1>1, <1>5, <3>1, <3>3, PlainFrame, SendStep
    <3> QED
      BY <3>2, <3>4, Zenon
  <2> QED
    BY <2>1, <2>2, Zenon
<1>7. /\ opened' \subseteq Streams /\ sentGoAway' \in BOOLEAN
      /\ stray' = stray /\ calls' \in 0..MaxCalls
  BY <1>1, <1>2, Zenon DEF TypeOK, history
<1> QED
  BY <1>2, <1>4, <1>6, <1>7, CarriesNothing, Zenon

\* received_rst_stream at the client.
LEMMA ReadResetStep ==
  ASSUME SendPathInv, ReadReset
  PROVE  SendPathInv'
<1>1. TypeOK /\ FramesOK /\ OrderInv /\ PrefaceInv /\ Accounts
  BY DEF SendPathInv
<1>2. ClientReads("reset") /\ UNCHANGED <<sendWindow, opened, server, history>>
  BY DEF ReadReset
<1>3. PICK id \in Streams : id = Head(back).id
  BY <1>1, <1>2, ClientReadsOther, Zenon DEF ClientReads
<1>4. back' \in Seq(BackFrames) /\ Returning(back') = Returning(back)
  BY <1>1, <1>2, ClientReadsOther, Zenon
<1>5. greeted' = greeted
  BY <1>2, Zenon DEF server
<1>6. \/ UNCHANGED outgoing
         /\ (UNCHANGED ended \/ ended' = [ended EXCEPT ![id] = Side]) /\ UNCHANGED sentGoAway
      \/ Send(<<GoAway>>) /\ sentGoAway' = TRUE /\ UNCHANGED ended
  BY <1>3, Zenon DEF ReadReset
<1>7. Carries(0) /\ buffered' = buffered
  <2>1. GoAway \in OutFrames /\ GoAway.kind # "data" /\ GoAway.kind # "preface"
    BY DEF GoAway, OutFrames
  <2>2. Send(<<GoAway>>) => Carries(0) /\ buffered' = buffered
    BY <1>1, <1>5, <2>1, PlainFrame, SendStep
  <2>3. UNCHANGED outgoing => Carries(0) /\ buffered' = buffered
    BY <1>1, <1>5, CarriesIdle, Zenon
  <2> QED
    BY <1>6, <2>2, <2>3, Zenon
<1>8. ended' \in [Streams -> SUBSET Side] /\ sentGoAway' \in BOOLEAN
  <2>1. [ended EXCEPT ![id] = Side] \in [Streams -> SUBSET Side]
    BY <1>1 DEF TypeOK
  <2> QED
    BY <1>1, <1>6, <2>1, Zenon DEF TypeOK
<1>9. /\ opened' \subseteq Streams
      /\ stray' = stray /\ calls' \in 0..MaxCalls
  BY <1>1, <1>2, Zenon DEF TypeOK, history
<1> QED
  BY <1>2, <1>4, <1>7, <1>8, <1>9, CarriesNothing, Zenon

\* received_goaway at the client.
LEMMA ReadGoAwayStep ==
  ASSUME SendPathInv, ReadGoAway
  PROVE  SendPathInv'
<1>1. TypeOK /\ FramesOK /\ OrderInv /\ PrefaceInv /\ Accounts
  BY DEF SendPathInv
<1>2. ClientReads("goaway") /\ UNCHANGED outgoing /\ UNCHANGED client /\ UNCHANGED server /\ UNCHANGED history
  BY DEF ReadGoAway
<1>3. back' \in Seq(BackFrames) /\ Returning(back') = Returning(back)
  BY <1>1, <1>2, ClientReadsOther, Zenon
<1>4. Carries(0) /\ buffered' = buffered
  <2>1. greeted' = greeted
    BY <1>2, Zenon DEF server
  <2> QED
    BY <1>1, <1>2, <2>1, CarriesIdle, Zenon
<1>5. /\ opened' \subseteq Streams /\ ended' \in [Streams -> SUBSET Side] /\ sentGoAway' \in BOOLEAN
      /\ stray' = stray /\ calls' \in 0..MaxCalls /\ sendWindow' = sendWindow
  BY <1>1, <1>2, Zenon DEF TypeOK, client, history
<1> QED
  BY <1>2, <1>3, <1>4, <1>5, CarriesNothing, Zenon

\* received_window_update at the client.
LEMMA ReadWindowUpdateStep ==
  ASSUME SendPathInv, ReadWindowUpdate
  PROVE  SendPathInv'
<1>1. TypeOK /\ FramesOK /\ OrderInv /\ PrefaceInv /\ Accounts
  BY DEF SendPathInv
<1>2. PICK k \in Seq(BackFrames) : k = back
  BY <1>1 DEF FramesOK
<1>3. /\ k # <<>> /\ Head(k).kind = "window" /\ back' = Tail(k)
      /\ UNCHANGED <<outgoing, opened, ended, sentGoAway, server, calls>>
  BY <1>2, Zenon DEF ReadWindowUpdate, ClientReads
<1>4. /\ Head(k) \in BackFrames /\ Tail(k) \in Seq(BackFrames)
      /\ Returning(k) =
           (IF Head(k).kind = "window" /\ Head(k).id = Connection THEN Head(k).inc ELSE 0)
           + Returning(Tail(k))
  BY <1>3, BackTail
<1>5. PICK inc \in Nat : inc = Head(k).inc
  BY <1>3, <1>4 DEF BackFrames
<1>6. PICK gone \in BOOLEAN :
        /\ gone => Head(k).id # Connection
        /\ sendWindow' = IF Head(k).id = Connection \/ gone THEN sendWindow + inc ELSE sendWindow
        /\ stray' = IF gone THEN stray + inc ELSE stray
  BY <1>2, <1>5, Zenon DEF ReadWindowUpdate
<1>7. PICK sw \in Nat, rw \in Int, st \in Nat : sw = sendWindow /\ rw = recvWindow /\ st = stray
  BY <1>1 DEF TypeOK
<1>8. PICK ow \in Nat, ob \in Nat, rt \in Nat :
        ow = Outstanding(wire) /\ ob = Outstanding(sendBuffer) /\ rt = Returning(Tail(k))
  BY <1>1, <1>4, OctetsAreNat, BackConcat
<1>9. \/ Returning(k) = inc + rt /\ sendWindow' = sw + inc /\ stray' = st
      \/ Returning(k) = rt /\ sendWindow' = sw + inc /\ stray' = st + inc
      \/ Returning(k) = rt /\ sendWindow' = sw /\ stray' = st
  <2>1. CASE Head(k).id = Connection
    <3>1. Returning(k) = inc + rt
      BY <1>3, <1>4, <1>5, <1>8, <2>1, Zenon
    <3> QED
      BY <1>6, <1>7, <2>1, <3>1, Zenon
  <2>2. CASE Head(k).id # Connection
    <3>1. Returning(k) = 0 + rt
      BY <1>4, <1>8, <2>2, Zenon
    <3>2. Returning(k) = rt
      BY <3>1
    <3> QED
      BY <1>6, <1>7, <2>2, <3>2, Zenon
  <2> QED
    BY <2>1, <2>2
<1>10. sendWindow' \in Nat /\ stray' \in Nat
  BY <1>9
<1>11. TypeOK'
  BY <1>1, <1>3, <1>10, Zenon DEF TypeOK, outgoing, server
<1>12. Carries(0)
  <2>1. greeted' = greeted /\ UNCHANGED outgoing
    BY <1>3, Zenon DEF server
  <2> QED
    BY <1>1, <2>1, CarriesIdle
<1>13. FramesOK' /\ OrderInv' /\ PrefaceInv'
  BY <1>3, <1>4, <1>12, Zenon DEF Carries, FramesOK, OutFrames, BackFrames, Connection
<1>14. PICK sx \in Nat, sy \in Nat, rk \in Int : sx = sendWindow' /\ sy = stray' /\ rk = Returning(k)
  <2>1. Returning(k) \in Nat
    BY BackConcat
  <2> QED
    BY <1>10, <2>1
<1>15. sx + ow + rt <= rw + sy /\ (~broken => sx + ow + rt + ob = rw + sy)
  <2>1. sw + ow + rk <= rw + st /\ (~broken => sw + ow + rk + ob = rw + st)
    BY <1>1, <1>2, <1>7, <1>8, <1>14, Zenon DEF Accounts
  <2>2. \/ rk = inc + rt /\ sx = sw + inc /\ sy = st
        \/ rk = rt /\ sx = sw + inc /\ sy = st + inc
        \/ rk = rt /\ sx = sw /\ sy = st
    BY <1>9, <1>14, Zenon
  <2> QED
    BY <2>1, <2>2
<1>16. Accounts'
  <2>1. wire' = wire /\ sendBuffer' = sendBuffer /\ broken' = broken /\ recvWindow' = recvWindow
    BY <1>3, Zenon DEF outgoing, server
  <2>2. Outstanding(wire') = ow /\ Outstanding(sendBuffer') = ob /\ Returning(back') = rt /\ recvWindow' = rw
    BY <1>3, <1>7, <1>8, <2>1, Zenon
  <2> QED
    BY <1>14, <1>15, <2>1, <2>2, Zenon DEF Accounts, Outstanding, Returning, Connection
<1> QED
  BY <1>11, <1>13, <1>16, Zenon DEF SendPathInv

\* What the server puts behind what the client has yet to read.
LEMMA AnswersAdd ==
  ASSUME NEW k \in Seq(BackFrames), NEW f \in BackFrames, f.kind # "window"
  PROVE  Append(k, f) \in Seq(BackFrames) /\ Returning(Append(k, f)) = Returning(k)
<1>1. PICK t \in Seq(BackFrames) : t = <<f>> /\ Returning(t) = 0
  BY BackOne
<1>2. Append(k, f) = k \o t
  BY <1>1
<1>3. k \o t \in Seq(BackFrames) /\ Returning(k) \in Nat /\ Returning(k \o t) = Returning(k) + Returning(t)
  BY BackConcat
<1>4. Returning(k \o t) = Returning(k)
  BY <1>1, <1>3
<1> QED
  BY <1>2, <1>3, <1>4, Zenon

\* The server's application ends or resets a stream.
LEMMA ServerAnswersStep ==
  ASSUME SendPathInv, NEW id \in Streams, ServerEnds(id) \/ ServerResets(id)
  PROVE  SendPathInv'
<1>1. TypeOK /\ FramesOK /\ OrderInv /\ PrefaceInv /\ Accounts
  BY DEF SendPathInv
<1>2. /\ UNCHANGED <<outgoing, client, known, recvWindow, greeted, refused, history>>
      /\ resets' \in 0..MaxResets
  <2>1. CASE ServerEnds(id)
    BY <1>1, <2>1, Zenon DEF ServerEnds, TypeOK
  <2>2. CASE ServerResets(id)
    <3>1. resets' \in 0..MaxResets
      BY <1>1, <2>2, SendPathAssumption DEF ServerResets, TypeOK
    <3> QED
      BY <2>2, <3>1, Zenon DEF ServerResets
  <2> QED
    BY <2>1, <2>2
<1>3. peerEnded' \in [Streams -> SUBSET Side]
  <2>1. CASE ServerEnds(id)
    BY <1>1, <2>1 DEF ServerEnds, TypeOK, Side
  <2>2. CASE ServerResets(id)
    BY <1>1, <2>2 DEF ServerResets, TypeOK
  <2> QED
    BY <2>1, <2>2
<1>4. PICK k \in Seq(BackFrames) : k = back
  BY <1>1 DEF FramesOK
<1>5. back' \in Seq(BackFrames) /\ Returning(back') = Returning(back)
  <2>1. /\ EndOf(id) \in BackFrames /\ EndOf(id).kind # "window"
        /\ Reset(id) \in BackFrames /\ Reset(id).kind # "window"
    BY DEF EndOf, Reset, BackFrames
  <2>2. /\ Append(k, EndOf(id)) \in Seq(BackFrames) /\ Returning(Append(k, EndOf(id))) = Returning(k)
        /\ Append(k, Reset(id)) \in Seq(BackFrames) /\ Returning(Append(k, Reset(id))) = Returning(k)
    BY <2>1, AnswersAdd
  <2> QED
    BY <1>4, <2>2, Zenon DEF ServerEnds, ServerResets
<1>6. TypeOK'
  BY <1>1, <1>2, <1>3, Zenon DEF TypeOK, outgoing, client, history
<1>7. Carries(0)
  BY <1>1, <1>2, CarriesIdle, Zenon
<1>8. FramesOK' /\ OrderInv' /\ PrefaceInv'
  BY <1>5, <1>7, Zenon DEF Carries, FramesOK, OutFrames, BackFrames, Connection
<1>9. Accounts'
  <2>1. recvWindow' = recvWindow /\ stray' = stray /\ sendWindow' = sendWindow
    BY <1>2, Zenon DEF client, history
  <2>2. sendWindow' = sendWindow - 0 /\ 0 \in Nat
    BY <1>1, <2>1 DEF TypeOK
  <2> QED
    BY <1>1, <1>5, <1>7, <2>1, <2>2, AccountsStep
<1> QED
  BY <1>6, <1>8, <1>9, Zenon DEF SendPathInv

\* send_goaway at the server.
LEMMA RefuseFacts ==
  ASSUME TypeOK, FramesOK, Refuse
  PROVE  /\ back' \in Seq(BackFrames) /\ Returning(back') = Returning(back)
         /\ refused' \subseteq Streams /\ known' = known /\ peerEnded' = peerEnded
         /\ recvWindow' = recvWindow
<1>1. PICK k \in Seq(BackFrames) : k = back
  BY DEF FramesOK
<1>2. GoAway \in BackFrames /\ GoAway.kind # "window"
  BY DEF GoAway, BackFrames
<1>3. Append(k, GoAway) \in Seq(BackFrames) /\ Returning(Append(k, GoAway)) = Returning(k)
  BY <1>2, AnswersAdd
<1>4. refused' \subseteq Streams
  BY DEF Refuse
<1> QED
  BY <1>1, <1>3, <1>4, Zenon DEF Refuse

\* received_data at the server.
LEMMA ServerReadsDataStep ==
  ASSUME SendPathInv, ServerReadsData
  PROVE  SendPathInv'
<1>1. TypeOK /\ FramesOK /\ OrderInv /\ PrefaceInv /\ Accounts
  BY DEF SendPathInv
<1>2. /\ wire # <<>> /\ Head(wire).kind \in {"data"}
      /\ wire' = Tail(wire) /\ issued' = Tail(issued) /\ greeted' = TRUE
      /\ UNCHANGED <<prefaceSent, buffered, sendBuffer, broken, client, history, resets>>
  BY Zenon DEF ServerReadsData, ServerReads
<1>3. /\ wire' \in Seq(OutFrames) /\ issued' \in Seq(OutFrames) /\ sendBuffer' \in Seq(OutFrames)
      /\ OrderInv' /\ PrefaceInv'
  BY <1>1, <1>2, ReadStep
<1>4. PICK w \in Seq(OutFrames), k \in Seq(BackFrames) : w = wire /\ k = back
  BY <1>1 DEF FramesOK
<1>5. /\ Head(w) \in OutFrames /\ Tail(w) \in Seq(OutFrames)
      /\ Outstanding(w) = (IF Head(w).kind = "data" THEN Head(w).size ELSE 0) + Outstanding(Tail(w))
  BY <1>2, <1>4, OutTail
<1>6. PICK f \in [kind : {"data"}, id : Streams, size : Nat, end : BOOLEAN] : f = Head(w)
  BY <1>2, <1>4, <1>5 DEF OutFrames
<1>7. PICK id \in Streams, size \in Nat : id = f.id /\ size = f.size
  OBVIOUS
<1>8. PICK ot \in Nat, ob \in Nat, rb \in Nat :
        ot = Outstanding(wire') /\ ob = Outstanding(sendBuffer) /\ rb = Returning(back)
  <2>1. Outstanding(Tail(w)) \in Nat
    BY <1>5, OutConcat
  <2> QED
    BY <1>1, <1>2, <1>4, <2>1, OctetsAreNat, Zenon
<1>9. Outstanding(wire) = size + ot
  BY <1>2, <1>4, <1>5, <1>6, <1>7, <1>8, Zenon
<1>10. \/ size = 0 /\ Refuse
       \/ /\ back' = back \o <<WindowUpdate(id, size), WindowUpdate(Connection, size)>>
          /\ peerEnded' = [peerEnded EXCEPT ![id] = @ \cup Ending("remote", f.end)]
          /\ recvWindow' = recvWindow /\ known' = known /\ refused' = refused
       \/ /\ recvWindow' = recvWindow - size /\ back' = back /\ peerEnded' = peerEnded
          /\ known' = known /\ refused' = refused
  BY <1>4, <1>6, <1>7, Zenon DEF ServerReadsData
<1>11. peerEnded' \in [Streams -> SUBSET Side] /\ known' \subseteq Streams /\ refused' \subseteq Streams
  <2>1. PICK e \in BOOLEAN : e = f.end
    OBVIOUS
  <2>2. "remote" \in Side
    BY DEF Side
  <2>3. [peerEnded EXCEPT ![id] = @ \cup Ending("remote", e)] \in [Streams -> SUBSET Side]
    BY <1>1, <2>2, EndingIsSide, Zenon DEF TypeOK
  <2> QED
    BY <1>1, <1>10, <2>1, <2>3, RefuseFacts, Zenon DEF TypeOK
<1>12. recvWindow' \in Int
  <2>1. recvWindow' = recvWindow \/ recvWindow' = recvWindow - size
    BY <1>1, <1>10, RefuseFacts, Zenon
  <2> QED
    BY <1>1, <2>1 DEF TypeOK
<1>13. TypeOK'
  BY <1>1, <1>2, <1>11, <1>12, Zenon DEF TypeOK, client, history
<1>14. PICK t \in Seq(BackFrames) :
         t = <<WindowUpdate(id, size), WindowUpdate(Connection, size)>> /\ Returning(t) = size
  <2>1. PICK p \in Seq(BackFrames) : p = <<WindowUpdate(id, size)>> /\ Returning(p) = 0
    <3>1. WindowUpdate(id, size) \in BackFrames /\ WindowUpdate(id, size).id # Connection
      BY SendPathAssumption DEF WindowUpdate, BackFrames, Connection
    <3> QED
      BY <3>1, BackOne
  <2>2. PICK q \in Seq(BackFrames) : q = <<WindowUpdate(Connection, size)>> /\ Returning(q) = size
    <3>1. /\ WindowUpdate(Connection, size) \in BackFrames
          /\ WindowUpdate(Connection, size).kind = "window"
          /\ WindowUpdate(Connection, size).id = Connection
          /\ WindowUpdate(Connection, size).inc = size
      BY DEF WindowUpdate, BackFrames
    <3> QED
      BY <3>1, BackOne
  <2>3. p \o q \in Seq(BackFrames) /\ Returning(p \o q) = Returning(p) + Returning(q)
    BY BackConcat
  <2>4. Returning(p \o q) = size
    BY <2>1, <2>2, <2>3
  <2>5. PICK r \in Seq(BackFrames) : r = p \o q /\ Returning(r) = size
    BY <2>3, <2>4, Zenon
  <2>6. Len(p) = 1 /\ p[1] = WindowUpdate(id, size) /\ Len(q) = 1 /\ q[1] = WindowUpdate(Connection, size)
    BY <2>1, <2>2
  <2>7. Len(p \o q) = 2 /\ (p \o q)[1] = WindowUpdate(id, size) /\ (p \o q)[2] = WindowUpdate(Connection, size)
    <3>1. Len(p \o q) = Len(p) + Len(q)
          /\ \A i \in 1..(Len(p) + Len(q)) : (p \o q)[i] = IF i <= Len(p) THEN p[i] ELSE q[i - Len(p)]
      BY ConcatAt, SMT
    <3> HIDE DEF WindowUpdate
    <3> QED
      BY <2>6, <3>1
  <2>8. Len(r) = 2 /\ r[1] = WindowUpdate(id, size) /\ r[2] = WindowUpdate(Connection, size)
    BY <2>5, <2>7, Zenon
  <2>9. r = [i \in 1..2 |-> r[i]]
    BY <2>8
  <2>10. r = <<WindowUpdate(id, size), WindowUpdate(Connection, size)>>
    BY <2>8, <2>9
  <2> QED
    BY <2>5, <2>10, Zenon
<1>15. k \o t \in Seq(BackFrames) /\ Returning(k \o t) = Returning(k) + Returning(t)
  BY BackConcat
<1>16. back' \in Seq(BackFrames)
  BY <1>1, <1>4, <1>10, <1>14, <1>15, RefuseFacts, Zenon
<1>17. \/ Returning(back') = rb + size /\ recvWindow' = recvWindow
       \/ Returning(back') = rb /\ recvWindow' = recvWindow - size
  <2>1. CASE size = 0 /\ Refuse
    <3>1. Returning(back') = rb /\ recvWindow' = recvWindow
      BY <1>1, <1>8, <2>1, RefuseFacts, Zenon
    <3>2. rb = rb + size
      BY <2>1
    <3> QED
      BY <3>1, <3>2, Zenon
  <2> QED
    BY <1>4, <1>8, <1>10, <1>14, <1>15, <2>1, Zenon
<1>18. FramesOK'
  BY <1>3, <1>16, Zenon DEF FramesOK, OutFrames, BackFrames, Connection
<1>19. PICK sw \in Nat, rw \in Int, st \in Nat : sw = sendWindow /\ rw = recvWindow /\ st = stray
  BY <1>1 DEF TypeOK
<1>20. PICK pr \in Int, pw \in Int : pr = Returning(back') /\ pw = recvWindow'
  BY <1>17, <1>19
<1>21. sw + ot + pr <= pw + st /\ (~broken => sw + ot + pr + ob = pw + st)
  <2>1. sw + (size + ot) + rb <= rw + st /\ (~broken => sw + (size + ot) + rb + ob = rw + st)
    BY <1>1, <1>8, <1>9, <1>19, Zenon DEF Accounts
  <2>2. (pr = rb + size /\ pw = rw) \/ (pr = rb /\ pw = rw - size)
    BY <1>17, <1>19, <1>20, Zenon
  <2> QED
    BY <2>1, <2>2
<1>22. Accounts'
  <2>1. sendBuffer' = sendBuffer /\ broken' = broken /\ sendWindow' = sw /\ stray' = st
    BY <1>2, <1>19, Zenon DEF client, history
  <2>2. Outstanding(sendBuffer') = ob
    BY <1>8, <2>1, Zenon
  <2> QED
    BY <1>8, <1>20, <1>21, <2>1, <2>2, Zenon DEF Accounts, Outstanding, Returning, Connection
<1> QED
  BY <1>3, <1>13, <1>18, <1>22, Zenon DEF SendPathInv

\* The server reads HEADERS, or something that touches nothing modelled here.
LEMMA ServerReadsPlainStep ==
  ASSUME SendPathInv, ServerReadsHeaders \/ ServerReadsOther
  PROVE  SendPathInv'
<1>1. TypeOK /\ FramesOK /\ OrderInv /\ PrefaceInv /\ Accounts
  BY DEF SendPathInv
<1>2. /\ wire # <<>> /\ Head(wire).kind \in {"headers", "preface", "settings", "credit", "goaway"}
      /\ wire' = Tail(wire) /\ issued' = Tail(issued) /\ greeted' = TRUE
      /\ UNCHANGED <<prefaceSent, buffered, sendBuffer, broken, client, history, resets>>
  BY Zenon DEF ServerReadsHeaders, ServerReadsOther, ServerReads
<1>3. /\ wire' \in Seq(OutFrames) /\ issued' \in Seq(OutFrames) /\ sendBuffer' \in Seq(OutFrames)
      /\ OrderInv' /\ PrefaceInv'
  BY <1>1, <1>2, ReadStep
<1>4. PICK w \in Seq(OutFrames) : w = wire
  BY <1>1 DEF FramesOK
<1>5. /\ Head(w) \in OutFrames /\ Tail(w) \in Seq(OutFrames) /\ Head(w).kind # "data"
      /\ Outstanding(w) = (IF Head(w).kind = "data" THEN Head(w).size ELSE 0) + Outstanding(Tail(w))
  BY <1>2, <1>4, OutTail
<1>6. Outstanding(Tail(w)) \in Nat
  BY <1>5, OutConcat
<1>7. Outstanding(w) = Outstanding(Tail(w))
  BY <1>5, <1>6
<1>8. Outstanding(wire') = Outstanding(wire)
  BY <1>2, <1>4, <1>7, Zenon
<1>9. /\ back' \in Seq(BackFrames) /\ Returning(back') = Returning(back) /\ recvWindow' = recvWindow
      /\ known' \subseteq Streams /\ refused' \subseteq Streams /\ peerEnded' \in [Streams -> SUBSET Side]
  <2>1. CASE UNCHANGED <<back, known, peerEnded, recvWindow, refused>>
    BY <1>1, <2>1, Zenon DEF TypeOK, FramesOK
  <2>2. CASE Refuse
    BY <1>1, <2>2, RefuseFacts, Zenon DEF TypeOK
  <2>3. CASE /\ Head(w).kind = "headers"
             /\ known' = known \cup {Head(w).id}
             /\ peerEnded' = [peerEnded EXCEPT ![Head(w).id] = Ending("remote", Head(w).end)]
             /\ UNCHANGED <<back, recvWindow, refused>>
    <3>1. PICK id \in Streams, e \in BOOLEAN : id = Head(w).id /\ e = Head(w).end
      BY <1>5, <2>3 DEF OutFrames
    <3>2. "remote" \in Side
      BY DEF Side
    <3>3. [peerEnded EXCEPT ![id] = Ending("remote", e)] \in [Streams -> SUBSET Side]
      BY <1>1, <3>2, EndingIsSide, Zenon DEF TypeOK
    <3>4. peerEnded' \in [Streams -> SUBSET Side]
      BY <2>3, <3>1, <3>3, Zenon
    <3>5. known' \subseteq Streams
      BY <1>1, <2>3, <3>1, Zenon DEF TypeOK
    <3> QED
      BY <1>1, <2>3, <3>4, <3>5, Zenon DEF TypeOK, FramesOK
  <2>4. CASE ServerReadsOther
    BY <2>1, <2>4, Zenon DEF ServerReadsOther
  <2>5. CASE ServerReadsHeaders
    <3>1. Head(w).kind = "headers"
      BY <1>4, <2>5 DEF ServerReadsHeaders, ServerReads
    <3> QED
      BY <1>4, <2>1, <2>2, <2>3, <2>5, <3>1, Zenon DEF ServerReadsHeaders
  <2> QED
    BY <2>4, <2>5
<1>10. TypeOK'
  <2>1. recvWindow' \in Int
    BY <1>1, <1>9, Zenon DEF TypeOK
  <2> QED
    BY <1>1, <1>2, <1>9, <2>1, Zenon DEF TypeOK, client, history
<1>11. FramesOK'
  BY <1>3, <1>9, Zenon DEF FramesOK, OutFrames, BackFrames, Connection
<1>12. Accounts'
  <2>1. /\ sendBuffer' = sendBuffer /\ broken' = broken /\ sendWindow' = sendWindow
        /\ stray' = stray /\ recvWindow' = recvWindow
    BY <1>2, <1>9, Zenon DEF client, history
  <2>2. Outstanding(sendBuffer') = Outstanding(sendBuffer) /\ Returning(back') = Returning(back)
    BY <1>9, <2>1, Zenon
  <2> QED
    BY <1>1, <1>8, <2>1, <2>2, Zenon DEF Accounts, Outstanding, Returning, Connection
<1> QED
  BY <1>3, <1>10, <1>11, <1>12, Zenon DEF SendPathInv

\* Initially nothing is under way.
LEMMA InitInv == Init => SendPathInv
<1> SUFFICES ASSUME Init PROVE SendPathInv
  OBVIOUS
<1>1. TypeOK
  <2>1. 0 \in 0..MaxCalls /\ 0 \in 0..MaxResets /\ InitialWindow \in Nat /\ InitialWindow \in Int /\ 0 \in Nat
    BY SendPathAssumption
  <2>2. [id \in Streams |-> {}] \in [Streams -> SUBSET Side] /\ {} \subseteq Streams
    OBVIOUS
  <2> QED
    BY <2>1, <2>2, Zenon DEF Init, TypeOK
<1>2. FramesOK
  BY DEF Init, FramesOK
<1>3. OrderInv
  BY DEF Init, OrderInv
<1>4. PrefaceInv
  BY DEF Init, PrefaceInv
<1>5. Accounts
  BY OctetsEmpty, SendPathAssumption DEF Init, Accounts
<1> QED
  BY <1>1, <1>2, <1>3, <1>4, <1>5 DEF SendPathInv

\* Every step keeps the invariant.
LEMMA NextInv == SendPathInv /\ [Next]_vars => SendPathInv'
<1> SUFFICES ASSUME SendPathInv, [Next]_vars PROVE SendPathInv'
  OBVIOUS
<1>1. CASE Enter
  BY <1>1, EnterStep
<1>2. CASE Flush \/ Leave
  BY <1>2, FlushOrLeave
<1>3. ASSUME NEW id \in Streams, NEW end \in BOOLEAN, SendHeaders(id, end) PROVE SendPathInv'
  BY <1>3, SendHeadersStep
<1>4. ASSUME NEW id \in Streams, NEW size \in Sizes, NEW end \in BOOLEAN,
             SendData(id, size, end) \/ DropData(id, size, end)
      PROVE  SendPathInv'
  BY <1>4, SendDataStep, DropDataStep
<1>5. CASE ServerReadsData
  BY <1>5, ServerReadsDataStep
<1>6. CASE ServerReadsHeaders \/ ServerReadsOther
  BY <1>6, ServerReadsPlainStep
<1>7. ASSUME NEW id \in Streams, ServerEnds(id) \/ ServerResets(id) PROVE SendPathInv'
  BY <1>7, ServerAnswersStep
<1>8. CASE ReadWindowUpdate
  BY <1>8, ReadWindowUpdateStep
<1>9. CASE ReadEnd
  BY <1>9, ReadEndStep
<1>10. CASE ReadReset
  BY <1>10, ReadResetStep
<1>11. ASSUME NEW id \in Streams, SendTrailers(id) PROVE SendPathInv'
  BY <1>11, SendTrailersStep
<1>12. CASE ReadGoAway
  BY <1>12, ReadGoAwayStep
<1>13. CASE UNCHANGED vars
  <2>1. UNCHANGED <<outgoing, client, server, history, back>>
    BY <1>13 DEF vars
  <2>2. TypeOK' /\ FramesOK'
    BY <2>1, Zenon DEF SendPathInv, TypeOK, FramesOK, OutFrames, BackFrames, Connection,
                       outgoing, client, server, history
  <2>3. OrderInv' /\ PrefaceInv'
    BY <2>1, Zenon DEF SendPathInv, OrderInv, PrefaceInv, Preface, outgoing, server
  <2>4. Accounts'
    BY <2>1, Zenon DEF SendPathInv, Accounts, Outstanding, Returning, Connection,
                       outgoing, client, server, history
  <2> QED
    BY <2>2, <2>3, <2>4, Zenon DEF SendPathInv
<1> QED
  BY <1>1, <1>2, <1>3, <1>4, <1>5, <1>6, <1>7, <1>8, <1>9, <1>10, <1>11, <1>12, <1>13, Zenon DEF Next

-----------------------------------------------------------------------------
\* The frames under way are in order, the preface is at their front and the
\* books of the window balance, in every state a client can reach.
THEOREM SendPathInvariant == Spec => []SendPathInv
<1>1. Init => SendPathInv
  BY InitInv
<1>2. SendPathInv /\ [Next]_vars => SendPathInv'
  BY NextInv
<1> QED
  BY <1>1, <1>2, PTL DEF Spec

\* Both ends keep the same books of the connection's window, as
\* connection_send_window is charged and credited, and it is never negative.
THEOREM WindowIsAccounted == Spec => []WindowAccounts
<1>1. SendPathInv => WindowAccounts
  BY Zenon DEF SendPathInv, WindowAccounts, Accounts
<1> QED
  BY <1>1, SendPathInvariant, PTL

\* What send_raw_data and flush_buffer put on the wire is what was issued, in
\* order and once each, behind one preface.
THEOREM FramesStayInOrder == Spec => []InOrder
<1>1. SendPathInv => InOrder
  <2> SUFFICES ASSUME SendPathInv PROVE InOrder
    OBVIOUS
  <2>1. PICK w \in Seq(OutFrames), u \in Seq(OutFrames) : w = wire /\ u = issued
    BY DEF SendPathInv, FramesOK
  <2>2. /\ Len(w) <= Len(u) /\ \A i \in 1..Len(w) : w[i] = u[i]
        /\ ~broken => wire \o sendBuffer = issued
    BY <2>1, Zenon DEF SendPathInv, OrderInv
  <2>3. /\ ~greeted /\ u # <<>> => u[1] = Preface
        /\ \A i \in 1..Len(w) : w[i] = Preface => i = 1 /\ ~greeted
    BY <2>1, Zenon DEF SendPathInv, PrefaceInv
  <2>4. IsPrefix(w, u)
    BY <2>2 DEF IsPrefix
  <2>5. u # <<>> => Head(u) = u[1]
    OBVIOUS
  <2>6. greeted => ~Contains(w, Preface)
    BY <2>3 DEF Contains
  <2> QED
    BY <2>1, <2>2, <2>3, <2>4, <2>5, <2>6, Zenon DEF InOrder
<1> QED
  BY <1>1, SendPathInvariant, PTL

=============================================================================
