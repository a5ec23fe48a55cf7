---------------------------- MODULE TotalsProofs ----------------------------
(***************************************************************************)
(* Totals of sequences of integers: that the recursive function of Totals  *)
(* is there and unique, by induction over the natural numbers, and from    *)
(* that what concatenating, appending and dropping do to a total.          *)
(*                                                                         *)
(* Induction is stated with sets, as it follows from the well-foundedness  *)
(* of the natural numbers: a set of natural numbers that is not empty has  *)
(* a least element.                                                        *)
(***************************************************************************)
EXTENDS Totals, SequenceTheorems, WellFoundedInduction, TLAPS

\* A set of natural numbers has a least element.
LEMMA LeastNat ==
  ASSUME NEW T, T \subseteq Nat, T # {}
  PROVE  \E n \in T : \A m \in T : n <= m
<1> DEFINE R == {ss \in Nat \X Nat : ss[1] < ss[2]}
<1>1. IsWellFoundedOn(R, Nat)
  BY NatLessThanWellFounded, Zenon DEF OpToRel
<1>2. \E x \in T : \A y \in T : ~ (<<y, x>> \in R)
  <2> HIDE DEF R
  <2> QED
    BY <1>1, WFMin, Zenon
<1>3. PICK x \in T : \A y \in T : ~ (<<y, x>> \in R)
  BY <1>2
<1>4. \A y \in T : ~ (y < x)
  BY <1>3
<1> QED
  BY <1>4

\* One that is bounded has a greatest.
LEMMA GreatestNat ==
  ASSUME NEW n \in Nat, NEW T, T \subseteq 0..n, T # {}
  PROVE  \E m \in T : \A k \in T : k <= m
<1> DEFINE B == {b \in Nat : \E k \in T : k + b = n}
<1>1. \A k \in T : k \in Int /\ n - k \in B
  OBVIOUS
<1>2. B \subseteq Nat /\ B # {}
  BY <1>1
<1>3. \A b \in B : \E k \in T : k + b = n
  OBVIOUS
<1> HIDE DEF B
<1>4. PICK b \in B : \A c \in B : b <= c
  BY <1>2, LeastNat
<1>5. PICK m \in T : m + b = n
  BY <1>3
<1>6. \A k \in T : b <= n - k
  BY <1>1, <1>4
<1> QED
  BY <1>1, <1>2, <1>5, <1>6

\* Induction over the natural numbers.
LEMMA SetInduction ==
  ASSUME NEW T, 0 \in T, \A n \in Nat : n \in T => n + 1 \in T
  PROVE  Nat \subseteq T
<1> SUFFICES ASSUME NEW b \in Nat, b \notin T PROVE FALSE
  OBVIOUS
<1>1. PICK n \in Nat \ T : \A m \in Nat \ T : n <= m
  BY LeastNat
<1>2. n # 0 /\ n - 1 \in Nat /\ n - 1 \in T
  BY <1>1
<1> QED
  BY <1>2

\* n steps from first.
Steps(f, S, first, next, n) ==
  f \in [0..n -> S] /\ f[0] = first /\ \A i \in 1..n : f[i] = next[i][f[i - 1]]

\* They can be taken.
LEMMA Iterate ==
  ASSUME NEW S, NEW n \in Nat, NEW first \in S, NEW next \in [1..n -> [S -> S]]
  PROVE  \E f : Steps(f, S, first, next, n)
<1> DEFINE Is(f, k) == f \in [0..k -> S] /\ f[0] = first /\ \A i \in 1..k : f[i] = next[i][f[i - 1]]
           T == {k \in Nat : k <= n => \E f : Is(f, k)}
<1>1. 0 \in T
  <2>1. Is([i \in 0..0 |-> first], 0)
    OBVIOUS
  <2> QED
    BY <2>1
<1>2. ASSUME NEW k \in Nat, k \in T PROVE k + 1 \in T
  <2> SUFFICES ASSUME k + 1 <= n PROVE \E f : Is(f, k + 1)
    OBVIOUS
  <2>1. PICK f : Is(f, k)
    BY <1>2
  <2>2. f[k] \in S /\ k + 1 \in 1..n
    BY <2>1
  <2>3. PICK v \in S : v = next[k + 1][f[k]]
    BY <2>2
  <2> DEFINE g == [i \in 0..(k + 1) |-> IF i = k + 1 THEN v ELSE f[i]]
  <2>4. \A i \in 0..k : g[i] = f[i] /\ f[i] \in S
    BY <2>1
  <2>5. g[k + 1] = v /\ g \in [0..(k + 1) -> S]
    BY <2>1
  <2> HIDE DEF g
  <2>6. g[0] = first
    BY <2>1, <2>4
  <2>7. ASSUME NEW i \in 1..(k + 1) PROVE g[i] = next[i][g[i - 1]]
    <3>1. CASE i = k + 1
      <4>1. i - 1 = k /\ g[k] = f[k]
        BY <2>4, <3>1
      <4> QED
        BY <2>3, <2>5, <3>1, <4>1
    <3>2. CASE i # k + 1
      <4>1. i \in 1..k /\ i \in 0..k /\ i - 1 \in 0..k
        BY <3>2
      <4> QED
        BY <2>1, <2>4, <4>1
    <3> QED
      BY <3>1, <3>2
  <2>8. Is(g, k + 1)
    BY <2>5, <2>6, <2>7
  <2> QED
    BY <2>8
<1>3. Nat \subseteq T
  <2> HIDE DEF T
  <2> QED
    BY <1>1, <1>2, SetInduction
<1>4. n \in T
  BY <1>3
<1> QED
  BY <1>4 DEF Steps

-----------------------------------------------------------------------------
\* f adds up the first n numbers of w, one after the other.
AddsUp(f, w, n) == f = [i \in 0..n |-> IF i = 0 THEN 0 ELSE f[i - 1] + w[i]]

\* There is such a function,
LEMMA AddsUpExists ==
  ASSUME NEW w \in Seq(Int)
  PROVE  \E f : AddsUp(f, w, Len(w))
<1> DEFINE T == {n \in Nat : n <= Len(w) => \E f : AddsUp(f, w, n)}
<1>1. 0 \in T
  <2>1. AddsUp([i \in 0..0 |-> 0], w, 0)
    BY DEF AddsUp
  <2> QED
    BY <2>1
<1>2. ASSUME NEW n \in Nat, n \in T PROVE n + 1 \in T
  <2> SUFFICES ASSUME n + 1 <= Len(w) PROVE \E f : AddsUp(f, w, n + 1)
    OBVIOUS
  <2>1. PICK f : AddsUp(f, w, n)
    BY <1>2
  <2> DEFINE g == [i \in 0..(n + 1) |-> IF i = n + 1 THEN f[n] + w[n + 1] ELSE f[i]]
  <2>2. \A i \in 0..n : f[i] = IF i = 0 THEN 0 ELSE f[i - 1] + w[i]
    BY <2>1 DEF AddsUp
  <2>3. ASSUME NEW i \in 0..(n + 1) PROVE g[i] = IF i = 0 THEN 0 ELSE g[i - 1] + w[i]
    <3>1. CASE i = n + 1
      BY <3>1
    <3>2. CASE i \in 1..n
      <4>1. g[i] = f[i] /\ g[i - 1] = f[i - 1]
        BY <3>2
      <4>2. f[i] = f[i - 1] + w[i]
        BY <2>2, <3>2
      <4> QED
        BY <3>2, <4>1, <4>2
    <3>3. CASE i = 0
      BY <2>2, <3>3
    <3> QED
      BY <3>1, <3>2, <3>3
  <2>4. g = [i \in 0..(n + 1) |-> IF i = 0 THEN 0 ELSE g[i - 1] + w[i]]
    BY <2>3
  <2>5. AddsUp(g, w, n + 1)
    BY <2>4 DEF AddsUp
  <2> QED
    BY <2>5
<1>3. Nat \subseteq T
  <2> HIDE DEF T
  <2> QED
    BY <1>1, <1>2, SetInduction
<1>4. Len(w) \in T
  BY <1>3
<1> QED
  BY <1>4

\* and only one.
LEMMA AddsUpUnique ==
  ASSUME NEW n \in Nat, NEW w, NEW f, NEW g, AddsUp(f, w, n), AddsUp(g, w, n)
  PROVE  f = g
<1> DEFINE T == {k \in Nat : k <= n => f[k] = g[k]}
<1>1. \A i \in 0..n : f[i] = IF i = 0 THEN 0 ELSE f[i - 1] + w[i]
  BY DEF AddsUp
<1>2. \A i \in 0..n : g[i] = IF i = 0 THEN 0 ELSE g[i - 1] + w[i]
  BY DEF AddsUp
<1>3. 0 \in T
  BY <1>1, <1>2
<1>4. ASSUME NEW k \in Nat, k \in T PROVE k + 1 \in T
  BY <1>1, <1>2, <1>4
<1>5. Nat \subseteq T
  <2> HIDE DEF T
  <2> QED
    BY <1>3, <1>4, SetInduction
<1>6. \A k \in 0..n : f[k] = g[k]
  BY <1>5
<1>7. f = [i \in 0..n |-> f[i]] /\ g = [i \in 0..n |-> g[i]]
  BY DEF AddsUp
<1> QED
  BY <1>6, <1>7

\* A function that adds up w has the total of w as its last value.
LEMMA TotalIs ==
  ASSUME NEW w \in Seq(Int), NEW f, AddsUp(f, w, Len(w))
  PROVE  Total(w) = f[Len(w)]
<1> DEFINE u == CHOOSE g : g = [i \in 0..Len(w) |-> IF i = 0 THEN 0 ELSE g[i - 1] + w[i]]
<1>1. u = [i \in 0..Len(w) |-> IF i = 0 THEN 0 ELSE u[i - 1] + w[i]]
  BY AddsUpExists DEF AddsUp
<1>2. Total(w) = u[Len(w)]
  BY DEF Total
<1> HIDE DEF u
<1>3. AddsUp(u, w, Len(w)) /\ Len(w) \in Nat
  BY <1>1, SMTT(30) DEF AddsUp
<1>4. u = f
  BY <1>3, AddsUpUnique
<1> QED
  BY <1>2, <1>4

\* The function behind a total, value by value.
LEMMA TotalSteps ==
  ASSUME NEW w \in Seq(Int)
  PROVE  \E f \in [0..Len(w) -> Int] :
           /\ f[0] = 0 /\ f[Len(w)] = Total(w)
           /\ \A i \in 1..Len(w) : f[i] = f[i - 1] + w[i]
<1>1. PICK f : AddsUp(f, w, Len(w))
  BY AddsUpExists
<1>2. \A i \in 0..Len(w) : f[i] = IF i = 0 THEN 0 ELSE f[i - 1] + w[i]
  BY <1>1 DEF AddsUp
<1> DEFINE T == {n \in Nat : n <= Len(w) => f[n] \in Int}
<1>3. 0 \in T
  BY <1>2
<1>4. ASSUME NEW n \in Nat, n \in T PROVE n + 1 \in T
  <2> SUFFICES ASSUME n + 1 <= Len(w) PROVE f[n + 1] \in Int
    OBVIOUS
  <2>1. w[n + 1] \in Int
    OBVIOUS
  <2>2. f[n + 1] = f[n] + w[n + 1]
    BY <1>2
  <2> QED
    BY <1>4, <2>1, <2>2
<1>5. Nat \subseteq T
  <2> HIDE DEF T
  <2> QED
    BY <1>3, <1>4, SetInduction
<1>6. \A i \in 0..Len(w) : f[i] \in Int
  BY <1>5
<1>7. f = [i \in 0..Len(w) |-> f[i]]
  BY <1>1 DEF AddsUp
<1>8. f \in [0..Len(w) -> Int]
  BY <1>6, <1>7
<1>9. f[Len(w)] = Total(w)
  BY <1>1, TotalIs
<1> QED
  BY <1>2, <1>8, <1>9, SMTT(30)

\* A function that takes these steps ends with the total.
LEMMA TotalFrom ==
  ASSUME NEW w \in Seq(Int), NEW f \in [0..Len(w) -> Int], f[0] = 0,
         \A i \in 1..Len(w) : f[i] = f[i - 1] + w[i]
  PROVE  Total(w) = f[Len(w)]
<1>1. f = [i \in 0..Len(w) |-> IF i = 0 THEN 0 ELSE f[i - 1] + w[i]]
  OBVIOUS
<1>2. AddsUp(f, w, Len(w))
  BY <1>1 DEF AddsUp
<1> QED
  BY <1>2, TotalIs

-----------------------------------------------------------------------------
\* The total of nothing.
LEMMA TotalEmpty == Total(<<>>) = 0
<1>1. <<>> \in Seq(Int) /\ Len(<<>>) = 0
  OBVIOUS
<1>2. PICK f \in [0..0 -> Int] : f[0] = 0 /\ f[0] = Total(<<>>)
  BY <1>1, TotalSteps
<1> QED
  BY <1>2

\* A total of integers is an integer.
LEMMA TotalType ==
  ASSUME NEW w \in Seq(Int)
  PROVE  Total(w) \in Int
<1>1. PICK f \in [0..Len(w) -> Int] : f[Len(w)] = Total(w)
  BY TotalSteps
<1>2. Len(w) \in 0..Len(w)
  OBVIOUS
<1> QED
  BY <1>1, <1>2

\* Two such functions, one behind the other.
LEMMA Glue ==
  ASSUME NEW m \in Nat, NEW n \in Nat, NEW f \in [0..m -> Int], NEW g \in [0..n -> Int], g[0] = 0
  PROVE  \E h \in [0..(m + n) -> Int] :
           /\ \A i \in 0..m : h[i] = f[i]
           /\ \A j \in 0..n : h[m + j] = f[m] + g[j]
<1> DEFINE h == [i \in 0..(m + n) |-> IF i <= m THEN f[i] ELSE f[m] + g[i - m]]
<1>1. \A i \in 0..m : h[i] = f[i] /\ h[i] \in Int
  OBVIOUS
<1>2. ASSUME NEW j \in 0..n PROVE h[m + j] = f[m] + g[j] /\ h[m + j] \in Int
  <2>1. f[m] \in Int /\ g[j] \in Int /\ (m + j) - m = j
    OBVIOUS
  <2>2. CASE j = 0
    BY <1>1, <2>1, <2>2
  <2>3. CASE j # 0
    <3>1. m + j \in 0..(m + n) /\ ~(m + j <= m)
      BY <2>3
    <3> QED
      BY <2>1, <3>1
  <2> QED
    BY <2>2, <2>3
<1>3. ASSUME NEW i \in 0..(m + n) PROVE h[i] \in Int
  <2>1. CASE i <= m
    BY <1>1, <2>1
  <2>2. CASE i > m
    <3>1. i - m \in 0..n /\ m + (i - m) = i
      BY <2>2
    <3> HIDE DEF h
    <3> QED
      BY <1>2, <3>1
  <2> QED
    BY <2>1, <2>2
<1>4. h = [i \in 0..(m + n) |-> h[i]]
  OBVIOUS
<1> HIDE DEF h
<1>5. h \in [0..(m + n) -> Int]
  BY <1>3, <1>4
<1> QED
  BY <1>1, <1>2, <1>5

\* One sequence behind the other, place by place.
LEMMA ConcatByPlace ==
  ASSUME NEW S, NEW s \in Seq(S), NEW t \in Seq(S)
  PROVE  /\ s \o t \in Seq(S)
         /\ Len(s \o t) = Len(s) + Len(t)
         /\ \A i \in 1..Len(s) : (s \o t)[i] = s[i]
         /\ \A j \in 1..Len(t) : (s \o t)[Len(s) + j] = t[j]
<1>1. PICK m \in Nat, n \in Nat : Len(s) = m /\ Len(t) = n
  OBVIOUS
<1>2. s \o t \in Seq(S) /\ Len(s \o t) = m + n
  BY <1>1, ConcatProperties
<1>3. \A i \in 1..(m + n) : (s \o t)[i] = IF i <= m THEN s[i] ELSE t[i - m]
  BY <1>1, ConcatProperties
<1>4. \A i \in 1..m : i \in 1..(m + n) /\ i <= m
  OBVIOUS
<1>5. \A j \in 1..n : m + j \in 1..(m + n) /\ ~(m + j <= m) /\ (m + j) - m = j
  OBVIOUS
<1>6. \A i \in 1..m : (s \o t)[i] = s[i]
  BY <1>3, <1>4, Zenon
<1>7. \A j \in 1..n : (s \o t)[m + j] = t[j]
  BY <1>3, <1>5, Zenon
<1> QED
  BY <1>1, <1>2, <1>6, <1>7, Zenon

\* Appending an element is concatenating it.
LEMMA AppendJoins ==
  ASSUME NEW S, NEW s \in Seq(S), NEW x \in S
  PROVE  /\ Append(s, x) = s \o <<x>> /\ <<x>> \in Seq(S) /\ Append(s, x) \in Seq(S)
         /\ Len(Append(s, x)) = Len(s) + 1
         /\ Append(s, x)[Len(s) + 1] = x /\ \A i \in 1..Len(s) : Append(s, x)[i] = s[i]
OBVIOUS

\* A part of a sequence, place by place.
LEMMA PartIs ==
  ASSUME NEW S, NEW s \in Seq(S), NEW k \in 0..Len(s)
  PROVE  /\ SubSeq(s, 1, k) \in Seq(S) /\ Len(SubSeq(s, 1, k)) = k
         /\ \A i \in 1..k : SubSeq(s, 1, k)[i] = s[i]
         /\ SubSeq(s, k + 1, Len(s)) \in Seq(S) /\ Len(SubSeq(s, k + 1, Len(s))) = Len(s) - k
         /\ \A i \in 1..(Len(s) - k) : SubSeq(s, k + 1, Len(s))[i] = s[k + i]
         /\ s = SubSeq(s, 1, k) \o SubSeq(s, k + 1, Len(s))
<1>1. PICK n \in Nat : n = Len(s) /\ k \in 0..n
  OBVIOUS
<1>2. \A i \in 1..n : s[i] \in S
  BY <1>1
<1>3. SubSeq(s, 1, k) \in Seq(S) /\ Len(SubSeq(s, 1, k)) = k /\ \A i \in 1..k : SubSeq(s, 1, k)[i] = s[i]
  BY <1>1, <1>2
<1>4. /\ SubSeq(s, k + 1, n) \in Seq(S) /\ Len(SubSeq(s, k + 1, n)) = n - k
      /\ \A i \in 1..(n - k) : SubSeq(s, k + 1, n)[i] = s[k + i]
  BY <1>1, <1>2
<1>5. SubSeq(s, 1, k) \o SubSeq(s, k + 1, n) = SubSeq(s, 1, n)
  <2>1. 1 \in 1..(n + 1) /\ k \in (1 - 1)..n /\ n \in k..n
    BY <1>1
  <2>2. 1 \in 1..(Len(s) + 1) /\ k \in (1 - 1)..Len(s) /\ Len(s) \in k..Len(s)
    BY <1>1, <2>1, Zenon
  <2>3. SubSeq(s, 1, k) \o SubSeq(s, k + 1, Len(s)) = SubSeq(s, 1, Len(s))
    BY <2>2, ConcatAdjacentSubSeq
  <2> QED
    BY <1>1, <2>3, Zenon
<1>6. SubSeq(s, 1, Len(s)) = s
  BY SubSeqFull
<1> QED
  BY <1>1, <1>3, <1>4, <1>5, <1>6, Zenon

\* Totals of sequences add up.
LEMMA TotalConcat ==
  ASSUME NEW w \in Seq(Int), NEW v \in Seq(Int)
  PROVE  Total(w \o v) = Total(w) + Total(v)
<1>1. PICK m \in Nat, n \in Nat : Len(w) = m /\ Len(v) = n
  OBVIOUS
<1>2. PICK f \in [0..m -> Int] :
        /\ f[0] = 0 /\ f[m] = Total(w)
        /\ \A i \in 1..m : f[i] = f[i - 1] + w[i]
  BY <1>1, TotalSteps
<1>3. PICK g \in [0..n -> Int] :
        /\ g[0] = 0 /\ g[n] = Total(v)
        /\ \A i \in 1..n : g[i] = g[i - 1] + v[i]
  BY <1>1, TotalSteps
<1>4. PICK h \in [0..(m + n) -> Int] :
        /\ \A i \in 0..m : h[i] = f[i]
        /\ \A j \in 0..n : h[m + j] = f[m] + g[j]
  BY <1>3, Glue
<1>5. PICK a \in Seq(Int) :
        /\ a = w \o v
        /\ Len(a) = m + n
        /\ \A i \in 1..m : a[i] = w[i]
        /\ \A j \in 1..n : a[m + j] = v[j]
  <2>1. /\ w \o v \in Seq(Int)
        /\ Len(w \o v) = Len(w) + Len(v)
        /\ \A i \in 1..Len(w) : (w \o v)[i] = w[i]
        /\ \A j \in 1..Len(v) : (w \o v)[Len(w) + j] = v[j]
    BY ConcatByPlace
  <2> QED
    BY <1>1, <2>1
<1>6. ASSUME NEW i \in 1..(m + n) PROVE h[i] = h[i - 1] + a[i]
  <2>1. CASE i <= m
    <3>0. i \in 1..m /\ i \in 0..m /\ i - 1 \in 0..m
      BY <2>1
    <3>1. h[i] = f[i] /\ h[i - 1] = f[i - 1] /\ a[i] = w[i]
      BY <1>4, <1>5, <3>0, Zenon
    <3>2. f[i] = f[i - 1] + w[i]
      BY <1>2, <3>0, Zenon
    <3> QED
      BY <3>1, <3>2, Zenon
  <2>2. CASE i > m
    <3>1. PICK j \in 1..n : i = m + j
      <4>1. i - m \in 1..n /\ i = m + (i - m)
        BY <2>2
      <4> QED
        BY <4>1
    <3>2. a[i] = v[j]
      BY <1>5, <3>1, Zenon
    <3>3. h[m + j] = f[m] + g[j]
      BY <1>4
    <3>4. h[m + (j - 1)] = f[m] + g[j - 1]
      BY <1>4
    <3>5. g[j] = g[j - 1] + v[j]
      BY <1>3
    <3>6. f[m] \in Int /\ g[j - 1] \in Int /\ v[j] \in Int
      <4>1. m \in 0..m /\ j - 1 \in 0..n /\ j \in 1..Len(v)
        BY <1>1
      <4> QED
        BY <4>1, ElementOfSeq
    <3>7. i - 1 = m + (j - 1)
      BY <3>1
    <3>8. h[i] = f[m] + (g[j - 1] + v[j]) /\ h[i - 1] + a[i] = (f[m] + g[j - 1]) + v[j]
      BY <3>1, <3>2, <3>3, <3>4, <3>5, <3>7, Zenon
    <3>9. ASSUME NEW x \in Int, NEW y \in Int, NEW z \in Int PROVE x + (y + z) = (x + y) + z
      OBVIOUS
    <3> QED
      BY <3>6, <3>8, <3>9, Zenon
  <2> QED
    BY <2>1, <2>2
<1>7. Total(a) = h[Len(a)]
  <2>1. h[0] = 0
    BY <1>2, <1>4
  <2> QED
    BY <1>5, <1>6, <2>1, TotalFrom
<1>8. h[m + n] = f[m] + g[n]
  BY <1>4
<1> QED
  BY <1>2, <1>3, <1>5, <1>7, <1>8

\* The total of a single number.
LEMMA TotalOne ==
  ASSUME NEW x \in Int
  PROVE  Total(<<x>>) = x
<1> DEFINE w == <<x>>
<1>1. w \in Seq(Int) /\ Len(w) = 1 /\ w[1] = x
  OBVIOUS
<1> HIDE DEF w
<1>2. PICK f \in [0..Len(w) -> Int] :
        /\ f[0] = 0 /\ f[Len(w)] = Total(w)
        /\ \A i \in 1..Len(w) : f[i] = f[i - 1] + w[i]
  BY <1>1, TotalSteps
<1>3. f[1] = f[0] + w[1]
  BY <1>1, <1>2
<1> QED
  BY <1>1, <1>2, <1>3 DEF w

\* Without its first number a total is less by that number.
LEMMA TotalTail ==
  ASSUME NEW w \in Seq(Int), w # <<>>
  PROVE  Total(w) = w[1] + Total(Tail(w))
<1>1. w = <<Head(w)>> \o Tail(w) /\ Head(w) = w[1] /\ w[1] \in Int /\ Tail(w) \in Seq(Int)
  OBVIOUS
<1>2. <<w[1]>> \in Seq(Int)
  BY <1>1
<1>3. Total(<<w[1]>> \o Tail(w)) = Total(<<w[1]>>) + Total(Tail(w))
  BY <1>1, <1>2, TotalConcat
<1>4. Total(<<w[1]>>) = w[1]
  BY <1>1, TotalOne
<1> QED
  BY <1>1, <1>3, <1>4

\* A total of natural numbers is one.
LEMMA TotalNat ==
  ASSUME NEW w \in Seq(Nat)
  PROVE  Total(w) \in Nat
<1>1. w \in Seq(Int) /\ \A i \in 1..Len(w) : w[i] \in Nat
  OBVIOUS
<1>2. PICK f \in [0..Len(w) -> Int] :
        /\ f[0] = 0 /\ f[Len(w)] = Total(w)
        /\ \A i \in 1..Len(w) : f[i] = f[i - 1] + w[i]
  BY <1>1, TotalSteps
<1> DEFINE T == {n \in Nat : n <= Len(w) => f[n] \in Nat}
<1>3. 0 \in T
  BY <1>2
<1>4. ASSUME NEW n \in Nat, n \in T PROVE n + 1 \in T
  <2> SUFFICES ASSUME n + 1 <= Len(w) PROVE f[n + 1] \in Nat
    OBVIOUS
  <2>1. w[n + 1] \in Nat
    BY <1>1
  <2>2. f[n + 1] = f[n] + w[n + 1]
    BY <1>2
  <2> QED
    BY <1>4, <2>1, <2>2
<1>5. Nat \subseteq T
  <2> HIDE DEF T
  <2> QED
    BY <1>3, <1>4, SetInduction
<1>6. Len(w) \in T
  BY <1>5
<1> QED
  BY <1>2, <1>6

-----------------------------------------------------------------------------
(***************************************************************************)
(* Elements that weigh something: what those of a sequence weigh together. *)
(***************************************************************************)

Weights(W, s) == [i \in 1..Len(s) |-> W[s[i]]]
Weighed(W, s) == Total(Weights(W, s))

\* Weights are numbers, place by place.
LEMMA WeightsType ==
  ASSUME NEW S, NEW N, NEW W, \A x \in S : W[x] \in N, NEW s \in Seq(S)
  PROVE  /\ Weights(W, s) \in Seq(N)
         /\ Len(Weights(W, s)) = Len(s)
         /\ \A i \in 1..Len(s) : Weights(W, s)[i] = W[s[i]]
BY DEF Weights

\* Nothing weighs nothing.
LEMMA WeighedEmpty ==
  ASSUME NEW W
  PROVE  Weighed(W, <<>>) = 0
<1>1. Weights(W, <<>>) = <<>>
  BY DEF Weights
<1> QED
  BY <1>1, TotalEmpty DEF Weighed

\* An element by itself.
LEMMA WeighedOne ==
  ASSUME NEW S, NEW W, \A x \in S : W[x] \in Int, NEW e \in S
  PROVE  Weighed(W, <<e>>) = W[e]
<1>1. Weights(W, <<e>>) = <<W[e]>>
  BY DEF Weights
<1>2. W[e] \in Int
  OBVIOUS
<1> QED
  BY <1>1, <1>2, TotalOne DEF Weighed

\* The weights of one sequence are behind those of the other.
LEMMA WeightsConcat ==
  ASSUME NEW S, NEW W, NEW s \in Seq(S), NEW t \in Seq(S)
  PROVE  Weights(W, s \o t) = Weights(W, s) \o Weights(W, t)
<1>0. PICK N : \A x \in S : W[x] \in N
  <2>1. \A x \in S : W[x] \in {W[y] : y \in S}
    BY Zenon
  <2> QED
    BY <2>1, Zenon
<1>1. PICK p \in Seq(S) :
        /\ p = s \o t
        /\ Len(p) = Len(s) + Len(t)
        /\ \A i \in 1..Len(s) : p[i] = s[i]
        /\ \A j \in 1..Len(t) : p[Len(s) + j] = t[j]
  <2>1. /\ s \o t \in Seq(S)
        /\ Len(s \o t) = Len(s) + Len(t)
        /\ \A i \in 1..Len(s) : (s \o t)[i] = s[i]
        /\ \A j \in 1..Len(t) : (s \o t)[Len(s) + j] = t[j]
    BY ConcatByPlace
  <2> QED
    BY <2>1
<1>2. PICK a \in Seq(N) :
        /\ a = Weights(W, p) /\ Len(a) = Len(p)
        /\ \A i \in 1..Len(p) : a[i] = W[p[i]]
  <2>1. /\ Weights(W, p) \in Seq(N)
        /\ Len(Weights(W, p)) = Len(p)
        /\ \A i \in 1..Len(p) : Weights(W, p)[i] = W[p[i]]
    BY <1>0 DEF Weights
  <2> QED
    BY <2>1, Zenon
<1>3. PICK b \in Seq(N) :
        /\ b = Weights(W, s) /\ Len(b) = Len(s)
        /\ \A i \in 1..Len(s) : b[i] = W[s[i]]
  <2>1. /\ Weights(W, s) \in Seq(N)
        /\ Len(Weights(W, s)) = Len(s)
        /\ \A i \in 1..Len(s) : Weights(W, s)[i] = W[s[i]]
    BY <1>0 DEF Weights
  <2> QED
    BY <2>1, Zenon
<1>4. PICK c \in Seq(N) :
        /\ c = Weights(W, t) /\ Len(c) = Len(t)
        /\ \A i \in 1..Len(t) : c[i] = W[t[i]]
  <2>1. /\ Weights(W, t) \in Seq(N)
        /\ Len(Weights(W, t)) = Len(t)
        /\ \A i \in 1..Len(t) : Weights(W, t)[i] = W[t[i]]
    BY <1>0 DEF Weights
  <2> QED
    BY <2>1, Zenon
<1>5. PICK d \in Seq(N) :
        /\ d = b \o c
        /\ Len(d) = Len(b) + Len(c)
        /\ \A i \in 1..Len(b) : d[i] = b[i]
        /\ \A j \in 1..Len(c) : d[Len(b) + j] = c[j]
  <2>1. /\ b \o c \in Seq(N)
        /\ Len(b \o c) = Len(b) + Len(c)
        /\ \A i \in 1..Len(b) : (b \o c)[i] = b[i]
        /\ \A j \in 1..Len(c) : (b \o c)[Len(b) + j] = c[j]
    BY ConcatByPlace
  <2> QED
    BY <2>1
<1>6. ASSUME NEW i \in 1..Len(a) PROVE a[i] = d[i]
  <2>1. CASE i \in 1..Len(s)
    <3>1. i \in 1..Len(p) /\ i \in 1..Len(b)
      BY <1>2, <1>3, <2>1
    <3>2. a[i] = W[p[i]] /\ p[i] = s[i] /\ b[i] = W[s[i]] /\ d[i] = b[i]
      BY <1>1, <1>2, <1>3, <1>5, <2>1, <3>1, Zenon
    <3> QED
      BY <3>2, Zenon
  <2>2. CASE i \notin 1..Len(s)
    <3>1. PICK j \in 1..Len(t) : i = Len(s) + j
      <4>1. i - Len(s) \in 1..Len(t) /\ i = Len(s) + (i - Len(s))
        BY <1>1, <1>2, <2>2
      <4> QED
        BY <4>1
    <3>2. i \in 1..Len(p) /\ j \in 1..Len(c) /\ Len(b) = Len(s)
      BY <1>2, <1>3, <1>4
    <3>3. a[i] = W[p[i]] /\ p[i] = t[j] /\ c[j] = W[t[j]] /\ d[i] = c[j]
      BY <1>1, <1>2, <1>4, <1>5, <3>1, <3>2, Zenon
    <3> QED
      BY <3>3, Zenon
  <2> QED
    BY <2>1, <2>2
<1>7. Len(a) = Len(d)
  BY <1>1, <1>2, <1>3, <1>4, <1>5
<1>8. a = d
  BY <1>6, <1>7, SeqEqual
<1> QED
  BY <1>1, <1>2, <1>3, <1>4, <1>5, <1>8, Zenon

\* Two sequences weigh what each of them does.
LEMMA WeighedConcat ==
  ASSUME NEW S, NEW W, \A x \in S : W[x] \in Int, NEW s \in Seq(S), NEW t \in Seq(S)
  PROVE  Weighed(W, s \o t) = Weighed(W, s) + Weighed(W, t)
<1>1. Weights(W, s \o t) = Weights(W, s) \o Weights(W, t)
  BY WeightsConcat
<1>2. Weights(W, s) \in Seq(Int) /\ Weights(W, t) \in Seq(Int)
  BY WeightsType
<1>3. Total(Weights(W, s) \o Weights(W, t)) = Total(Weights(W, s)) + Total(Weights(W, t))
  BY <1>2, TotalConcat
<1> QED
  BY <1>1, <1>3, Zenon DEF Weighed

\* Weights that are natural numbers add up to one.
LEMMA WeighedNat ==
  ASSUME NEW S, NEW W, \A x \in S : W[x] \in Nat, NEW s \in Seq(S)
  PROVE  Weighed(W, s) \in Nat
<1>1. Weights(W, s) \in Seq(Nat)
  BY WeightsType
<1> QED
  BY <1>1, TotalNat DEF Weighed

\* Without its first element a sequence weighs less by that element.
LEMMA WeighedTail ==
  ASSUME NEW S, NEW W, \A x \in S : W[x] \in Nat, NEW s \in Seq(S), s # <<>>
  PROVE  Weighed(W, s) = W[Head(s)] + Weighed(W, Tail(s))
<1>1. s = <<Head(s)>> \o Tail(s) /\ Head(s) \in S /\ Tail(s) \in Seq(S)
  OBVIOUS
<1>2. (\A x \in S : W[x] \in Int) /\ <<Head(s)>> \in Seq(S)
  BY <1>1
<1>3. Weighed(W, <<Head(s)>> \o Tail(s)) = Weighed(W, <<Head(s)>>) + Weighed(W, Tail(s))
  BY <1>1, <1>2, WeighedConcat
<1>4. Weighed(W, <<Head(s)>>) = W[Head(s)]
  BY <1>1, <1>2, WeighedOne
<1> QED
  BY <1>1, <1>3, <1>4, Zenon

\* A part at the front weighs no more than the whole.
LEMMA WeighedPrefix ==
  ASSUME NEW S, NEW W, \A x \in S : W[x] \in Nat, NEW s \in Seq(S), NEW n \in 0..Len(s)
  PROVE  /\ SubSeq(s, 1, n) \in Seq(S)
         /\ Weighed(W, SubSeq(s, 1, n)) <= Weighed(W, s)
<1>1. SubSeq(s, 1, n) \o SubSeq(s, n + 1, Len(s)) = SubSeq(s, 1, Len(s))
  <2>1. 1 \in 1..(Len(s) + 1) /\ n \in (1 - 1)..Len(s) /\ Len(s) \in n..Len(s)
    OBVIOUS
  <2> QED
    BY <2>1, ConcatAdjacentSubSeq
<1>2. SubSeq(s, 1, Len(s)) = s
  BY SubSeqFull
<1>3. \A i \in 1..Len(s) : s[i] \in S
  OBVIOUS
<1>4. SubSeq(s, 1, n) \in Seq(S) /\ SubSeq(s, n + 1, Len(s)) \in Seq(S)
  <2>1. (\A i \in 1..n : s[i] \in S) /\ (\A i \in (n + 1)..Len(s) : s[i] \in S)
    BY <1>3
  <2> QED
    BY <2>1, SubSeqProperties
<1>5. PICK a \in Seq(S), b \in Seq(S) : a = SubSeq(s, 1, n) /\ b = SubSeq(s, n + 1, Len(s))
  BY <1>4, Zenon
<1>6. s = a \o b
  BY <1>1, <1>2, <1>5, Zenon
<1>7. \A x \in S : W[x] \in Int
  OBVIOUS
<1>8. Weighed(W, a \o b) = Weighed(W, a) + Weighed(W, b)
  BY <1>7, WeighedConcat
<1>9. Weighed(W, a) \in Nat /\ Weighed(W, b) \in Nat
  BY WeighedNat
<1>10. Weighed(W, a) <= Weighed(W, a \o b)
  BY <1>8, <1>9
<1> QED
  BY <1>5, <1>6, <1>10, Zenon

=============================================================================
