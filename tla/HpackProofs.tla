---------------------------- MODULE HpackProofs -----------------------------
(***************************************************************************)
(* The compressor and the decoder of header blocks, for any hash functions,*)
(* string sizes, header lists, changes of HEADER_TABLE_SIZE and number of  *)
(* blocks under way, in two parts.                                         *)
(*                                                                         *)
(* The decoder alone: the accounting of its dynamic table is right and it  *)
(* evicts only what it must, whatever a peer sends.  The sizes of the      *)
(* entries, oldest first, are a sequence of numbers.  Evicting drops the   *)
(* least number of them from its front that brings the total down to the   *)
(* limit.                                                                  *)
(*                                                                         *)
(* Both ends: the receiver decodes what was sent.  The ring of the         *)
(* compressor stands for the sequence of the sizes of its live entries,    *)
(* oldest first.  That sequence is always the end of the sequence of the   *)
(* decoder's, because both evict as few entries as they have to and the    *)
(* compressor's limit is not the larger one.                               *)
(***************************************************************************)
EXTENDS Hpack, HpackReceiver, TotalsProofs

Upto(w, n) == [i \in 1..n |-> w[i]]
Drop(w, n) == [i \in 1..(Len(w) - n) |-> w[n + i]]

\* The front and the rest of a sequence of numbers, place by place.
LEMMA Parts ==
  ASSUME NEW w \in Seq(Nat), NEW n \in 0..Len(w)
  PROVE  /\ Upto(w, n) \in Seq(Nat) /\ Len(Upto(w, n)) = n
         /\ \A i \in 1..n : Upto(w, n)[i] = w[i]
         /\ Drop(w, n) \in Seq(Nat) /\ Len(Drop(w, n)) = Len(w) - n
         /\ \A i \in 1..(Len(w) - n) : Drop(w, n)[i] = w[n + i]
<1>1. PICK m \in Nat : Len(w) = m /\ n \in 0..m /\ \A i \in 1..m : w[i] \in Nat
  BY ElementOfSeq
<1>2. PICK k \in Nat : k = m - n
  BY <1>1
<1>3. \A i \in 1..n : w[i] \in Nat
  BY <1>1
<1>4. \A i \in 1..k : w[n + i] \in Nat
  BY <1>1, <1>2
<1>5. Upto(w, n) \in Seq(Nat) /\ Len(Upto(w, n)) = n /\ \A i \in 1..n : Upto(w, n)[i] = w[i]
  BY <1>1, <1>3 DEF Upto
<1>6. Drop(w, n) = [i \in 1..k |-> w[n + i]]
  BY <1>1, <1>2 DEF Drop
<1>7. Drop(w, n) \in Seq(Nat) /\ Len(Drop(w, n)) = k /\ \A i \in 1..k : Drop(w, n)[i] = w[n + i]
  BY <1>4, <1>6
<1> QED
  BY <1>1, <1>2, <1>5, <1>7

\* The front and the rest make up the total.
LEMMA Split ==
  ASSUME NEW w \in Seq(Nat), NEW n \in 0..Len(w)
  PROVE  /\ Total(w) \in Nat /\ Total(Upto(w, n)) \in Nat /\ Total(Drop(w, n)) \in Nat
         /\ Total(w) = Total(Upto(w, n)) + Total(Drop(w, n))
<1>1. PICK u \in Seq(Nat), v \in Seq(Nat) : u = Upto(w, n) /\ v = Drop(w, n)
  BY Parts, Zenon
<1>2. Len(u) = n /\ Len(v) = Len(w) - n
      /\ (\A i \in 1..n : u[i] = w[i]) /\ (\A i \in 1..(Len(w) - n) : v[i] = w[n + i])
  BY <1>1, Parts, Zenon
<1>3. /\ u \o v \in Seq(Nat) /\ Len(u \o v) = Len(u) + Len(v)
      /\ \A i \in 1..Len(u) : (u \o v)[i] = u[i]
      /\ \A j \in 1..Len(v) : (u \o v)[Len(u) + j] = v[j]
  BY ConcatByPlace
<1>4. PICK x \in Seq(Nat) : x = u \o v
  BY <1>3, Zenon
<1>5. Len(x) = Len(w)
  <2>1. PICK m \in Nat, k \in Nat : Len(w) = m /\ n = k
    OBVIOUS
  <2>2. Len(u) = k /\ Len(v) = m - k /\ k + (m - k) = m
    BY <1>2, <2>1
  <2>3. Len(x) = Len(u) + Len(v)
    BY <1>3, <1>4, Zenon
  <2> QED
    BY <2>1, <2>2, <2>3
<1>6. ASSUME NEW i \in 1..Len(w) PROVE x[i] = w[i]
  <2>1. CASE i <= n
    <3>1. i \in 1..n
      BY <2>1
    <3> QED
      BY <1>2, <1>3, <1>4, <3>1, Zenon
  <2>2. CASE ~ (i <= n)
    <3>1. i - n \in 1..(Len(w) - n) /\ n + (i - n) = i
      BY <2>2
    <3> QED
      BY <1>2, <1>3, <1>4, <3>1, ZenonT(60)
  <2> QED
    BY <2>1, <2>2
<1>7. x = w
  BY <1>5, <1>6, SeqEqual
<1>8. u \in Seq(Int) /\ v \in Seq(Int)
  OBVIOUS
<1>9. Total(w) = Total(u) + Total(v)
  BY <1>4, <1>7, <1>8, TotalConcat, Zenon
<1>10. Total(w) \in Nat /\ Total(u) \in Nat /\ Total(v) \in Nat
  BY TotalNat
<1> QED
  BY <1>1, <1>9, <1>10, Zenon

\* How many numbers of w have to go to bring the total down to limit.
Excess(w, limit) ==
  Min({n \in 0..Len(w) : Total(w) - Total(Upto(w, n)) <= limit \/ n = Len(w)})

\* As few as possible.
LEMMA ExcessIs ==
  ASSUME NEW w \in Seq(Nat), NEW limit \in Int
  PROVE  /\ Excess(w, limit) \in 0..Len(w)
         /\ Total(Drop(w, Excess(w, limit))) <= limit \/ Excess(w, limit) = Len(w)
         /\ \A k \in 0..Len(w) : Total(Drop(w, k)) <= limit => Excess(w, limit) <= k
<1> DEFINE T == {n \in 0..Len(w) : Total(w) - Total(Upto(w, n)) <= limit \/ n = Len(w)}
<1>1. T \subseteq Nat /\ Len(w) \in T
  OBVIOUS
<1>2. \A n \in 0..Len(w) : Total(w) - Total(Upto(w, n)) = Total(Drop(w, n))
  <2> TAKE n \in 0..Len(w)
  <2>1. /\ Total(w) \in Nat /\ Total(Upto(w, n)) \in Nat /\ Total(Drop(w, n)) \in Nat
        /\ Total(w) = Total(Upto(w, n)) + Total(Drop(w, n))
    BY Split
  <2> QED
    BY <2>1
<1>3. /\ \A n \in T : n \in 0..Len(w) /\ (Total(Drop(w, n)) <= limit \/ n = Len(w))
      /\ \A k \in 0..Len(w) : Total(Drop(w, k)) <= limit => k \in T
  BY <1>2, Zenon
<1>4. Excess(w, limit) = Min(T)
  BY Zenon DEF Excess
<1> HIDE DEF T
<1>5. \E n \in T : \A m \in T : n <= m
  BY <1>1, LeastNat
<1>6. Min(T) \in T /\ \A m \in T : Min(T) <= m
  BY <1>5, Zenon DEF Min
<1> QED
  BY <1>3, <1>4, <1>6, Zenon

-----------------------------------------------------------------------------
(***************************************************************************)
(* The table.                                                              *)
(***************************************************************************)

Table == [table : Seq(Field), current_table_size : Nat, max_table_size : Nat]

\* The sizes of the entries, oldest first.
Oldest(t) == [i \in 1..Len(t) |-> EntrySize(t[Len(t) - i + 1])]

\* An entry is larger than its overhead.
LEMMA EntrySizeIs ==
  ASSUME NEW f \in Field
  PROVE  EntrySize(f) \in Nat /\ EntrySize(f) > Overhead /\ Overhead \in Nat \ {0}
<1>1. f.key \in Keys /\ f.value \in Values
  BY DEF Field
<1>2. KeySize[f.key] \in Nat \ {0} /\ ValueSize[f.value] \in Nat /\ Overhead \in Nat \ {0}
  BY <1>1, HpackAssumption
<1> QED
  BY <1>2 DEF EntrySize

\* The sizes are numbers.
LEMMA OldestIs ==
  ASSUME NEW t \in Seq(Field)
  PROVE  /\ Oldest(t) \in Seq(Nat) /\ Len(Oldest(t)) = Len(t)
         /\ \A i \in 1..Len(t) : /\ Oldest(t)[i] = EntrySize(t[Len(t) - i + 1])
                                 /\ Oldest(t)[i] > Overhead
<1>1. PICK m \in Nat : Len(t) = m
  OBVIOUS
<1>2. \A i \in 1..m : m - i + 1 \in 1..m /\ t[m - i + 1] \in Field
  <2> TAKE i \in 1..m
  <2>1. m - i + 1 \in 1..m
    OBVIOUS
  <2> QED
    BY <1>1, <2>1, ElementOfSeq
<1>3. \A i \in 1..m : EntrySize(t[m - i + 1]) \in Nat /\ EntrySize(t[m - i + 1]) > Overhead
  BY <1>2, EntrySizeIs
<1>4. Oldest(t) = [i \in 1..m |-> EntrySize(t[m - i + 1])]
  BY <1>1 DEF Oldest
<1>5. Oldest(t) \in Seq(Nat) /\ Len(Oldest(t)) = m /\ \A i \in 1..m : Oldest(t)[i] = EntrySize(t[m - i + 1])
  BY <1>3, <1>4
<1> QED
  BY <1>1, <1>3, <1>5

\* BackSize adds up the front of them.
LEMMA BackSizeIs ==
  ASSUME NEW t \in Seq(Field), NEW n \in 0..Len(t)
  PROVE  BackSize(t, n) = Total(Upto(Oldest(t), n))
<1>1. PICK m \in Nat : Len(t) = m /\ n \in 0..m
  OBVIOUS
<1>2. \A i \in 1..n : i \in 1..m
  BY <1>1
<1>3. [i \in 1..n |-> EntrySize(t[m - i + 1])] = [i \in 1..n |-> Oldest(t)[i]]
  BY <1>1, <1>2, OldestIs, Zenon
<1> QED
  BY <1>1, <1>3, Zenon DEF BackSize, Upto

\* All of it is the total.
LEMMA BackSizeAll ==
  ASSUME NEW t \in Seq(Field)
  PROVE  BackSize(t, Len(t)) = Total(Oldest(t)) /\ Total(Oldest(t)) \in Nat
<1>1. PICK w \in Seq(Nat) : w = Oldest(t) /\ Len(w) = Len(t)
  BY OldestIs, Zenon
<1>2. Len(t) \in 0..Len(t)
  OBVIOUS
<1>3. PICK u \in Seq(Nat) : u = Upto(w, Len(w)) /\ Len(u) = Len(w) /\ \A i \in 1..Len(w) : u[i] = w[i]
  <2>1. Len(w) \in 0..Len(w)
    OBVIOUS
  <2> QED
    BY <2>1, Parts, Zenon
<1>4. u = w
  BY <1>3, SeqEqual
<1> QED
  BY <1>1, <1>2, <1>3, <1>4, BackSizeIs, TotalNat, Zenon

\* A table without its n oldest entries.
LEMMA OldestDrop ==
  ASSUME NEW t \in Seq(Field), NEW n \in 0..Len(t)
  PROVE  /\ SubSeq(t, 1, Len(t) - n) \in Seq(Field) /\ Len(SubSeq(t, 1, Len(t) - n)) = Len(t) - n
         /\ \A i \in 1..(Len(t) - n) : SubSeq(t, 1, Len(t) - n)[i] = t[i]
         /\ Oldest(SubSeq(t, 1, Len(t) - n)) = Drop(Oldest(t), n)
<1>1. PICK m \in Nat, l \in Nat : Len(t) = m /\ l = m - n /\ n \in 0..m
  OBVIOUS
<1>2. SubSeq(t, 1, l) \in Seq(Field) /\ Len(SubSeq(t, 1, l)) = l /\ \A i \in 1..l : SubSeq(t, 1, l)[i] = t[i]
  BY <1>1
<1>3. PICK s \in Seq(Field) : s = SubSeq(t, 1, l)
  BY <1>2, Zenon
<1>4. PICK w \in Seq(Nat) : w = Oldest(t) /\ Len(w) = m /\ \A i \in 1..m : w[i] = EntrySize(t[m - i + 1])
  BY <1>1, OldestIs, Zenon
<1>5. PICK x \in Seq(Nat) : x = Oldest(s) /\ Len(x) = l /\ \A i \in 1..l : x[i] = EntrySize(s[l - i + 1])
  <2>1. Len(s) = l
    BY <1>2, <1>3, Zenon
  <2> QED
    BY <2>1, OldestIs, Zenon
<1>6. PICK y \in Seq(Nat) : y = Drop(w, n) /\ Len(y) = l /\ \A i \in 1..l : y[i] = w[n + i]
  <2>1. n \in 0..Len(w) /\ Len(w) - n = l
    BY <1>1, <1>4
  <2>2. /\ Drop(w, n) \in Seq(Nat) /\ Len(Drop(w, n)) = Len(w) - n
        /\ \A i \in 1..(Len(w) - n) : Drop(w, n)[i] = w[n + i]
    BY <2>1, Parts, Zenon
  <2> QED
    BY <2>1, <2>2, Zenon
<1>7. ASSUME NEW i \in 1..l PROVE x[i] = y[i]
  <2>1. l - i + 1 \in 1..l /\ n + i \in 1..m /\ m - (n + i) + 1 = l - i + 1
    BY <1>1
  <2>2. s[l - i + 1] = t[l - i + 1]
    BY <1>2, <1>3, <2>1, Zenon
  <2>3. w[n + i] = EntrySize(t[l - i + 1])
    BY <1>4, <2>1, Zenon
  <2> QED
    BY <1>5, <1>6, <2>2, <2>3, Zenon
<1>8. x = y
  BY <1>5, <1>6, <1>7, SeqEqual
<1> QED
  BY <1>1, <1>2, <1>3, <1>4, <1>5, <1>6, <1>8, Zenon

\* An empty rest.
LEMMA DropAll ==
  ASSUME NEW w \in Seq(Nat)
  PROVE  Total(Drop(w, Len(w))) = 0
<1>1. Len(w) - Len(w) = 0 /\ 1..0 = {}
  OBVIOUS
<1>2. Drop(w, Len(w)) = <<>>
  BY <1>1 DEF Drop
<1> QED
  BY <1>2, TotalEmpty, Zenon

\* A table with a new entry.
LEMMA OldestPush ==
  ASSUME NEW t \in Seq(Field), NEW f \in Field
  PROVE  /\ <<f>> \o t \in Seq(Field) /\ Len(<<f>> \o t) = Len(t) + 1
         /\ (<<f>> \o t)[1] = f /\ \A i \in 1..Len(t) : (<<f>> \o t)[i + 1] = t[i]
         /\ Oldest(<<f>> \o t) = Oldest(t) \o <<EntrySize(f)>>
         /\ Total(Oldest(<<f>> \o t)) = Total(Oldest(t)) + EntrySize(f)
<1>1. PICK m \in Nat : Len(t) = m
  OBVIOUS
<1>2. <<f>> \o t \in Seq(Field) /\ Len(<<f>> \o t) = m + 1
      /\ (<<f>> \o t)[1] = f /\ \A i \in 1..m : (<<f>> \o t)[i + 1] = t[i]
  BY <1>1
<1>3. PICK s \in Seq(Field) : s = <<f>> \o t
  BY <1>2, Zenon
<1>4. PICK w \in Seq(Nat) : w = Oldest(t) /\ Len(w) = m /\ \A i \in 1..m : w[i] = EntrySize(t[m - i + 1])
  BY <1>1, OldestIs, Zenon
<1>5. PICK e \in Nat : e = EntrySize(f)
  BY EntrySizeIs, Zenon
<1>6. PICK x \in Seq(Nat) : x = Oldest(s) /\ Len(x) = m + 1
                             /\ \A i \in 1..(m + 1) : x[i] = EntrySize(s[(m + 1) - i + 1])
  <2>1. Len(s) = m + 1
    BY <1>2, <1>3, Zenon
  <2> QED
    BY <2>1, OldestIs, Zenon
<1>7. w \o <<e>> \in Seq(Nat) /\ Len(w \o <<e>>) = m + 1
      /\ (w \o <<e>>)[m + 1] = e /\ \A i \in 1..m : (w \o <<e>>)[i] = w[i]
  <2>1. PICK v \in Seq(Nat) : v = <<e>> /\ Len(v) = 1 /\ v[1] = e
    <3>1. <<e>> \in Seq(Nat) /\ Len(<<e>>) = 1 /\ <<e>>[1] = e
      OBVIOUS
    <3> QED
      BY <3>1, Zenon
  <2>2. /\ w \o v \in Seq(Nat) /\ Len(w \o v) = Len(w) + Len(v)
        /\ \A i \in 1..Len(w) : (w \o v)[i] = w[i]
        /\ \A j \in 1..Len(v) : (w \o v)[Len(w) + j] = v[j]
    BY ConcatByPlace
  <2>3. 1 \in 1..1
    OBVIOUS
  <2> QED
    BY <1>4, <2>1, <2>2, <2>3, Zenon
<1>8. PICK y \in Seq(Nat) : y = w \o <<e>>
  BY <1>7, Zenon
<1>9. ASSUME NEW i \in 1..(m + 1) PROVE x[i] = y[i]
  <2>1. CASE i = m + 1
    <3>1. (m + 1) - i + 1 = 1
      BY <2>1
    <3> QED
      BY <1>2, <1>3, <1>5, <1>6, <1>7, <1>8, <2>1, <3>1, Zenon
  <2>2. CASE i # m + 1
    <3>1. i \in 1..m /\ m - i + 1 \in 1..m /\ (m + 1) - i + 1 = (m - i + 1) + 1
      BY <2>2
    <3>2. s[(m - i + 1) + 1] = t[m - i + 1]
      BY <1>2, <1>3, <3>1, Zenon
    <3>3. x[i] = EntrySize(t[m - i + 1])
      BY <1>6, <3>1, <3>2, Zenon
    <3> QED
      BY <1>4, <1>7, <1>8, <3>1, <3>3, Zenon
  <2> QED
    BY <2>1, <2>2
<1>10. x = y
  BY <1>6, <1>7, <1>8, <1>9, SeqEqual
<1>11. w \in Seq(Int) /\ <<e>> \in Seq(Int) /\ e \in Int
  OBVIOUS
<1>12. Total(w \o <<e>>) = Total(w) + Total(<<e>>) /\ Total(<<e>>) = e
  BY <1>11, TotalConcat, TotalOne, Zenon
<1> QED
  BY <1>1, <1>2, <1>3, <1>4, <1>5, <1>6, <1>8, <1>10, <1>12, Zenon

\* current_table_size is the size of the entries.
Accounted(t) == t \in Table /\ t.current_table_size = Total(Oldest(t.table))

\* adjust_dynamic_table_size drops the oldest entries, as few as possible.
LEMMA AdjustIs ==
  ASSUME NEW t, Accounted(t)
  PROVE  LET n == Excess(Oldest(t.table), t.max_table_size)
             a == adjust_dynamic_table_size(t)
         IN  /\ n \in 0..Len(t.table)
             /\ Accounted(a) /\ a.max_table_size = t.max_table_size
             /\ a.table = SubSeq(t.table, 1, Len(t.table) - n)
             /\ Oldest(a.table) = Drop(Oldest(t.table), n)
             /\ a.current_table_size <= a.max_table_size
<1> DEFINE n == Excess(Oldest(t.table), t.max_table_size)
           a == adjust_dynamic_table_size(t)
<1>1. t \in Table /\ t.current_table_size = Total(Oldest(t.table))
  BY Zenon DEF Accounted
<1>2. t.table \in Seq(Field) /\ t.current_table_size \in Nat /\ t.max_table_size \in Nat
  BY <1>1 DEF Table
<1>3. PICK w \in Seq(Nat) : w = Oldest(t.table) /\ Len(w) = Len(t.table)
  BY <1>2, OldestIs, Zenon
<1>4. \A k \in 0..Len(t.table) : BackSize(t.table, k) = Total(Upto(w, k))
  BY <1>2, <1>3, BackSizeIs, Zenon
<1>5. {k \in 0..Len(t.table) : \/ t.current_table_size - BackSize(t.table, k) <= t.max_table_size
                               \/ k = Len(t.table)}
      = {k \in 0..Len(w) : Total(w) - Total(Upto(w, k)) <= t.max_table_size \/ k = Len(w)}
  BY <1>1, <1>3, <1>4, Zenon
<1>6. a = [t EXCEPT !.table = SubSeq(@, 1, Len(@) - n),
                    !.current_table_size = @ - BackSize(t.table, n)]
  <2>1. n = Min({k \in 0..Len(t.table) : \/ t.current_table_size - BackSize(t.table, k) <= t.max_table_size
                                         \/ k = Len(t.table)})
    BY <1>3, <1>5, Zenon DEF Excess
  <2> HIDE DEF n
  <2> QED
    BY <2>1, Zenon DEF adjust_dynamic_table_size
<1>7. /\ n \in 0..Len(w) /\ (Total(Drop(w, n)) <= t.max_table_size \/ n = Len(w))
  <2>1. t.max_table_size \in Int
    BY <1>2
  <2> QED
    BY <1>3, <2>1, ExcessIs, Zenon
<1> HIDE DEF n
<1>8. /\ Total(w) \in Nat /\ Total(Upto(w, n)) \in Nat /\ Total(Drop(w, n)) \in Nat
      /\ Total(w) = Total(Upto(w, n)) + Total(Drop(w, n))
  BY <1>7, Split, Zenon
<1>9. Total(Drop(w, n)) <= t.max_table_size
  <2>1. CASE n = Len(w)
    <3>1. Total(Drop(w, n)) = 0
      BY <2>1, DropAll, Zenon
    <3> QED
      BY <1>2, <3>1
  <2> QED
    BY <1>7, <2>1
<1>10. n \in 0..Len(t.table)
  BY <1>3, <1>7, Zenon
<1>11. PICK s \in Seq(Field) : s = SubSeq(t.table, 1, Len(t.table) - n) /\ Oldest(s) = Drop(w, n)
  BY <1>2, <1>3, <1>10, OldestDrop, Zenon
<1>12. t.current_table_size - BackSize(t.table, n) = Total(Drop(w, n))
  BY <1>1, <1>3, <1>4, <1>8, <1>10
<1>13. a = [table |-> s, current_table_size |-> Total(Drop(w, n)), max_table_size |-> t.max_table_size]
  <2>1. a = [t EXCEPT !.table = s, !.current_table_size = Total(Drop(w, n))]
    BY <1>6, <1>11, <1>12, Zenon
  <2> HIDE DEF a
  <2> QED
    BY <1>1, <2>1 DEF Table
<1> HIDE DEF a
<1>14. a \in Table /\ a.table = s /\ a.current_table_size = Total(Drop(w, n)) /\ a.max_table_size = t.max_table_size
  BY <1>2, <1>8, <1>13 DEF Table
<1>15. Accounted(a)
  BY <1>11, <1>14, Zenon DEF Accounted
<1>16. a.current_table_size <= a.max_table_size
  BY <1>9, <1>14, Zenon
<1> QED
  BY <1>3, <1>10, <1>11, <1>14, <1>15, <1>16, Zenon DEF n, a

\* A table that is accounted for and within its maximum.
Fits(t) ==
  /\ Accounted(t) /\ t.current_table_size <= t.max_table_size
  /\ t.max_table_size <= InitialTableSize

\* The table before push_mdelem_data makes room.
Pushed(t, f) ==
  [table |-> <<f>> \o t.table, current_table_size |-> t.current_table_size + EntrySize(f),
   max_table_size |-> t.max_table_size]

\* Its accounting is right.
LEMMA PushedIs ==
  ASSUME NEW t, Accounted(t), NEW f \in Field
  PROVE  /\ Accounted(Pushed(t, f))
         /\ Pushed(t, f).table = <<f>> \o t.table /\ Pushed(t, f).max_table_size = t.max_table_size
         /\ push_mdelem_data(t, f) = adjust_dynamic_table_size(Pushed(t, f))
<1>1. t \in Table /\ t.current_table_size = Total(Oldest(t.table))
  BY Zenon DEF Accounted
<1>2. t.table \in Seq(Field) /\ t.current_table_size \in Nat /\ t.max_table_size \in Nat
  BY <1>1 DEF Table
<1>3. PICK s \in Seq(Field) : s = <<f>> \o t.table /\ Total(Oldest(s)) = Total(Oldest(t.table)) + EntrySize(f)
  BY <1>2, OldestPush, Zenon
<1>4. EntrySize(f) \in Nat
  BY EntrySizeIs
<1>5. Pushed(t, f) = [table |-> s, current_table_size |-> t.current_table_size + EntrySize(f),
                      max_table_size |-> t.max_table_size]
  BY <1>3, Zenon DEF Pushed
<1>6. /\ Pushed(t, f) \in Table /\ Pushed(t, f).table = s
      /\ Pushed(t, f).current_table_size = t.current_table_size + EntrySize(f)
      /\ Pushed(t, f).max_table_size = t.max_table_size
  BY <1>2, <1>4, <1>5 DEF Table
<1>7. Accounted(Pushed(t, f))
  BY <1>1, <1>3, <1>6, Zenon DEF Accounted
<1>8. [t EXCEPT !.table = s, !.current_table_size = t.current_table_size + EntrySize(f)] = Pushed(t, f)
  <2>1. PICK v \in Nat : v = t.current_table_size + EntrySize(f)
    BY <1>2, <1>4
  <2>2. PICK x : x = [t EXCEPT !.table = s, !.current_table_size = v]
    BY Zenon
  <2>3. x = [table |-> s, current_table_size |-> v, max_table_size |-> t.max_table_size]
    BY <1>1, <2>2 DEF Table
  <2> QED
    BY <1>5, <2>1, <2>2, <2>3, Zenon
<1>9. push_mdelem_data(t, f) = adjust_dynamic_table_size(Pushed(t, f))
  BY <1>3, <1>8, Zenon DEF push_mdelem_data
<1> QED
  BY <1>3, <1>6, <1>7, <1>9, Zenon

\* Insertions and updates keep the table within its maximum.
LEMMA TableKept ==
  ASSUME NEW t, Fits(t)
  PROVE  /\ \A f \in Field : Fits(push_mdelem_data(t, f))
         /\ \A size \in 0..InitialTableSize : Fits(update_max_table_size(t, size))
<1>1. Accounted(t) /\ t.max_table_size <= InitialTableSize
  BY Zenon DEF Fits
<1>2. ASSUME NEW f \in Field PROVE Fits(push_mdelem_data(t, f))
  <2>1. PICK p : p = Pushed(t, f) /\ Accounted(p) /\ p.max_table_size = t.max_table_size
                 /\ push_mdelem_data(t, f) = adjust_dynamic_table_size(p)
    BY <1>1, PushedIs, Zenon
  <2> DEFINE a == adjust_dynamic_table_size(p)
  <2>2. Accounted(a) /\ a.max_table_size = p.max_table_size /\ a.current_table_size <= a.max_table_size
    BY <2>1, AdjustIs, Zenon
  <2> QED
    BY <1>1, <2>1, <2>2, Zenon DEF Fits
<1>3. ASSUME NEW size \in 0..InitialTableSize PROVE Fits(update_max_table_size(t, size))
  <2>1. t \in Table /\ t.current_table_size = Total(Oldest(t.table))
    BY <1>1, Zenon DEF Accounted
  <2>2. size \in Nat /\ size <= InitialTableSize
    BY HpackAssumption
  <2>3. PICK p : p = [t EXCEPT !.max_table_size = size]
    BY Zenon
  <2>4. p \in Table /\ p.table = t.table /\ p.current_table_size = t.current_table_size
        /\ p.max_table_size = size
    BY <2>1, <2>2, <2>3 DEF Table
  <2>5. Accounted(p)
    BY <2>1, <2>4, Zenon DEF Accounted
  <2> DEFINE a == adjust_dynamic_table_size(p)
  <2>6. Accounted(a) /\ a.max_table_size = p.max_table_size /\ a.current_table_size <= a.max_table_size
    BY <2>5, AdjustIs, Zenon
  <2>7. update_max_table_size(t, size) = a
    BY <2>3, Zenon DEF update_max_table_size
  <2> QED
    BY <2>2, <2>4, <2>6, <2>7, Zenon DEF Fits
<1> QED
  BY <1>2, <1>3, Zenon

-----------------------------------------------------------------------------
(***************************************************************************)
(* One representation.                                                     *)
(***************************************************************************)

\* What decoding carries along, and what is true of it.
Progress == [d : Table, fields : Seq(Field), error : {NoError, CompressionError}]
Sound(acc) == acc \in Progress /\ Fits(acc.d)

\* A representation whose strings have sizes.
WellFormed(rep) ==
  /\ rep.kind \in {"indexed", "update", "incremental", "literal"} /\ rep.index \in Nat
  /\ rep.kind \in {"incremental", "literal"} =>
       rep.value \in Values /\ (rep.index = 0 => rep.key \in Keys)

\* What a representation does to the table.
TableStep(t, u) ==
  \/ u = t
  \/ \E f \in Field : u = push_mdelem_data(t, f)
  \/ \E size \in 0..InitialTableSize : u = update_max_table_size(t, size)

\* An index finds one field or none.
LEMMA FoundField ==
  ASSUME NEW t \in Table, NEW index \in Nat
  PROVE  get_mdelem_data(t, index) \subseteq Field
<1>1. t.table \in Seq(Field) /\ StaticTable \in Seq(Field)
  BY HpackAssumption DEF Table
<1>2. /\ \A i \in 1..Len(t.table) : t.table[i] \in Field
      /\ \A i \in 1..Len(StaticTable) : StaticTable[i] \in Field
  BY <1>1, ElementOfSeq
<1> QED
  BY <1>2, Zenon DEF get_mdelem_data

\* A failure changes the error only.
LEMMA FailsIs ==
  ASSUME NEW acc, Sound(acc)
  PROVE  Sound(Fails(acc)) /\ Fails(acc).d = acc.d
<1>1. acc \in Progress /\ Fits(acc.d)
  BY Zenon DEF Sound
<1>2. PICK x : x = Fails(acc)
  BY Zenon
<1>3. x \in Progress /\ x.d = acc.d
  BY <1>1, <1>2 DEF Fails, Progress
<1> QED
  BY <1>1, <1>2, <1>3, Zenon DEF Sound

\* A field found is appended, the table changed by one step.
LEMMA Decoded ==
  ASSUME NEW acc, Sound(acc), NEW t, Fits(t), NEW f \in Field
  PROVE  /\ Sound([acc EXCEPT !.d = t, !.fields = Append(@, f)])
         /\ [acc EXCEPT !.d = t, !.fields = Append(@, f)]
              = [d |-> t, fields |-> Append(acc.fields, f), error |-> acc.error]
         /\ Append(acc.fields, f) \in Seq(Field)
<1>1. acc \in Progress /\ t \in Table
  BY Zenon DEF Sound, Fits, Accounted
<1>2. Append(acc.fields, f) \in Seq(Field)
  BY <1>1 DEF Progress
<1>3. PICK s \in Seq(Field) : s = Append(acc.fields, f)
  BY <1>2, Zenon
<1>4. PICK x : x = [acc EXCEPT !.d = t, !.fields = s]
  BY Zenon
<1>5. x = [d |-> t, fields |-> s, error |-> acc.error] /\ x \in Progress /\ x.d = t
  BY <1>1, <1>4 DEF Progress
<1> QED
  BY <1>2, <1>3, <1>4, <1>5, Zenon DEF Sound

\* decode_representation keeps the table within its maximum, whatever the
\* representation, and changes it by one step at most.
LEMMA DecodeKeeps ==
  ASSUME NEW acc, Sound(acc), NEW rep, WellFormed(rep)
  PROVE  Sound(decode_representation(acc, rep))
         /\ TableStep(acc.d, decode_representation(acc, rep).d)
<1>1. acc \in Progress /\ Fits(acc.d)
  BY Zenon DEF Sound
<1>2. acc.d \in Table /\ acc.error \in {NoError, CompressionError} /\ acc.fields \in Seq(Field)
  BY <1>1 DEF Progress
<1>3. rep.index \in Nat /\ get_mdelem_data(acc.d, rep.index) \subseteq Field
  BY <1>2, FoundField, Zenon DEF WellFormed
<1>4. CASE acc.error # NoError
  BY <1>4, Zenon DEF decode_representation, TableStep
<1>5. CASE acc.error = NoError /\ rep.kind = "indexed"
  <2>1. decode_representation(acc, rep) = decode_indexed(acc, rep)
    BY <1>5 DEF decode_representation
  <2>2. CASE get_mdelem_data(acc.d, rep.index) = {}
    BY <2>1, <2>2, FailsIs, Zenon DEF decode_indexed, TableStep
  <2>3. CASE get_mdelem_data(acc.d, rep.index) # {}
    <3> DEFINE f == CHOOSE g \in get_mdelem_data(acc.d, rep.index) : TRUE
    <3>1. f \in Field
      BY <1>3, <2>3
    <3>2. decode_indexed(acc, rep) = [acc EXCEPT !.fields = @ \o <<f>>]
      BY <2>3, Zenon DEF decode_indexed
    <3> HIDE DEF f
    <3>3. acc.fields \o <<f>> \in Seq(Field)
      BY <1>2, <3>1
    <3>4. PICK s \in Seq(Field) : s = acc.fields \o <<f>>
      BY <3>3, Zenon
    <3>5. PICK x : x = [acc EXCEPT !.fields = s]
      BY Zenon
    <3>6. x \in Progress /\ x.d = acc.d
      BY <1>1, <3>5 DEF Progress
    <3> QED
      BY <1>1, <2>1, <3>2, <3>4, <3>5, <3>6, Zenon DEF Sound, TableStep
  <2> QED
    BY <2>2, <2>3
<1>6. CASE acc.error = NoError /\ rep.kind = "update"
  <2>1. decode_representation(acc, rep) = decode_size_update(acc, rep)
    BY <1>6 DEF decode_representation
  <2>2. CASE rep.index > max_table_size_limit
    BY <2>1, <2>2, FailsIs, Zenon DEF decode_size_update, TableStep
  <2>3. CASE ~ (rep.index > max_table_size_limit)
    <3>1. rep.index \in 0..InitialTableSize
      BY <1>3, <2>3, HpackAssumption DEF max_table_size_limit
    <3>2. PICK t : t = update_max_table_size(acc.d, rep.index) /\ Fits(t)
      BY <1>1, <3>1, TableKept, Zenon
    <3>3. t \in Table
      BY <3>2, Zenon DEF Fits, Accounted
    <3>4. PICK x : x = [acc EXCEPT !.d = t]
      BY Zenon
    <3>5. x \in Progress /\ x.d = t
      BY <1>1, <3>3, <3>4 DEF Progress
    <3>6. decode_size_update(acc, rep) = x
      BY <2>3, <3>2, <3>4, Zenon DEF decode_size_update
    <3> QED
      BY <2>1, <3>1, <3>2, <3>5, <3>6, Zenon DEF Sound, TableStep
  <2> QED
    BY <2>2, <2>3
<1>7. CASE acc.error = NoError /\ rep.kind \in {"incremental", "literal"}
  <2> DEFINE named == IF rep.index = 0 THEN {rep.key}
                      ELSE {g.key : g \in get_mdelem_data(acc.d, rep.index)}
             field == [key |-> CHOOSE k \in named : TRUE, value |-> rep.value]
             added == IF rep.kind = "incremental" THEN push_mdelem_data(acc.d, field) ELSE acc.d
  <2>1. decode_representation(acc, rep) = decode_literal(acc, rep)
    BY <1>7 DEF decode_representation
  <2>2. decode_literal(acc, rep) = IF named = {} THEN Fails(acc)
                                   ELSE [acc EXCEPT !.d = added, !.fields = Append(@, field)]
    BY Zenon DEF decode_literal
  <2>3. CASE named = {}
    BY <2>1, <2>2, <2>3, FailsIs, Zenon DEF TableStep
  <2>4. CASE named # {}
    <3>1. named \subseteq Keys
      <4>1. \A g \in Field : g.key \in Keys
        BY DEF Field
      <4>2. rep.index = 0 => rep.key \in Keys
        BY <1>7, Zenon DEF WellFormed
      <4> QED
        BY <1>3, <4>1, <4>2, Zenon
    <3>2. rep.value \in Values
      BY <1>7, Zenon DEF WellFormed
    <3>3. field \in Field
      <4>1. (CHOOSE k \in named : TRUE) \in Keys
        BY <2>4, <3>1, Zenon
      <4> HIDE DEF named
      <4> QED
        BY <3>2, <4>1 DEF Field
    <3> HIDE DEF named, field
    <3>4. Fits(added) /\ TableStep(acc.d, added)
      BY <1>1, <3>3, TableKept, Zenon DEF TableStep
    <3> HIDE DEF added
    <3>5. PICK x : x = [acc EXCEPT !.d = added, !.fields = Append(@, field)] /\ Sound(x)
                   /\ x = [d |-> added, fields |-> Append(acc.fields, field), error |-> acc.error]
      BY <3>3, <3>4, Decoded, Zenon
    <3>6. x.d = added
      BY <3>5
    <3> QED
      BY <2>1, <2>2, <2>4, <3>4, <3>5, <3>6, Zenon
  <2> QED
    BY <2>3, <2>4
<1> QED
  BY <1>2, <1>4, <1>5, <1>6, <1>7, Zenon DEF WellFormed

-----------------------------------------------------------------------------
(***************************************************************************)
(* A frame, representation by representation.                              *)
(***************************************************************************)

\* The steps of decode_headers, one for each representation of the block.
Decoding(run, t, block) ==
  /\ run[0] = [d |-> t, fields |-> <<>>, error |-> NoError]
  /\ \A i \in 1..Len(block) : /\ run[i - 1] \in Progress
                              /\ run[i] = decode_representation(run[i - 1], block[i])
  /\ Sound(run[Len(block)])

\* decode_headers takes them.
LEMMA DecodingIs ==
  ASSUME NEW t, Fits(t), NEW block, Len(block) \in Nat,
         \A i \in 1..Len(block) : WellFormed(block[i]), NEW cut \in BOOLEAN
  PROVE  \E run : /\ Decoding(run, t, block)
                  /\ decode_headers(t, block, cut) =
                       IF cut /\ run[Len(block)].error = NoError
                       THEN Fails(run[Len(block)]) ELSE run[Len(block)]
<1> DEFINE first == [d |-> t, fields |-> <<>>, error |-> NoError]
           S == {acc \in Progress : Sound(acc)}
           next == [i \in 1..Len(block) |-> [acc \in S |-> decode_representation(acc, block[i])]]
           Is(f) == f = [i \in 0..Len(block) |->
                           IF i = 0 THEN first ELSE decode_representation(f[i - 1], block[i])]
           run == CHOOSE f : Is(f)
<1>1. first \in S
  <2>1. t \in Table
    BY Zenon DEF Fits, Accounted
  <2>2. first \in Progress /\ first.d = t
    BY <2>1 DEF Progress
  <2> QED
    BY <2>2, Zenon DEF Sound
<1>2. \A acc \in S, i \in 1..Len(block) : decode_representation(acc, block[i]) \in S
  BY DecodeKeeps, Zenon DEF Sound
<1> HIDE DEF S, first
<1>3. next \in [1..Len(block) -> [S -> S]]
  BY <1>2
<1>4. \A acc \in S, i \in 1..Len(block) : next[i][acc] = decode_representation(acc, block[i])
  OBVIOUS
<1> HIDE DEF next
<1>5. PICK f \in [0..Len(block) -> S] : f[0] = first /\ \A i \in 1..Len(block) : f[i] = next[i][f[i - 1]]
  <2>1. PICK f : Steps(f, S, first, next, Len(block))
    BY <1>1, <1>3, Iterate, Zenon
  <2> QED
    BY <2>1 DEF Steps
<1>6. Is(f)
  <2>1. ASSUME NEW i \in 1..Len(block) PROVE f[i] = decode_representation(f[i - 1], block[i])
    BY <1>4, <1>5
  <2>2. ASSUME NEW i \in 0..Len(block) PROVE f[i] = IF i = 0 THEN first ELSE decode_representation(f[i - 1], block[i])
    BY <1>5, <2>1
  <2>3. f = [i \in 0..Len(block) |-> f[i]]
    BY <1>5
  <2> QED
    BY <2>2, <2>3
<1>7. Is(run)
  <2> HIDE DEF Is
  <2> QED
    BY <1>6
<1>8. decode_headers(t, block, cut) =
        IF cut /\ run[Len(block)].error = NoError THEN Fails(run[Len(block)]) ELSE run[Len(block)]
  BY Zenon DEF decode_headers, first
<1>9. \A i \in 0..Len(block) : run[i] = IF i = 0 THEN first ELSE decode_representation(run[i - 1], block[i])
  <2> HIDE DEF run
  <2> QED
    BY <1>7
<1> HIDE DEF run
<1>10. \A i \in 0..Len(block) : run[i] \in S
  <2> DEFINE T == {k \in Nat : k <= Len(block) => run[k] \in S}
  <2>1. 0 \in T
    BY <1>1, <1>9
  <2>2. ASSUME NEW k \in Nat, k \in T PROVE k + 1 \in T
    <3> SUFFICES ASSUME k + 1 <= Len(block) PROVE run[k + 1] \in S
      OBVIOUS
    <3>1. k + 1 \in 0..Len(block) /\ k + 1 \in 1..Len(block) /\ k + 1 # 0 /\ (k + 1) - 1 = k /\ k <= Len(block)
      OBVIOUS
    <3>2. run[k] \in S
      BY <2>2, <3>1
    <3>3. run[k + 1] = decode_representation(run[k], block[k + 1])
      BY <1>9, <3>1
    <3> QED
      BY <1>2, <3>1, <3>2, <3>3, Zenon
  <2>3. Nat \subseteq T
    <3> HIDE DEF T
    <3> QED
      BY <2>1, <2>2, SetInduction
  <2> QED
    BY <2>3
<1>11. \A i \in 0..Len(block) : run[i] \in Progress /\ Sound(run[i])
  BY <1>10, Zenon DEF S
<1>12. run[0] = first
  BY <1>9
<1>13. ASSUME NEW i \in 1..Len(block)
       PROVE  run[i - 1] \in Progress /\ run[i] = decode_representation(run[i - 1], block[i])
  <2>1. i \in 0..Len(block) /\ i # 0 /\ i - 1 \in 0..Len(block)
    OBVIOUS
  <2> QED
    BY <1>9, <1>11, <2>1, Zenon
<1>14. Len(block) \in 0..Len(block)
  OBVIOUS
<1>15. Decoding(run, t, block)
  BY <1>11, <1>12, <1>13, <1>14, Zenon DEF Decoding, first
<1> QED
  BY <1>8, <1>15, Zenon

\* A frame of one representation.
LEMMA DecodeOne ==
  ASSUME NEW t, Fits(t), NEW rep, WellFormed(rep), NEW cut \in BOOLEAN
  PROVE  LET r == decode_headers(t, <<rep>>, cut)
         IN  Sound(r) /\ TableStep(t, r.d)
<1> DEFINE block == <<rep>>
           r == decode_headers(t, block, cut)
<1>1. Len(block) = 1 /\ block[1] = rep /\ Len(block) \in Nat
  OBVIOUS
<1>2. \A i \in 1..Len(block) : WellFormed(block[i])
  <2>1. \A i \in 1..1 : i = 1
    OBVIOUS
  <2> QED
    BY <1>1, <2>1, Zenon
<1> HIDE DEF block
<1>3. PICK run : /\ Decoding(run, t, block)
                 /\ r = IF cut /\ run[Len(block)].error = NoError
                        THEN Fails(run[Len(block)]) ELSE run[Len(block)]
  BY <1>1, <1>2, DecodingIs, Zenon
<1>4. 1 \in 1..1 /\ 1 - 1 = 0
  OBVIOUS
<1>5. run[0] = [d |-> t, fields |-> <<>>, error |-> NoError] /\ run[0] \in Progress
      /\ run[1] = decode_representation(run[0], rep)
  BY <1>1, <1>3, <1>4, Zenon DEF Decoding
<1>6. run[0].d = t
  BY <1>5
<1>7. Sound(run[0])
  BY <1>5, <1>6, Zenon DEF Sound
<1>8. Sound(run[1]) /\ TableStep(t, run[1].d)
  BY <1>5, <1>6, <1>7, DecodeKeeps, Zenon
<1>9. Sound(r) /\ TableStep(t, r.d)
  BY <1>1, <1>3, <1>8, FailsIs, Zenon
<1> QED
  BY <1>9, Zenon DEF block

-----------------------------------------------------------------------------
(***************************************************************************)
(* The receiver.                                                           *)
(***************************************************************************)

\* A step of the receiver is a step of the table.
LEMMA ReceiverStep ==
  ASSUME Fits(d), ReceiverNext
  PROVE  Fits(d') /\ TableStep(d, d') /\ error' \in {NoError, CompressionError}
<1>0. ASSUME NEW rep \in Representations PROVE WellFormed(rep)
  <2>1. rep \in [kind : {"indexed", "update", "incremental", "literal"}, index : Nat,
                 key : Keys \cup {""}, value : Values \cup {""}]
    BY ReceiverAssumption, Zenon
  <2>2. rep.kind \in {"indexed", "update", "incremental", "literal"} /\ rep.index \in Nat
    BY <2>1
  <2> QED
    BY <2>2, ReceiverAssumption, Zenon DEF WellFormed
<1>1. \E rep, cut : WellFormed(rep) /\ cut \in BOOLEAN /\ ReceivedFragment(<<rep>>, cut)
  <2>1. CASE \E rep \in Representations, cut \in BOOLEAN : ReceivedFragment(<<rep>>, cut)
    BY <1>0, <2>1, Zenon
  <2>2. ASSUME NEW rep \in Representations, NEW value \in Values, ReceivedOverrun(rep, value)
        PROVE  \E r, cut : WellFormed(r) /\ cut \in BOOLEAN /\ ReceivedFragment(<<r>>, cut)
    <3>1. rep \in [kind : {"indexed", "update", "incremental", "literal"}, index : Nat,
                   key : Keys \cup {""}, value : Values \cup {""}]
      BY ReceiverAssumption, Zenon
    <3>2. PICK r : /\ r = [rep EXCEPT !.value = value]
                   /\ r.kind = rep.kind /\ r.index = rep.index /\ r.key = rep.key
                   /\ r.value = value
      <4> DEFINE q == [rep EXCEPT !.value = value]
      <4>1. q.kind = rep.kind /\ q.index = rep.index /\ q.key = rep.key /\ q.value = value
        BY <3>1
      <4> QED
        BY <4>1, Zenon
    <3>3. WellFormed(r)
      BY <1>0, <3>2, Zenon DEF WellFormed
    <3>4. ReceivedFragment(<<r>>, FALSE)
      BY <2>2, <3>2, Zenon DEF ReceivedOverrun
    <3> QED
      BY <3>3, <3>4, Zenon
  <2> QED
    BY <2>1, <2>2, Zenon DEF ReceiverNext
<1>2. PICK rep, cut : WellFormed(rep) /\ cut \in BOOLEAN /\ ReceivedFragment(<<rep>>, cut)
  BY <1>1, Zenon
<1>3. PICK r : r = decode_headers(d, <<rep>>, cut) /\ Sound(r) /\ TableStep(d, r.d)
  BY <1>2, DecodeOne, Zenon
<1>4. d' = r.d /\ error' = r.error
  BY <1>2, <1>3, Zenon DEF ReceivedFragment
<1>5. Fits(r.d) /\ r \in Progress
  BY <1>3, Zenon DEF Sound
<1>6. r.error \in {NoError, CompressionError}
  BY <1>5 DEF Progress
<1> QED
  BY <1>3, <1>4, <1>5, <1>6, Zenon

\* The invariant, in terms of the table.
ReceiverInv == Fits(d) /\ error \in {NoError, CompressionError}

\* It says what TableFits says.
LEMMA FitsIsTableFits ==
  ASSUME ReceiverInv
  PROVE  TableFits
<1>1. d \in Table /\ d.current_table_size = Total(Oldest(d.table))
      /\ d.current_table_size <= d.max_table_size /\ d.max_table_size <= InitialTableSize
  BY Zenon DEF ReceiverInv, Fits, Accounted
<1>2. d.table \in Seq(Field) /\ d.max_table_size \in 0..InitialTableSize
  BY <1>1, HpackAssumption DEF Table
<1>3. d.current_table_size = BackSize(d.table, Len(d.table))
  BY <1>1, <1>2, BackSizeAll, Zenon
<1>4. d \in [table : Seq(Field), current_table_size : Nat, max_table_size : 0..InitialTableSize]
  BY <1>1, <1>2 DEF Table
<1> QED
  BY <1>1, <1>3, <1>4, Zenon DEF TableFits, ReceiverTypeOK, ReceiverInv

\* A new table is empty.
LEMMA EmptyFits == Fits(dynamic_metadata_table)
<1> DEFINE t == dynamic_metadata_table
<1>1. t \in Table /\ t.table = <<>> /\ t.current_table_size = 0 /\ t.max_table_size = InitialTableSize
  BY HpackAssumption DEF Table, dynamic_metadata_table
<1> HIDE DEF t
<1>2. <<>> \in Seq(Field) /\ Len(<<>>) = 0
  OBVIOUS
<1>3. Oldest(<<>>) = <<>>
  <2>1. Oldest(<<>>) \in Seq(Nat) /\ Len(Oldest(<<>>)) = 0
    BY <1>2, OldestIs, Zenon
  <2> QED
    BY <2>1
<1>4. Total(Oldest(t.table)) = 0
  BY <1>1, <1>3, TotalEmpty, Zenon
<1>5. Accounted(t)
  BY <1>1, <1>4, Zenon DEF Accounted
<1>6. 0 <= InitialTableSize /\ InitialTableSize <= InitialTableSize
  BY HpackAssumption
<1> QED
  BY <1>1, <1>5, <1>6, Zenon DEF Fits, t

\* The invariant holds throughout.
LEMMA ReceiverKeeps == ReceiverSpec => []ReceiverInv
<1>1. ReceiverInit => ReceiverInv
  BY EmptyFits, Zenon DEF ReceiverInit, ReceiverInv
<1>2. ReceiverInv /\ [ReceiverNext]_receiverVars => ReceiverInv'
  <2> SUFFICES ASSUME ReceiverInv, [ReceiverNext]_receiverVars PROVE ReceiverInv'
    OBVIOUS
  <2>1. CASE ReceiverNext
    <3>1. Fits(d') /\ error' \in {NoError, CompressionError}
      BY <2>1, ReceiverStep, Zenon DEF ReceiverInv
    <3> QED
      BY <3>1, Zenon DEF ReceiverInv, Fits, Accounted
  <2>2. CASE UNCHANGED receiverVars
    <3>1. d' = d /\ error' = error
      BY <2>2 DEF receiverVars
    <3> QED
      BY <3>1, Zenon DEF ReceiverInv, Fits, Accounted
  <2> QED
    BY <2>1, <2>2, Zenon
<1> QED
  BY <1>1, <1>2, PTL DEF ReceiverSpec

\* TableFits: whatever representations a peer sends, in whatever order and
\* cut anywhere, the size kept beside the deque is the size of its entries
\* and never exceeds the maximum, which never exceeds the limit.  For every
\* static table, all sizes of strings, and any limit.
THEOREM TableAlwaysFits == ReceiverSpec => []TableFits
<1>1. ReceiverInv => TableFits
  BY FitsIsTableFits
<1> QED
  BY <1>1, ReceiverKeeps, PTL

-----------------------------------------------------------------------------
\* u.table is what is left of the entries full: the newest of them, and with
\* one more they would not fit.
LeftOf(full, u) ==
  LET kept == Len(u.table)
  IN  /\ kept <= Len(full)
      /\ u.table = SubSeq(full, 1, kept)
      /\ kept < Len(full) => BackSize(SubSeq(full, 1, kept + 1), kept + 1) > u.max_table_size

\* That is what adjust_dynamic_table_size leaves.
LEMMA AdjustLeaves ==
  ASSUME NEW t, Accounted(t)
  PROVE  LeftOf(t.table, adjust_dynamic_table_size(t))
<1> DEFINE n == Excess(Oldest(t.table), t.max_table_size)
           a == adjust_dynamic_table_size(t)
<1>1. /\ n \in 0..Len(t.table)
      /\ a.max_table_size = t.max_table_size
      /\ a.table = SubSeq(t.table, 1, Len(t.table) - n)
  BY AdjustIs, Zenon
<1>2. t \in Table
  BY Zenon DEF Accounted
<1>3. t.table \in Seq(Field) /\ t.max_table_size \in Int
  BY <1>2 DEF Table
<1>4. PICK w \in Seq(Nat) : w = Oldest(t.table) /\ Len(w) = Len(t.table)
  BY <1>3, OldestIs, Zenon
<1>5. \A k \in 0..Len(w) : Total(Drop(w, k)) <= t.max_table_size => n <= k
  BY <1>3, <1>4, ExcessIs, Zenon
<1> HIDE DEF n, a
<1>6. PICK m \in Nat : m = Len(t.table) /\ n \in 0..m /\ m - n \in Nat
  BY <1>1, <1>3
<1>7. Len(a.table) = m - n
  BY <1>1, <1>3, <1>6, OldestDrop, Zenon
<1>8. a.table = SubSeq(t.table, 1, Len(a.table)) /\ Len(a.table) <= Len(t.table)
  <2>1. m - n <= m
    BY <1>6
  <2> QED
    BY <1>1, <1>6, <1>7, <2>1, Zenon
<1>9. ASSUME Len(a.table) < Len(t.table)
      PROVE  BackSize(SubSeq(t.table, 1, Len(a.table) + 1), Len(a.table) + 1) > a.max_table_size
  <2>1. PICK k \in 0..m : k = n - 1 /\ (m - n) + 1 = m - k /\ ~ (n <= k)
    <3>1. n - 1 \in 0..m /\ (m - n) + 1 = m - (n - 1) /\ ~ (n <= n - 1)
      BY <1>6, <1>7, <1>9
    <3> QED
      BY <3>1
  <2>2. k \in 0..Len(t.table) /\ k \in 0..Len(w)
    BY <1>4, <1>6
  <2>3. PICK s \in Seq(Field) : /\ s = SubSeq(t.table, 1, Len(t.table) - k)
                                /\ Len(s) = Len(t.table) - k /\ Oldest(s) = Drop(w, k)
    BY <1>3, <1>4, <2>2, OldestDrop, Zenon
  <2>4. BackSize(s, Len(s)) = Total(Drop(w, k)) /\ Total(Drop(w, k)) \in Nat
    BY <2>3, BackSizeAll, Zenon
  <2>5. ~ (Total(Drop(w, k)) <= t.max_table_size)
    BY <1>5, <2>1, <2>2, Zenon
  <2>6. Total(Drop(w, k)) > t.max_table_size
    BY <1>3, <2>4, <2>5
  <2>7. Len(a.table) + 1 = Len(s) /\ SubSeq(t.table, 1, Len(a.table) + 1) = s
    BY <1>6, <1>7, <2>1, <2>3, Zenon
  <2> QED
    BY <1>1, <2>4, <2>6, <2>7, Zenon
<1> QED
  BY <1>8, <1>9, Zenon DEF LeftOf, a

\* EvictsOnlyWhatMust: a representation inserts one entry at most, and what
\* then leaves the table are its oldest entries, and only those without which
\* the rest fits: RFC 7541, 4.3 and 4.4, for every sequence of insertions and
\* size updates.
THEOREM EvictsOnlyForRoom == ReceiverSpec => EvictsOnlyWhatMust
<1> DEFINE Additions == {<<>>} \cup {<<f>> : f \in Field}
<1>1. ASSUME Fits(d), TableStep(d, d') PROVE \E added \in Additions : LeftOf(added \o d.table, d')
  <2>1. Accounted(d) /\ d \in Table
    BY <1>1, Zenon DEF Fits, Accounted
  <2>2. d.table \in Seq(Field) /\ <<>> \o d.table = d.table
    BY <2>1 DEF Table
  <2>3. CASE d' = d
    <3>1. PICK s \in Seq(Field) : s = d.table
      BY <2>2
    <3>2. Len(s) <= Len(s) /\ s = SubSeq(s, 1, Len(s)) /\ ~ (Len(s) < Len(s))
      OBVIOUS
    <3>3. LeftOf(s, d)
      BY <3>1, <3>2, Zenon DEF LeftOf
    <3>4. LeftOf(<<>> \o d.table, d')
      BY <2>2, <2>3, <3>1, <3>3, Zenon
    <3> QED
      BY <3>4, Zenon
  <2>4. ASSUME NEW f \in Field, d' = push_mdelem_data(d, f)
        PROVE  \E added \in Additions : LeftOf(added \o d.table, d')
    <3>1. LeftOf(<<f>> \o d.table, d')
      BY <2>1, <2>4, PushedIs, AdjustLeaves, Zenon
    <3> QED
      BY <3>1, Zenon
  <2>5. ASSUME NEW size \in 0..InitialTableSize, d' = update_max_table_size(d, size)
        PROVE  \E added \in Additions : LeftOf(added \o d.table, d')
    <3>1. size \in Nat
      BY HpackAssumption
    <3>2. PICK p : p = [d EXCEPT !.max_table_size = size]
      BY Zenon
    <3>3. p \in Table /\ p.table = d.table /\ p.current_table_size = d.current_table_size
      BY <2>1, <3>1, <3>2 DEF Table
    <3>4. Accounted(p)
      BY <2>1, <3>3, Zenon DEF Accounted
    <3>5. LeftOf(p.table, d')
      BY <2>5, <3>2, <3>4, AdjustLeaves, Zenon DEF update_max_table_size
    <3>6. LeftOf(<<>> \o d.table, d')
      BY <2>2, <3>3, <3>5, Zenon
    <3> QED
      BY <3>6, Zenon
  <2> QED
    BY <1>1, <2>3, <2>4, <2>5, Zenon DEF TableStep
<1>2. ASSUME ReceiverInv, [ReceiverNext]_receiverVars
      PROVE  \/ \E added \in Additions : LeftOf(added \o d.table, d')
             \/ UNCHANGED d
  <2>1. CASE ReceiverNext
    <3>1. Fits(d) /\ TableStep(d, d')
      BY <1>2, <2>1, ReceiverStep, Zenon DEF ReceiverInv
    <3> QED
      BY <1>1, <3>1, Zenon
  <2>2. CASE UNCHANGED receiverVars
    BY <2>2 DEF receiverVars
  <2> QED
    BY <1>2, <2>1, <2>2, Zenon
<1>3. ReceiverSpec => []ReceiverInv
  BY ReceiverKeeps
<1>4. ReceiverInv /\ [ReceiverNext]_receiverVars =>
        [\E added \in {<<>>} \cup {<<f>> : f \in Field} :
           LET full == added \o d.table
               kept == Len(d'.table)
           IN  /\ kept <= Len(full)
               /\ d'.table = SubSeq(full, 1, kept)
               /\ kept < Len(full) =>
                    BackSize(SubSeq(full, 1, kept + 1), kept + 1) > d'.max_table_size]_d
  BY <1>2, Zenon DEF LeftOf
<1> QED
  BY <1>3, <1>4, PTL DEF ReceiverSpec, EvictsOnlyWhatMust

-----------------------------------------------------------------------------
(***************************************************************************)
(* Compressor and decoder.                                                 *)
(***************************************************************************)

\* Quotient and remainder.
LEMMA DivMod ==
  ASSUME NEW x \in Int, NEW b \in Nat \ {0}
  PROVE  x \div b \in Int /\ x % b \in 0..(b - 1) /\ x = b * (x \div b) + (x % b)
OBVIOUS

\* Multiples of b are b apart.
LEMMA MultiplesApart ==
  ASSUME NEW b \in Nat \ {0}, NEW p \in Int, NEW q \in Int, p < q
  PROVE  b * p + b <= b * q
<1>1. PICK k \in Nat : q = p + 1 + k
  <2>1. q - p - 1 \in Nat /\ q = p + 1 + (q - p - 1)
    OBVIOUS
  <2> QED
    BY <2>1
<1>2. b * q = b * p + b + b * k
  BY <1>1
<1>3. b * k \in Nat /\ b * p \in Int
  OBVIOUS
<1> QED
  BY <1>2, <1>3

\* As many entries as there is room for: elems_for_bytes.
LEMMA ElemsForBytes ==
  ASSUME NEW n \in Nat, NEW m \in Nat, n * Overhead <= m
  PROVE  n <= elems_for_bytes(m)
<1>0. PICK b \in Nat \ {0} : b = Overhead
  BY HpackAssumption
<1>1. PICK q \in Int, r \in 0..(b - 1) : (m + b - 1) \div b = q /\ m + b - 1 = b * q + r
  <2>1. m + b - 1 \in Int
    OBVIOUS
  <2> QED
    BY <2>1, DivMod
<1>2. SUFFICES ASSUME q < n PROVE FALSE
  BY <1>0, <1>1 DEF elems_for_bytes
<1>3. b * q + b <= b * n
  BY <1>2, MultiplesApart
<1>4. b * n = n * b /\ b * q \in Int /\ b * n \in Int
  OBVIOUS
<1> QED
  BY <1>0, <1>1, <1>3, <1>4

\* It is a natural number.
LEMMA ElemsForBytesType ==
  ASSUME NEW m \in Nat
  PROVE  elems_for_bytes(m) \in Nat /\ (m # 0 => elems_for_bytes(m) # 0)
<1>0. PICK b \in Nat \ {0} : b = Overhead
  BY HpackAssumption
<1>1. PICK q \in Int, r \in 0..(b - 1) : (m + b - 1) \div b = q /\ m + b - 1 = b * q + r
  <2>1. m + b - 1 \in Int
    OBVIOUS
  <2> QED
    BY <2>1, DivMod
<1>2. q >= 0
  <2>1. SUFFICES ASSUME q < 0 PROVE FALSE
    BY <1>1
  <2>2. b * q + b <= b * 0 /\ b * 0 = 0 /\ b * q \in Int
    BY <2>1, MultiplesApart
  <2> QED
    BY <1>1, <2>2
<1>3. m # 0 => q # 0
  <2>1. SUFFICES ASSUME m # 0, q = 0 PROVE FALSE
    OBVIOUS
  <2>2. b * 0 = 0
    OBVIOUS
  <2> QED
    BY <1>1, <2>1, <2>2
<1> QED
  BY <1>0, <1>1, <1>2, <1>3 DEF elems_for_bytes

\* Numbers less than b apart have different places in a ring of b.
LEMMA PlacesDiffer ==
  ASSUME NEW b \in Nat \ {0}, NEW i \in Nat, NEW j \in Nat, i < j, j - i < b
  PROVE  i % b # j % b
<1>0. i \in Int /\ j \in Int
  OBVIOUS
<1>1. PICK p \in Int, r \in 0..(b - 1) : i % b = r /\ i = b * p + r
  <2>1. i \div b \in Int /\ i % b \in 0..(b - 1) /\ i = b * (i \div b) + (i % b)
    BY <1>0, DivMod, Zenon
  <2> QED
    BY <2>1, Zenon
<1>2. PICK q \in Int, s \in 0..(b - 1) : j % b = s /\ j = b * q + s
  <2>1. j \div b \in Int /\ j % b \in 0..(b - 1) /\ j = b * (j \div b) + (j % b)
    BY <1>0, DivMod, Zenon
  <2> QED
    BY <2>1, Zenon
<1>3. SUFFICES ASSUME r = s PROVE FALSE
  BY <1>1, <1>2
<1>4. b * p \in Int /\ b * q \in Int
  OBVIOUS
<1>5. CASE p < q
  <2>1. b * p + b <= b * q
    BY <1>5, MultiplesApart
  <2> QED
    BY <1>1, <1>2, <1>3, <1>4, <2>1
<1>6. CASE q < p
  <2>1. b * q + b <= b * p
    BY <1>6, MultiplesApart
  <2> QED
    BY <1>1, <1>2, <1>3, <1>4, <2>1
<1>7. CASE p = q
  BY <1>1, <1>2, <1>3, <1>4, <1>7
<1> QED
  BY <1>5, <1>6, <1>7

\* A total of numbers none of which is less than b.
LEMMA TotalAtLeast ==
  ASSUME NEW w \in Seq(Nat), NEW b \in Nat, \A i \in 1..Len(w) : w[i] >= b
  PROVE  Len(w) * b <= Total(w)
<1>1. w \in Seq(Int)
  OBVIOUS
<1>2. PICK m \in Nat : Len(w) = m
  OBVIOUS
<1>3. PICK f \in [0..m -> Int] : /\ f[0] = 0 /\ f[m] = Total(w)
                                 /\ \A i \in 1..m : f[i] = f[i - 1] + w[i]
  BY <1>1, <1>2, TotalSteps
<1> DEFINE T == {n \in Nat : n <= m => n * b <= f[n]}
<1>4. 0 \in T
  BY <1>3
<1>5. ASSUME NEW n \in Nat, n \in T PROVE n + 1 \in T
  <2> SUFFICES ASSUME n + 1 <= m PROVE (n + 1) * b <= f[n + 1]
    OBVIOUS
  <2>1. n + 1 \in 1..m /\ (n + 1) - 1 = n /\ n \in 0..m
    OBVIOUS
  <2>2. f[n + 1] = f[n] + w[n + 1]
    BY <1>3, <2>1
  <2>3. n * b <= f[n] /\ f[n] \in Int
    BY <1>5, <2>1
  <2>4. w[n + 1] >= b /\ w[n + 1] \in Nat
    BY <1>2, <2>1, ElementOfSeq
  <2>5. (n + 1) * b = n * b + b /\ n * b \in Int
    OBVIOUS
  <2> QED
    BY <2>2, <2>3, <2>4, <2>5, SMTT(30)
<1>6. Nat \subseteq T
  <2> HIDE DEF T
  <2> QED
    BY <1>4, <1>5, SetInduction
<1>7. m \in T
  BY <1>6
<1> QED
  BY <1>2, <1>3, <1>7

-----------------------------------------------------------------------------
(***************************************************************************)
(* The ring.                                                               *)
(***************************************************************************)

Entry == [mdel : Field \cup {NoField}, index : Nat]
Sizes == UNION {[0..(n - 1) -> Nat] : n \in Nat}
Compressor ==
  [max_table_size : Nat, cap_table_elems : Nat \ {0}, tail_remote_index : Nat, table_size : Int,
   table_elems : Nat, table_elem_size : Sizes, entries : [Slots -> Entry]]

\* The sizes of the live entries, oldest first.
LiveSizes(r) == [i \in 1..r.table_elems |-> SizeAt(r, r.tail_remote_index + i)]

\* The ring has room for as many sizes as the table can have entries, and
\* table_size is the size of the live ones, which fit.
RingOK(r) ==
  /\ r \in Compressor
  /\ r.table_elem_size \in [0..(r.cap_table_elems - 1) -> Nat]
  /\ r.max_table_size <= InitialTableSize
  /\ elems_for_bytes(r.max_table_size) <= r.cap_table_elems
  /\ \A i \in 1..r.table_elems : LiveSizes(r)[i] > Overhead
  /\ r.table_size = Total(LiveSizes(r))
  /\ r.table_size <= r.max_table_size

\* The live sizes of a ring.
LEMMA LiveSizesIs ==
  ASSUME NEW r \in Compressor, r.table_elem_size \in [0..(r.cap_table_elems - 1) -> Nat]
  PROVE  /\ LiveSizes(r) \in Seq(Nat) /\ Len(LiveSizes(r)) = r.table_elems
         /\ \A i \in 1..r.table_elems : LiveSizes(r)[i] = SizeAt(r, r.tail_remote_index + i)
         /\ \A i \in Nat : SizeAt(r, i) \in Nat
<1>1. r.table_elems \in Nat /\ r.tail_remote_index \in Nat /\ r.cap_table_elems \in Nat \ {0}
  BY DEF Compressor
<1>2. PICK b \in Nat \ {0} : b = r.cap_table_elems
  BY <1>1
<1>3. ASSUME NEW i \in Nat PROVE SizeAt(r, i) \in Nat
  <2>1. i % b \in 0..(b - 1)
    BY DivMod
  <2>2. r.table_elem_size \in [0..(b - 1) -> Nat]
    BY <1>2, Zenon
  <2>3. r.table_elem_size[i % b] \in Nat
    BY <2>1, <2>2
  <2> QED
    BY <1>2, <2>3, Zenon DEF SizeAt
<1>4. PICK m \in Nat, t \in Nat : m = r.table_elems /\ t = r.tail_remote_index
  BY <1>1
<1>5. \A i \in 1..m : t + i \in Nat
  OBVIOUS
<1>6. \A i \in 1..m : SizeAt(r, t + i) \in Nat
  BY <1>3, <1>5, Zenon
<1>7. LiveSizes(r) = [i \in 1..m |-> SizeAt(r, t + i)]
  BY <1>4, Zenon DEF LiveSizes
<1>8. LiveSizes(r) \in Seq(Nat) /\ Len(LiveSizes(r)) = m /\ \A i \in 1..m : LiveSizes(r)[i] = SizeAt(r, t + i)
  BY <1>6, <1>7
<1> QED
  BY <1>3, <1>4, <1>8, Zenon

\* What a ring that is in order has for certain: never more entries than
\* elems_for_bytes says, and so no more than places.
LEMMA RingFacts ==
  ASSUME NEW r, RingOK(r)
  PROVE  /\ r.table_elems <= elems_for_bytes(r.max_table_size)
         /\ r.table_elems <= r.cap_table_elems
         /\ r.table_size \in Nat
         /\ r.table_size > 0 <=> r.table_elems > 0
<1>1. r \in Compressor /\ r.table_elem_size \in [0..(r.cap_table_elems - 1) -> Nat]
      /\ elems_for_bytes(r.max_table_size) <= r.cap_table_elems
      /\ (\A i \in 1..r.table_elems : LiveSizes(r)[i] > Overhead)
      /\ r.table_size = Total(LiveSizes(r)) /\ r.table_size <= r.max_table_size
  BY Zenon DEF RingOK
<1>2. r.table_elems \in Nat /\ r.max_table_size \in Nat /\ r.cap_table_elems \in Nat
  BY <1>1 DEF Compressor
<1>3. PICK w \in Seq(Nat) : w = LiveSizes(r) /\ Len(w) = r.table_elems
  BY <1>1, LiveSizesIs, Zenon
<1>4. PICK b \in Nat \ {0} : b = Overhead
  BY HpackAssumption
<1>5. \A i \in 1..Len(w) : w[i] >= b
  <2> TAKE i \in 1..Len(w)
  <2>1. w[i] > b
    BY <1>1, <1>3, <1>4, Zenon
  <2>2. w[i] \in Nat
    BY ElementOfSeq
  <2> QED
    BY <2>1, <2>2
<1>6. Len(w) * b <= Total(w) /\ Total(w) \in Nat
  BY <1>5, TotalAtLeast, TotalNat
<1>7. PICK m \in Nat, v \in Nat, l \in Nat : m = r.table_elems /\ v = r.table_size /\ l = r.max_table_size
  BY <1>1, <1>2, <1>3, <1>6, Zenon
<1>8. m * b <= v /\ v <= l /\ m * b \in Nat
  <2>1. m * b \in Nat
    OBVIOUS
  <2> QED
    BY <1>1, <1>3, <1>6, <1>7, <2>1, Zenon
<1>9. m * Overhead <= l
  <2>1. m * b <= l
    BY <1>8
  <2> QED
    BY <1>4, <2>1, Zenon
<1>10. m <= elems_for_bytes(l) /\ elems_for_bytes(l) \in Nat
  BY <1>9, ElemsForBytes, ElemsForBytesType
<1>11. m <= r.cap_table_elems
  BY <1>1, <1>2, <1>7, <1>10
<1>12. v > 0 <=> m > 0
  <2>1. CASE m = 0
    <3>1. w = <<>>
      BY <1>3, <1>7, <2>1
    <3>2. v = 0
      BY <1>1, <1>3, <1>7, <3>1, TotalEmpty, Zenon
    <3> QED
      BY <2>1, <3>2
  <2>2. CASE m # 0
    <3>1. m * b # 0
      BY <2>2
    <3> QED
      BY <1>8, <2>2, <3>1
  <2> QED
    BY <2>1, <2>2
<1> QED
  BY <1>7, <1>10, <1>11, <1>12, Zenon

\* r without its n oldest entries.
Without(r, n) ==
  [max_table_size |-> r.max_table_size, cap_table_elems |-> r.cap_table_elems,
   tail_remote_index |-> r.tail_remote_index + n, table_size |-> Total(Drop(LiveSizes(r), n)),
   table_elems |-> r.table_elems - n, table_elem_size |-> r.table_elem_size, entries |-> r.entries]

\* Its live sizes are the rest of those of r.
LEMMA WithoutIs ==
  ASSUME NEW r, RingOK(r), NEW n \in 0..r.table_elems
  PROVE  /\ Without(r, n) \in Compressor /\ LiveSizes(Without(r, n)) = Drop(LiveSizes(r), n)
         /\ RingOK(Without(r, n))
<1> DEFINE q == Without(r, n)
<1>1. r \in Compressor /\ r.table_elem_size \in [0..(r.cap_table_elems - 1) -> Nat]
      /\ r.max_table_size <= InitialTableSize
      /\ elems_for_bytes(r.max_table_size) <= r.cap_table_elems
      /\ (\A i \in 1..r.table_elems : LiveSizes(r)[i] > Overhead)
      /\ r.table_size = Total(LiveSizes(r)) /\ r.table_size <= r.max_table_size
  BY Zenon DEF RingOK
<1>2. /\ r.table_elems \in Nat /\ r.max_table_size \in Nat /\ r.cap_table_elems \in Nat \ {0}
      /\ r.tail_remote_index \in Nat /\ r.table_elem_size \in Sizes /\ r.entries \in [Slots -> Entry]
  BY <1>1 DEF Compressor
<1>3. PICK w \in Seq(Nat) : w = LiveSizes(r) /\ Len(w) = r.table_elems
                            /\ \A i \in 1..r.table_elems : w[i] = SizeAt(r, r.tail_remote_index + i)
  BY <1>1, LiveSizesIs, Zenon
<1>4. /\ Total(w) \in Nat /\ Total(Upto(w, n)) \in Nat /\ Total(Drop(w, n)) \in Nat
      /\ Total(w) = Total(Upto(w, n)) + Total(Drop(w, n))
  BY <1>3, Split, Zenon
<1>5. PICK x \in Seq(Nat) : x = Drop(w, n) /\ Len(x) = r.table_elems - n
                            /\ \A i \in 1..(r.table_elems - n) : x[i] = w[n + i]
  <2>1. n \in 0..Len(w)
    BY <1>3, Zenon
  <2>2. /\ Drop(w, n) \in Seq(Nat) /\ Len(Drop(w, n)) = Len(w) - n
        /\ \A i \in 1..(Len(w) - n) : Drop(w, n)[i] = w[n + i]
    BY <2>1, Parts, Zenon
  <2> QED
    BY <1>3, <2>2, Zenon
<1>6. PICK m \in Nat, t \in Nat, v \in Nat, e \in Nat, o \in Nat :
        /\ m = r.table_elems - n /\ t = r.tail_remote_index + n /\ v = Total(Drop(w, n))
        /\ e = r.table_elems /\ o = r.tail_remote_index /\ n \in 0..e
  <2>1. PICK e \in Nat, o \in Nat : e = r.table_elems /\ o = r.tail_remote_index /\ n \in 0..e
    BY <1>2, Zenon
  <2>2. e - n \in Nat /\ o + n \in Nat
    BY <2>1
  <2> QED
    BY <1>4, <2>1, <2>2, Zenon
<1>7. q = [max_table_size |-> r.max_table_size, cap_table_elems |-> r.cap_table_elems,
           tail_remote_index |-> t, table_size |-> v,
           table_elems |-> m, table_elem_size |-> r.table_elem_size, entries |-> r.entries]
  BY <1>3, <1>6, Zenon DEF Without
<1> HIDE DEF q
<1>8. /\ q \in Compressor /\ q.max_table_size = r.max_table_size /\ q.cap_table_elems = r.cap_table_elems
      /\ q.tail_remote_index = t /\ q.table_size = v /\ q.table_elems = m
      /\ q.table_elem_size = r.table_elem_size
  BY <1>2, <1>7 DEF Compressor
<1>9. PICK y \in Seq(Nat) : y = LiveSizes(q) /\ Len(y) = m
                            /\ \A i \in 1..m : y[i] = SizeAt(q, t + i)
  BY <1>1, <1>8, LiveSizesIs, Zenon
<1>10. \A i \in Nat : SizeAt(q, i) = SizeAt(r, i)
  BY <1>8, Zenon DEF SizeAt
<1>11. ASSUME NEW i \in 1..m PROVE y[i] = x[i] /\ x[i] > Overhead
  <2>1. n + i \in 1..r.table_elems /\ t + i \in Nat /\ t + i = r.tail_remote_index + (n + i)
    <3>1. m = e - n /\ t = o + n /\ n \in 0..e
      BY <1>6, Zenon
    <3>2. ASSUME NEW j \in 0..e, NEW k \in 1..(e - j)
          PROVE  j + k \in 1..e /\ (o + j) + k \in Nat /\ (o + j) + k = o + (j + k)
      OBVIOUS
    <3>3. n + i \in 1..e /\ t + i \in Nat /\ t + i = o + (n + i)
      BY <3>1, <3>2, Zenon
    <3> QED
      BY <1>6, <3>3, Zenon
  <2>2. y[i] = SizeAt(r, r.tail_remote_index + (n + i))
    BY <1>9, <1>10, <2>1, Zenon
  <2>3. x[i] = w[n + i]
    BY <1>5, <1>6, Zenon
  <2>4. w[n + i] > Overhead /\ w[n + i] = SizeAt(r, r.tail_remote_index + (n + i))
    BY <1>1, <1>3, <2>1, Zenon
  <2> QED
    BY <2>2, <2>3, <2>4, Zenon
<1>12. y = x
  BY <1>5, <1>6, <1>9, <1>11, SeqEqual
<1>13. v <= r.max_table_size
  <2>1. PICK a \in Nat, b \in Nat : a = Total(w) /\ b = Total(Upto(w, n))
    BY <1>4
  <2>2. a = b + v /\ a <= r.max_table_size
    BY <1>1, <1>3, <1>4, <1>6, <2>1, Zenon
  <2> QED
    BY <1>2, <2>1, <2>2
<1>14. RingOK(q)
  <2>1. \A i \in 1..q.table_elems : LiveSizes(q)[i] > Overhead
    BY <1>8, <1>9, <1>11, <1>12, Zenon
  <2>2. q.table_size = Total(LiveSizes(q))
    BY <1>5, <1>6, <1>8, <1>9, <1>12, Zenon
  <2> QED
    BY <1>1, <1>8, <1>13, <2>1, <2>2, Zenon DEF RingOK
<1> QED
  BY <1>3, <1>5, <1>8, <1>9, <1>12, <1>14, Zenon DEF q

\* EvictDownTo drops the oldest entries, as few as possible.
LEMMA EvictIs ==
  ASSUME NEW r, RingOK(r), NEW limit \in Int
  PROVE  LET n == Excess(LiveSizes(r), limit)
         IN  n \in 0..r.table_elems /\ EvictDownTo(r, limit) = Without(r, n)
<1> DEFINE n == Excess(LiveSizes(r), limit)
<1>1. r \in Compressor /\ r.table_elem_size \in [0..(r.cap_table_elems - 1) -> Nat]
      /\ r.table_size = Total(LiveSizes(r))
  BY Zenon DEF RingOK
<1>2. r.table_elems \in Nat /\ r.tail_remote_index \in Nat
  BY <1>1 DEF Compressor
<1>3. PICK w \in Seq(Nat) : w = LiveSizes(r) /\ Len(w) = r.table_elems
                            /\ \A i \in 1..r.table_elems : w[i] = SizeAt(r, r.tail_remote_index + i)
  BY <1>1, LiveSizesIs, Zenon
<1>4. ASSUME NEW k \in 0..r.table_elems PROVE OldestSize(r, k) = Total(Upto(w, k))
  <2>1. \A i \in 1..k : i \in 1..r.table_elems
    BY <1>2
  <2>2. [i \in 1..k |-> SizeAt(r, r.tail_remote_index + i)] = [i \in 1..k |-> w[i]]
    BY <1>3, <2>1, Zenon
  <2> QED
    BY <2>2, Zenon DEF OldestSize, Upto
<1>5. {k \in 0..r.table_elems : r.table_size - OldestSize(r, k) <= limit \/ k = r.table_elems}
      = {k \in 0..Len(w) : Total(w) - Total(Upto(w, k)) <= limit \/ k = Len(w)}
  BY <1>1, <1>3, <1>4, Zenon
<1>6. n \in 0..Len(w)
  BY <1>3, ExcessIs, Zenon
<1>7. EvictDownTo(r, limit) = EvictEntries(r, n)
  <2>1. n = Min({k \in 0..r.table_elems : r.table_size - OldestSize(r, k) <= limit \/ k = r.table_elems})
    BY <1>3, <1>5, Zenon DEF Excess
  <2> HIDE DEF n
  <2> QED
    BY <2>1, Zenon DEF EvictDownTo
<1> HIDE DEF n
<1>8. r.table_size - OldestSize(r, n) = Total(Drop(w, n))
  <2>1. /\ Total(w) \in Nat /\ Total(Upto(w, n)) \in Nat /\ Total(Drop(w, n)) \in Nat
        /\ Total(w) = Total(Upto(w, n)) + Total(Drop(w, n))
    BY <1>6, Split, Zenon
  <2>2. r.table_size = Total(w) /\ OldestSize(r, n) = Total(Upto(w, n))
    BY <1>1, <1>3, <1>4, <1>6, Zenon
  <2> QED
    BY <2>1, <2>2
<1>9. PICK t, v, m : t = r.tail_remote_index + n /\ v = Total(Drop(w, n)) /\ m = r.table_elems - n
  BY Zenon
<1>10. PICK q : q = [r EXCEPT !.tail_remote_index = t, !.table_size = v, !.table_elems = m]
  BY Zenon
<1>11. q = [max_table_size |-> r.max_table_size, cap_table_elems |-> r.cap_table_elems,
            tail_remote_index |-> t, table_size |-> v,
            table_elems |-> m, table_elem_size |-> r.table_elem_size, entries |-> r.entries]
  BY <1>1, <1>10 DEF Compressor
<1>12. EvictEntries(r, n) = q
  BY <1>8, <1>9, <1>10, Zenon DEF EvictEntries
<1>13. q = Without(r, n)
  BY <1>3, <1>9, <1>11, Zenon DEF Without
<1> QED
  BY <1>3, <1>6, <1>7, <1>12, <1>13, Zenon DEF n

\* One more number at the end of a sequence.
LEMMA OneMore ==
  ASSUME NEW w \in Seq(Nat), NEW x \in Nat
  PROVE  /\ w \o <<x>> \in Seq(Nat) /\ Len(w \o <<x>>) = Len(w) + 1
         /\ (w \o <<x>>)[Len(w) + 1] = x /\ \A i \in 1..Len(w) : (w \o <<x>>)[i] = w[i]
         /\ Total(w \o <<x>>) = Total(w) + x
<1>1. PICK v \in Seq(Nat) : v = <<x>> /\ Len(v) = 1 /\ v[1] = x
  <2>1. <<x>> \in Seq(Nat) /\ Len(<<x>>) = 1 /\ <<x>>[1] = x
    OBVIOUS
  <2> QED
    BY <2>1, Zenon
<1>2. /\ w \o v \in Seq(Nat) /\ Len(w \o v) = Len(w) + Len(v)
      /\ \A i \in 1..Len(w) : (w \o v)[i] = w[i]
      /\ \A j \in 1..Len(v) : (w \o v)[Len(w) + j] = v[j]
  BY ConcatByPlace
<1>3. 1 \in 1..1
  OBVIOUS
<1>4. w \in Seq(Int) /\ v \in Seq(Int) /\ x \in Int
  OBVIOUS
<1>5. Total(w \o v) = Total(w) + Total(v) /\ Total(v) = x
  BY <1>1, <1>4, TotalConcat, TotalOne, Zenon
<1> QED
  BY <1>1, <1>2, <1>3, <1>5, Zenon

\* One more entry at the end of the ring.
Added(q, size) ==
  [max_table_size |-> q.max_table_size, cap_table_elems |-> q.cap_table_elems,
   tail_remote_index |-> q.tail_remote_index, table_size |-> q.table_size + size,
   table_elems |-> q.table_elems + 1,
   table_elem_size |-> [q.table_elem_size EXCEPT
     ![(q.tail_remote_index + q.table_elems + 1) % q.cap_table_elems] = size],
   entries |-> q.entries]

\* It takes a place that no live entry has.
LEMMA AddedIs ==
  ASSUME NEW q, RingOK(q), NEW size \in Nat, size > Overhead, q.table_size + size <= q.max_table_size
  PROVE  RingOK(Added(q, size)) /\ LiveSizes(Added(q, size)) = LiveSizes(q) \o <<size>>
<1> DEFINE p == Added(q, size)
<1>1. q \in Compressor /\ q.table_elem_size \in [0..(q.cap_table_elems - 1) -> Nat]
      /\ q.max_table_size <= InitialTableSize
      /\ elems_for_bytes(q.max_table_size) <= q.cap_table_elems
      /\ (\A i \in 1..q.table_elems : LiveSizes(q)[i] > Overhead)
      /\ q.table_size = Total(LiveSizes(q))
  BY Zenon DEF RingOK
<1>2. /\ q.table_elems \in Nat /\ q.max_table_size \in Nat /\ q.cap_table_elems \in Nat \ {0}
      /\ q.tail_remote_index \in Nat /\ q.table_elem_size \in Sizes /\ q.entries \in [Slots -> Entry]
      /\ q.table_size \in Int
  BY <1>1 DEF Compressor
<1>3. PICK e \in Nat, t \in Nat, b \in Nat \ {0}, l \in Nat, z \in Int, o \in Nat \ {0}, new \in Nat :
        /\ e = q.table_elems /\ t = q.tail_remote_index /\ b = q.cap_table_elems
        /\ l = q.max_table_size /\ z = q.table_size /\ o = Overhead /\ new = t + e + 1
  <2>1. Overhead \in Nat \ {0}
    BY HpackAssumption
  <2>2. q.tail_remote_index + q.table_elems + 1 \in Nat
    BY <1>2
  <2> QED
    BY <1>2, <2>1, <2>2, Zenon
<1>4. PICK w \in Seq(Nat) : w = LiveSizes(q) /\ Len(w) = e
                            /\ (\A i \in 1..e : w[i] = SizeAt(q, t + i))
                            /\ \A i \in Nat : SizeAt(q, i) \in Nat
  BY <1>1, <1>3, LiveSizesIs, Zenon
<1>5. /\ w \o <<size>> \in Seq(Nat) /\ Len(w \o <<size>>) = e + 1
      /\ (w \o <<size>>)[e + 1] = size /\ \A i \in 1..e : (w \o <<size>>)[i] = w[i]
      /\ Total(w \o <<size>>) = Total(w) + size
  BY <1>4, OneMore, Zenon
<1>6. PICK x \in Seq(Nat) : x = w \o <<size>>
  BY <1>5, Zenon
<1>7. Total(x) = z + size /\ new = t + e + 1
  BY <1>1, <1>3, <1>4, <1>5, <1>6, Zenon
<1>8. ASSUME NEW i \in 1..(e + 1) PROVE x[i] > Overhead
  <2>1. CASE i = e + 1
    BY <1>5, <1>6, <2>1, Zenon
  <2>2. CASE i # e + 1
    <3>1. i \in 1..e
      BY <2>2
    <3> QED
      BY <1>1, <1>3, <1>4, <1>5, <1>6, <3>1, Zenon
  <2> QED
    BY <2>1, <2>2
<1>9. Len(x) = e + 1
  BY <1>5, <1>6, Zenon
<1>10. e + 1 <= elems_for_bytes(l) /\ elems_for_bytes(l) \in Nat
  <2>1. \A i \in 1..Len(x) : x[i] >= o
    <3> TAKE i \in 1..Len(x)
    <3>1. x[i] > o
      BY <1>3, <1>8, <1>9, Zenon
    <3>2. x[i] \in Nat
      BY ElementOfSeq
    <3> QED
      BY <3>1, <3>2
  <2>2. Len(x) * o <= Total(x)
    BY <2>1, TotalAtLeast
  <2>3. z + size <= l /\ (e + 1) * o <= z + size /\ (e + 1) * o \in Int
    <3>1. (e + 1) * o \in Int
      OBVIOUS
    <3> QED
      BY <1>3, <1>7, <1>9, <2>2, <3>1, Zenon
  <2>4. (e + 1) * o <= l /\ e + 1 \in Nat
    BY <2>3
  <2>5. (e + 1) * Overhead <= l
    BY <1>3, <2>4, Zenon
  <2> QED
    BY <2>4, <2>5, ElemsForBytes, ElemsForBytesType
<1>11. e + 1 <= b
  <2>1. elems_for_bytes(l) <= b
    BY <1>1, <1>3, Zenon
  <2> QED
    BY <1>10, <2>1
<1>12. new % b \in 0..(b - 1)
  BY DivMod
<1>13. PICK g : g = [q.table_elem_size EXCEPT ![new % b] = size]
  BY Zenon
<1>14. /\ g \in [0..(b - 1) -> Nat] /\ g[new % b] = size
       /\ \A j \in 0..(b - 1) : j # new % b => g[j] = q.table_elem_size[j]
  <2>1. q.table_elem_size \in [0..(b - 1) -> Nat]
    BY <1>1, <1>3, Zenon
  <2> QED
    BY <1>12, <1>13, <2>1
<1>15. g \in Sizes
  <2>1. b \in Nat
    OBVIOUS
  <2> QED
    BY <1>14, <2>1 DEF Sizes
<1>16. p = [max_table_size |-> l, cap_table_elems |-> b, tail_remote_index |-> t,
            table_size |-> z + size, table_elems |-> e + 1, table_elem_size |-> g,
            entries |-> q.entries]
  BY <1>3, <1>13, Zenon DEF Added
<1> HIDE DEF p
<1>17. /\ p \in Compressor /\ p.max_table_size = l /\ p.cap_table_elems = b
       /\ p.tail_remote_index = t /\ p.table_size = z + size /\ p.table_elems = e + 1
       /\ p.table_elem_size = g
  BY <1>2, <1>15, <1>16 DEF Compressor
<1>18. PICK y \in Seq(Nat) : y = LiveSizes(p) /\ Len(y) = e + 1
                             /\ \A i \in 1..(e + 1) : y[i] = SizeAt(p, t + i)
  BY <1>14, <1>17, LiveSizesIs, ZenonT(60)
<1>19. ASSUME NEW i \in 1..(e + 1) PROVE y[i] = x[i]
  <2>1. CASE i = e + 1
    <3>1. t + i = new
      BY <1>7, <2>1
    <3> QED
      BY <1>5, <1>6, <1>14, <1>17, <1>18, <2>1, <3>1, Zenon DEF SizeAt
  <2>2. CASE i # e + 1
    <3>1. i \in 1..e /\ t + i \in Nat /\ t + i < new /\ new - (t + i) < b
      BY <1>7, <1>11, <2>2
    <3>2. (t + i) % b # new % b
      BY <3>1, PlacesDiffer
    <3>3. (t + i) % b \in 0..(b - 1)
      BY <3>1, DivMod
    <3>4. SizeAt(p, t + i) = SizeAt(q, t + i)
      BY <1>3, <1>14, <1>17, <3>2, <3>3, Zenon DEF SizeAt
    <3>5. y[i] = SizeAt(p, t + i) /\ w[i] = SizeAt(q, t + i)
      BY <1>4, <1>18, <3>1, Zenon
    <3>6. x[i] = w[i]
      BY <1>5, <1>6, <3>1, Zenon
    <3> QED
      BY <3>4, <3>5, <3>6, Zenon
  <2> QED
    BY <2>1, <2>2
<1>20. y = x
  BY <1>9, <1>18, <1>19, SeqEqual
<1>21. RingOK(p)
  <2>1. \A i \in 1..p.table_elems : LiveSizes(p)[i] > Overhead
    BY <1>8, <1>17, <1>18, <1>20, Zenon
  <2>2. p.table_size = Total(LiveSizes(p))
    BY <1>7, <1>17, <1>18, <1>20, Zenon
  <2>3. p.table_size <= p.max_table_size
    BY <1>3, <1>17, Zenon
  <2>4. p.max_table_size <= InitialTableSize /\ elems_for_bytes(p.max_table_size) <= p.cap_table_elems
        /\ p.table_elem_size \in [0..(p.cap_table_elems - 1) -> Nat]
    BY <1>1, <1>3, <1>14, <1>17, Zenon
  <2> QED
    BY <1>17, <2>1, <2>2, <2>3, <2>4, Zenon DEF RingOK
<1> QED
  BY <1>4, <1>6, <1>18, <1>20, <1>21, Zenon DEF p

\* prepare_space_for_new_elem: an entry too large empties the ring, any other
\* one takes the place of the oldest, as few as possible.
LEMMA PrepareIs ==
  ASSUME NEW r, RingOK(r), NEW size \in Nat, size > Overhead
  PROVE  /\ size > r.max_table_size =>
              prepare_space_for_new_elem(r, size) = [index |-> 0, c |-> Without(r, r.table_elems)]
         /\ ~ (size > r.max_table_size) =>
              \E n \in 0..r.table_elems :
                /\ Total(Drop(LiveSizes(r), n)) + size <= r.max_table_size
                /\ prepare_space_for_new_elem(r, size) =
                     [index |-> r.tail_remote_index + r.table_elems + 1, c |-> Added(Without(r, n), size)]
<1>1. r \in Compressor /\ r.table_elem_size \in [0..(r.cap_table_elems - 1) -> Nat]
  BY Zenon DEF RingOK
<1>2. /\ r.table_elems \in Nat /\ r.max_table_size \in Nat /\ r.cap_table_elems \in Nat \ {0}
      /\ r.tail_remote_index \in Nat /\ r.table_elem_size \in Sizes /\ r.entries \in [Slots -> Entry]
  BY <1>1 DEF Compressor
<1>3. PICK w \in Seq(Nat) : w = LiveSizes(r) /\ Len(w) = r.table_elems
  BY <1>1, LiveSizesIs, Zenon
<1>4. ASSUME NEW limit \in Nat
      PROVE  \E n \in 0..r.table_elems : /\ EvictDownTo(r, limit) = Without(r, n)
                                         /\ Total(Drop(w, n)) <= limit
  <2>1. limit \in Int
    OBVIOUS
  <2>2. PICK n : n = Excess(w, limit) /\ n \in 0..r.table_elems /\ EvictDownTo(r, limit) = Without(r, n)
    BY <1>3, <2>1, EvictIs, Zenon
  <2>3. n \in 0..Len(w) /\ (Total(Drop(w, n)) <= limit \/ n = Len(w))
    BY <2>1, <2>2, ExcessIs, Zenon
  <2>4. Total(Drop(w, n)) <= limit
    <3>1. CASE n = Len(w)
      <4>1. Total(Drop(w, n)) = 0
        BY <3>1, DropAll, Zenon
      <4> QED
        BY <4>1
    <3> QED
      BY <2>3, <3>1
  <2> QED
    BY <2>2, <2>4, Zenon
<1>5. ASSUME size > r.max_table_size
      PROVE  prepare_space_for_new_elem(r, size) = [index |-> 0, c |-> Without(r, r.table_elems)]
  <2>1. 0 \in Nat
    OBVIOUS
  <2>2. PICK n \in 0..r.table_elems : EvictDownTo(r, 0) = Without(r, n) /\ Total(Drop(w, n)) <= 0
    BY <1>4, <2>1, Zenon
  <2>3. PICK q : q = Without(r, n) /\ RingOK(q)
    BY WithoutIs, Zenon
  <2>4. q.table_size = Total(Drop(w, n)) /\ q.table_elems = r.table_elems - n
    BY <1>3, <2>3 DEF Without
  <2>5. (q.table_size > 0 <=> q.table_elems > 0) /\ q.table_size \in Nat
    BY <2>3, RingFacts, Zenon
  <2>6. n = r.table_elems
    BY <1>2, <2>2, <2>4, <2>5
  <2> QED
    BY <1>5, <2>2, <2>6, Zenon DEF prepare_space_for_new_elem
<1>6. ASSUME ~ (size > r.max_table_size)
      PROVE  \E n \in 0..r.table_elems :
               /\ Total(Drop(w, n)) + size <= r.max_table_size
               /\ prepare_space_for_new_elem(r, size) =
                    [index |-> r.tail_remote_index + r.table_elems + 1, c |-> Added(Without(r, n), size)]
  <2>1. r.max_table_size - size \in Nat
    BY <1>2, <1>6
  <2>2. PICK n \in 0..r.table_elems : /\ EvictDownTo(r, r.max_table_size - size) = Without(r, n)
                                      /\ Total(Drop(w, n)) <= r.max_table_size - size
    BY <1>4, <2>1, Zenon
  <2>3. Total(Drop(w, n)) + size <= r.max_table_size
    <3>1. n \in 0..Len(w)
      BY <1>3, Zenon
    <3>2. Total(Drop(w, n)) \in Nat
      BY <3>1, Split, Zenon
    <3> QED
      BY <1>2, <2>2, <3>2
  <2>4. PICK new : new = r.tail_remote_index + r.table_elems + 1
    BY Zenon
  <2>5. PICK q : q = Without(r, n) /\ RingOK(q) /\ q \in Compressor
    BY WithoutIs, Zenon
  <2>6. /\ q.tail_remote_index = r.tail_remote_index + n /\ q.table_elems = r.table_elems - n
        /\ q.cap_table_elems = r.cap_table_elems
    BY <2>5 DEF Without
  <2>7. q.tail_remote_index + q.table_elems + 1 = new
    BY <1>2, <2>4, <2>6
  <2>8. PICK g, z, e : /\ g = [q.table_elem_size EXCEPT ![new % r.cap_table_elems] = size]
                       /\ z = q.table_size + size /\ e = q.table_elems + 1
    BY Zenon
  <2>9. PICK p : p = [q EXCEPT !.table_elem_size = g, !.table_size = z, !.table_elems = e]
    BY Zenon
  <2>10. p = [max_table_size |-> q.max_table_size, cap_table_elems |-> q.cap_table_elems,
              tail_remote_index |-> q.tail_remote_index, table_size |-> z,
              table_elems |-> e, table_elem_size |-> g, entries |-> q.entries]
    BY <2>5, <2>9 DEF Compressor
  <2>11. p = Added(q, size)
    BY <2>6, <2>7, <2>8, <2>10, Zenon DEF Added
  <2>12. [q EXCEPT !.table_elem_size[new % r.cap_table_elems] = size,
                   !.table_size = @ + size, !.table_elems = @ + 1] = p
    BY <2>5, <2>8, <2>9 DEF Compressor
  <2>13. prepare_space_for_new_elem(r, size) = [index |-> new, c |-> p]
    BY <1>6, <2>2, <2>4, <2>5, <2>12, Zenon DEF prepare_space_for_new_elem
  <2> QED
    BY <2>3, <2>4, <2>5, <2>11, <2>13, Zenon
<1> QED
  BY <1>3, <1>5, <1>6, Zenon

\* The lesser and the greater of two numbers.
LEMMA OfTwo ==
  ASSUME NEW a \in Nat, NEW b \in Nat
  PROVE  /\ Min({a, b}) \in {a, b} /\ Min({a, b}) <= a /\ Min({a, b}) <= b
         /\ Max({a, b}) \in {a, b} /\ Max({a, b}) >= a /\ Max({a, b}) >= b
<1>1. \E x \in {a, b} : \A y \in {a, b} : x <= y
  OBVIOUS
<1>2. \E x \in {a, b} : \A y \in {a, b} : x >= y
  OBVIOUS
<1>3. Min({a, b}) \in {a, b} /\ \A y \in {a, b} : Min({a, b}) <= y
  BY <1>1, Zenon DEF Min
<1>4. Max({a, b}) \in {a, b} /\ \A y \in {a, b} : Max({a, b}) >= y
  BY <1>2, Zenon DEF Max
<1> QED
  BY <1>3, <1>4, Zenon

\* rebuild_elems moves the sizes of the live entries to their new places.
LEMMA RebuildIs ==
  ASSUME NEW q \in Compressor, q.table_elem_size \in [0..(q.cap_table_elems - 1) -> Nat],
         NEW new_cap \in Nat \ {0}, q.table_elems <= new_cap
  PROVE  \E p \in Compressor :
           /\ p = rebuild_elems(q, new_cap)
           /\ p.max_table_size = q.max_table_size /\ p.cap_table_elems = new_cap
           /\ p.tail_remote_index = q.tail_remote_index /\ p.table_size = q.table_size
           /\ p.table_elems = q.table_elems /\ p.entries = q.entries
           /\ p.table_elem_size \in [0..(new_cap - 1) -> Nat]
           /\ LiveSizes(p) = LiveSizes(q)
<1>1. /\ q.table_elems \in Nat /\ q.tail_remote_index \in Nat /\ q.max_table_size \in Nat
      /\ q.table_size \in Int /\ q.entries \in [Slots -> Entry]
  BY DEF Compressor
<1>2. PICK e \in Nat, t \in Nat : e = q.table_elems /\ t = q.tail_remote_index
  BY <1>1
<1>3. e <= new_cap
  BY <1>2, Zenon
<1>4. Live(q) = (t + 1)..(t + e)
  BY <1>2, Zenon DEF Live
<1> DEFINE moved(s) == {i \in Live(q) : i % new_cap = s}
           g == [s \in 0..(new_cap - 1) |-> IF moved(s) = {} THEN 0 ELSE SizeAt(q, Max(moved(s)))]
<1>5. ASSUME NEW i \in Live(q)
      PROVE  /\ i \in Nat /\ i % new_cap \in 0..(new_cap - 1)
             /\ moved(i % new_cap) = {i} /\ Max({i}) = i
  <2>1. i \in Nat
    BY <1>4
  <2>2. i % new_cap \in 0..(new_cap - 1)
    BY <2>1, DivMod
  <2>3. ASSUME NEW j \in Live(q), j % new_cap = i % new_cap PROVE j = i
    <3>1. j \in Nat
      BY <1>4
    <3>2. CASE i < j
      <4>1. j - i < new_cap
        BY <1>3, <1>4, <2>1, <3>1
      <4>2. i % new_cap # j % new_cap
        BY <2>1, <3>1, <3>2, <4>1, PlacesDiffer
      <4> QED
        BY <2>3, <4>2
    <3>3. CASE j < i
      <4>1. i - j < new_cap
        BY <1>3, <1>4, <2>1, <3>1
      <4>2. j % new_cap # i % new_cap
        BY <2>1, <3>1, <3>3, <4>1, PlacesDiffer
      <4> QED
        BY <2>3, <4>2
    <3> QED
      BY <2>1, <3>1, <3>2, <3>3
  <2>4. moved(i % new_cap) = {i}
    BY <2>3, Zenon
  <2>5. i >= i
    BY <2>1
  <2>6. \E x \in {i} : \A y \in {i} : x >= y
    BY <2>5, Zenon
  <2>7. Max({i}) \in {i}
    BY <2>6, Zenon DEF Max
  <2> QED
    BY <2>1, <2>2, <2>4, <2>7, Zenon
<1>6. \A i \in Nat : SizeAt(q, i) \in Nat
  BY LiveSizesIs, Zenon
<1>7. ASSUME NEW s \in 0..(new_cap - 1) PROVE (IF moved(s) = {} THEN 0 ELSE SizeAt(q, Max(moved(s)))) \in Nat
  <2>1. CASE moved(s) = {}
    <3>1. 0 \in Nat
      OBVIOUS
    <3> QED
      BY <2>1, <3>1, Zenon
  <2>2. CASE moved(s) # {}
    <3>1. PICK i \in Live(q) : i % new_cap = s
      BY <2>2, Zenon
    <3>2. SizeAt(q, Max(moved(s))) \in Nat
      BY <1>5, <1>6, <3>1, Zenon
    <3> QED
      BY <2>2, <3>2, Zenon
  <2> QED
    BY <2>1, <2>2, Zenon
<1>8. g \in [0..(new_cap - 1) -> Nat]
  BY <1>7, Zenon
<1>9. ASSUME NEW i \in Live(q) PROVE g[i % new_cap] = SizeAt(q, i)
  BY <1>5, Zenon
<1>10. rebuild_elems(q, new_cap) = [q EXCEPT !.cap_table_elems = new_cap, !.table_elem_size = g]
  <2>1. ~ (q.table_elems > new_cap)
    BY <1>2, <1>3
  <2> QED
    BY <2>1, Zenon DEF rebuild_elems
<1> HIDE DEF g, moved
<1>11. g \in Sizes
  BY <1>8 DEF Sizes
<1>12. PICK p : p = [q EXCEPT !.cap_table_elems = new_cap, !.table_elem_size = g]
  BY Zenon
<1>13. /\ p \in Compressor /\ p.max_table_size = q.max_table_size /\ p.cap_table_elems = new_cap
       /\ p.tail_remote_index = q.tail_remote_index /\ p.table_size = q.table_size
       /\ p.table_elems = q.table_elems /\ p.entries = q.entries /\ p.table_elem_size = g
  BY <1>11, <1>12 DEF Compressor
<1>14. PICK w \in Seq(Nat) : w = LiveSizes(q) /\ Len(w) = e /\ \A i \in 1..e : w[i] = SizeAt(q, t + i)
  BY <1>2, LiveSizesIs, Zenon
<1>15. PICK y \in Seq(Nat) : y = LiveSizes(p) /\ Len(y) = e /\ \A i \in 1..e : y[i] = SizeAt(p, t + i)
  BY <1>2, <1>8, <1>13, LiveSizesIs, ZenonT(60)
<1>16. ASSUME NEW i \in 1..e PROVE y[i] = w[i]
  <2>1. t + i \in Live(q)
    BY <1>4
  <2>2. SizeAt(p, t + i) = SizeAt(q, t + i)
    BY <1>9, <1>13, <2>1, Zenon DEF SizeAt
  <2> QED
    BY <1>14, <1>15, <2>2, Zenon
<1>17. y = w
  BY <1>14, <1>15, <1>16, SeqEqual
<1> QED
  BY <1>8, <1>10, <1>12, <1>13, <1>14, <1>15, <1>17, Zenon

\* NewCapacity is enough.
LEMMA NewCapacityIs ==
  ASSUME NEW r \in Compressor, NEW elems \in Nat
  PROVE  NewCapacity(r, elems) \in Nat \ {0} /\ elems <= NewCapacity(r, elems)
<1>1. PICK b \in Nat \ {0}, k \in Nat \ {0} : b = r.cap_table_elems /\ k = MinCapacity
  BY HpackAssumption DEF Compressor
<1>2. CASE elems > b
  <2>1. 2 * b \in Nat \ {0}
    OBVIOUS
  <2>2. PICK x : x = Max({elems, 2 * b}) /\ x \in {elems, 2 * b} /\ x >= elems
    BY <2>1, OfTwo
  <2>3. x \in Nat \ {0} /\ elems <= x
    BY <1>2, <2>1, <2>2
  <2> QED
    BY <1>1, <1>2, <2>2, <2>3, Zenon DEF NewCapacity
<1>3. CASE ~ (elems > b) /\ elems < b \div 3
  <2>1. PICK x : x = Max({elems, k}) /\ x \in {elems, k} /\ x >= elems /\ x >= k
    BY OfTwo
  <2>2. x \in Nat \ {0} /\ elems <= x
    BY <2>1
  <2> QED
    BY <1>1, <1>3, <2>1, <2>2, Zenon DEF NewCapacity
<1>4. CASE ~ (elems > b) /\ ~ (elems < b \div 3)
  <2>1. elems <= b
    BY <1>4
  <2> QED
    BY <1>1, <1>4, <2>1, Zenon DEF NewCapacity
<1> QED
  BY <1>2, <1>3, <1>4

\* q is r without its n oldest entries, whatever its ring.
Shrunk(r, q, n) ==
  /\ n \in 0..r.table_elems
  /\ q.tail_remote_index = r.tail_remote_index + n
  /\ q.table_elems = r.table_elems - n
  /\ LiveSizes(q) = Drop(LiveSizes(r), n)
  /\ q.entries = r.entries

\* compressor_set_max_table_size keeps the ring in order: what is live fits
\* the new maximum, and the ring has room for what the maximum allows.
LEMMA SetMaxIs ==
  ASSUME NEW r, RingOK(r), NEW requested \in Nat
  PROVE  /\ RingOK(compressor_set_max_table_size(r, requested))
         /\ \E n : Shrunk(r, compressor_set_max_table_size(r, requested), n)
<1>1. r \in Compressor /\ r.table_elem_size \in [0..(r.cap_table_elems - 1) -> Nat]
  BY Zenon DEF RingOK
<1>2. /\ r.table_elems \in Nat /\ r.tail_remote_index \in Nat /\ r.max_table_size \in Nat
      /\ r.table_size \in Int /\ r.entries \in [Slots -> Entry]
  BY <1>1 DEF Compressor
<1>3. PICK w \in Seq(Nat) : w = LiveSizes(r) /\ Len(w) = r.table_elems
  BY <1>1, LiveSizesIs, Zenon
<1>4. PICK max \in Nat : max = Min({requested, InitialTableSize}) /\ max <= InitialTableSize
  <2>1. InitialTableSize \in Nat
    BY HpackAssumption
  <2>2. /\ Min({requested, InitialTableSize}) \in {requested, InitialTableSize}
        /\ Min({requested, InitialTableSize}) <= InitialTableSize
    BY <2>1, OfTwo, Zenon
  <2> QED
    BY <2>1, <2>2, Zenon
<1>5. CASE max = r.max_table_size
  <2>1. compressor_set_max_table_size(r, requested) = r
    BY <1>4, <1>5, Zenon DEF compressor_set_max_table_size
  <2>2. 0 \in 0..Len(w)
    OBVIOUS
  <2>3. PICK x \in Seq(Nat) : x = Drop(w, 0) /\ Len(x) = Len(w) - 0 /\ \A i \in 1..(Len(w) - 0) : x[i] = w[0 + i]
    BY <2>2, Parts, Zenon
  <2>4. Len(x) = Len(w) /\ \A i \in 1..Len(w) : x[i] = w[i]
    <3>1. PICK m \in Nat : m = Len(w)
      OBVIOUS
    <3>2. m - 0 = m /\ \A i \in 1..m : 0 + i = i
      OBVIOUS
    <3> QED
      BY <2>3, <3>1, <3>2, Zenon
  <2>5. x = w
    BY <2>4, SeqEqual
  <2>6. 0 \in 0..r.table_elems /\ r.tail_remote_index = r.tail_remote_index + 0 /\ r.table_elems = r.table_elems - 0
    BY <1>2
  <2>7. Shrunk(r, r, 0)
    BY <1>3, <2>3, <2>5, <2>6, Zenon DEF Shrunk
  <2> QED
    BY <2>1, <2>7, Zenon
<1>6. CASE max # r.max_table_size
  <2>1. max \in Int
    OBVIOUS
  <2>2. PICK n : n = Excess(w, max) /\ n \in 0..r.table_elems /\ EvictDownTo(r, max) = Without(r, n)
    BY <1>3, <2>1, EvictIs, Zenon
  <2>3. n \in 0..Len(w) /\ (Total(Drop(w, n)) <= max \/ n = Len(w))
    BY <2>1, <2>2, ExcessIs, Zenon
  <2>4. Total(Drop(w, n)) <= max
    <3>1. CASE n = Len(w)
      <4>1. Total(Drop(w, n)) = 0
        BY <3>1, DropAll, Zenon
      <4> QED
        BY <4>1
    <3> QED
      BY <2>3, <3>1
  <2>5. PICK o : o = Without(r, n) /\ o \in Compressor /\ LiveSizes(o) = Drop(w, n) /\ RingOK(o)
    BY <1>3, <2>2, WithoutIs, Zenon
  <2>6. /\ o.tail_remote_index = r.tail_remote_index + n /\ o.table_elems = r.table_elems - n
        /\ o.entries = r.entries /\ o.table_size = Total(Drop(w, n)) /\ o.cap_table_elems = r.cap_table_elems
    BY <1>3, <2>5 DEF Without
  <2>7. PICK q : q = [o EXCEPT !.max_table_size = max]
    BY Zenon
  <2>8. /\ q \in Compressor /\ q.max_table_size = max /\ q.cap_table_elems = o.cap_table_elems
        /\ q.tail_remote_index = o.tail_remote_index /\ q.table_size = o.table_size
        /\ q.table_elems = o.table_elems /\ q.entries = o.entries /\ q.table_elem_size = o.table_elem_size
    BY <2>5, <2>7 DEF Compressor
  <2>9. LiveSizes(q) = Drop(w, n)
    <3>1. \A i \in Int : SizeAt(q, i) = SizeAt(o, i)
      BY <2>8, Zenon DEF SizeAt
    <3>2. PICK e \in Nat, t \in Nat : e = o.table_elems /\ t = o.tail_remote_index
      BY <2>5 DEF Compressor
    <3>3. \A i \in 1..e : t + i \in Int
      OBVIOUS
    <3>4. [i \in 1..e |-> SizeAt(q, t + i)] = [i \in 1..e |-> SizeAt(o, t + i)]
      BY <3>1, <3>3, Zenon
    <3> QED
      BY <2>5, <2>8, <3>2, <3>4, Zenon DEF LiveSizes
  <2>10. /\ o.table_elem_size \in [0..(o.cap_table_elems - 1) -> Nat]
         /\ \A i \in 1..o.table_elems : LiveSizes(o)[i] > Overhead
    BY <2>5, Zenon DEF RingOK
  <2>11. PICK cap : cap = NewCapacity(r, elems_for_bytes(max)) /\ cap \in Nat \ {0} /\ elems_for_bytes(max) <= cap
    BY <1>1, NewCapacityIs, ElemsForBytesType, Zenon
  <2>12. ASSUME NEW p \in Compressor, p.max_table_size = max, p.cap_table_elems = cap,
                p.tail_remote_index = q.tail_remote_index, p.table_size = q.table_size,
                p.table_elems = q.table_elems, p.entries = q.entries,
                p.table_elem_size \in [0..(cap - 1) -> Nat], LiveSizes(p) = LiveSizes(q)
         PROVE  RingOK(p) /\ Shrunk(r, p, n)
    <3>1. \A i \in 1..p.table_elems : LiveSizes(p)[i] > Overhead
      BY <2>5, <2>8, <2>9, <2>10, <2>12, Zenon
    <3>2. p.table_size = Total(LiveSizes(p)) /\ p.table_size <= p.max_table_size
      BY <2>4, <2>6, <2>8, <2>9, <2>12, Zenon
    <3>3. RingOK(p)
      BY <1>4, <2>11, <2>12, <3>1, <3>2, Zenon DEF RingOK
    <3>4. Shrunk(r, p, n)
      BY <1>3, <2>2, <2>6, <2>8, <2>9, <2>12, Zenon DEF Shrunk
    <3> QED
      BY <3>3, <3>4
  <2>13. CASE cap = r.cap_table_elems
    <3>1. compressor_set_max_table_size(r, requested) = q
      BY <1>4, <1>6, <2>2, <2>5, <2>7, <2>11, <2>13, Zenon DEF compressor_set_max_table_size
    <3>2. q.cap_table_elems = cap /\ q.table_elem_size \in [0..(cap - 1) -> Nat]
      BY <2>6, <2>8, <2>10, <2>13, Zenon
    <3>3. RingOK(q) /\ Shrunk(r, q, n)
      BY <2>8, <2>12, <3>2, Zenon
    <3> QED
      BY <3>1, <3>3, Zenon
  <2>14. CASE cap # r.cap_table_elems
    <3>1. compressor_set_max_table_size(r, requested) = rebuild_elems(q, cap)
      BY <1>4, <1>6, <2>2, <2>5, <2>7, <2>11, <2>14, Zenon DEF compressor_set_max_table_size
    <3>2. q.table_elems <= cap
      <4>1. PICK x \in Seq(Nat) : x = Drop(w, n) /\ Len(x) = q.table_elems
        BY <2>8, <2>9, <2>10, LiveSizesIs, Zenon
      <4>2. PICK b \in Nat : b = Overhead
        BY HpackAssumption
      <4>3. \A i \in 1..Len(x) : x[i] >= b
        <5> TAKE i \in 1..Len(x)
        <5>1. x[i] > b
          BY <2>5, <2>8, <2>10, <4>1, <4>2, Zenon
        <5>2. x[i] \in Nat
          BY ElementOfSeq
        <5> QED
          BY <5>1, <5>2
      <4>4. Len(x) * b <= Total(x) /\ Total(x) \in Nat
        BY <4>3, TotalAtLeast, TotalNat
      <4>5. Total(x) <= max
        BY <2>4, <4>1, Zenon
      <4>6. Len(x) \in Nat /\ Len(x) * b \in Nat
        OBVIOUS
      <4>7. Len(x) * b <= max
        BY <4>4, <4>5, <4>6
      <4>8. Len(x) * Overhead <= max
        BY <4>2, <4>7, Zenon
      <4>9. Len(x) <= elems_for_bytes(max) /\ elems_for_bytes(max) \in Nat
        BY <4>6, <4>8, ElemsForBytes, ElemsForBytesType
      <4>10. Len(x) <= cap
        BY <2>11, <4>6, <4>9
      <4> QED
        BY <4>1, <4>10, Zenon
    <3>3. PICK p \in Compressor :
           /\ p = rebuild_elems(q, cap)
           /\ p.max_table_size = q.max_table_size /\ p.cap_table_elems = cap
           /\ p.tail_remote_index = q.tail_remote_index /\ p.table_size = q.table_size
           /\ p.table_elems = q.table_elems /\ p.entries = q.entries
           /\ p.table_elem_size \in [0..(cap - 1) -> Nat]
           /\ LiveSizes(p) = LiveSizes(q)
      BY <2>8, <2>10, <2>11, <3>2, RebuildIs, Zenon
    <3>4. RingOK(p) /\ Shrunk(r, p, n)
      BY <2>8, <2>12, <3>3, Zenon
    <3> QED
      BY <3>1, <3>3, <3>4, Zenon
  <2> QED
    BY <2>13, <2>14
<1> QED
  BY <1>5, <1>6

-----------------------------------------------------------------------------
(***************************************************************************)
(* The hash table.                                                         *)
(***************************************************************************)

\* A field is in one of its two slots, in the second one only while the first
\* is taken, and in one at most.
HashOK(entries) ==
  /\ \A s \in Slots :
       LET f == entries[s].mdel
       IN  f # NoField =>
             \/ s = FirstSlot[f.key]
             \/ s = SecondSlot[f.key] /\ entries[FirstSlot[f.key]].mdel # NoField
  /\ \A s, t \in Slots : s # t /\ entries[s].mdel = entries[t].mdel => entries[s].mdel = NoField

\* h is entries with f and its number in a slot.
Written(entries, h, slot, f, new) ==
  /\ slot \in Slots /\ h \in [Slots -> Entry]
  /\ h[slot].mdel = f /\ h[slot].index = new
  /\ \A s \in Slots : s # slot => h[s] = entries[s]

\* UpdateAddOrEvict writes one slot and keeps it so.
LEMMA UpdateIs ==
  ASSUME NEW entries \in [Slots -> Entry], HashOK(entries), NEW f \in Field, NEW new \in Nat
  PROVE  /\ HashOK(UpdateAddOrEvict(entries, f, new))
         /\ \E slot : Written(entries, UpdateAddOrEvict(entries, f, new), slot, f, new)
<1> DEFINE a == FirstSlot[f.key]
           b == SecondSlot[f.key]
           older == IF entries[a].index < entries[b].index THEN a ELSE b
           slot == IF entries[a].mdel \in {f, NoField} THEN a
                   ELSE IF entries[b].mdel \in {f, NoField} THEN b ELSE older
           new_entry == [mdel |-> f, index |-> new]
           h == [entries EXCEPT ![slot] = new_entry]
<1>1. a \in Slots /\ b \in Slots
  <2>1. f.key \in Keys
    BY DEF Field
  <2> QED
    BY <2>1, HpackAssumption
<1>2. slot \in {a, b} /\ slot \in Slots
  BY <1>1, Zenon
<1>3. h = UpdateAddOrEvict(entries, f, new)
  BY Zenon DEF UpdateAddOrEvict
<1>4. f # NoField
  BY HpackAssumption, Zenon
<1>5. new_entry \in Entry /\ new_entry.mdel = f /\ new_entry.index = new
  BY DEF Entry
<1>6. slot # a => entries[a].mdel # NoField
  BY <1>2, Zenon
<1>7. ASSUME NEW s \in Slots, s # slot PROVE entries[s].mdel # f
  <2>1. SUFFICES ASSUME entries[s].mdel = f PROVE FALSE
    OBVIOUS
  <2>2. s = a \/ (s = b /\ entries[a].mdel # NoField)
    BY <1>4, <2>1, Zenon DEF HashOK
  <2>3. CASE s = a
    BY <1>7, <2>1, <2>3, Zenon
  <2>4. CASE s # a /\ s = b /\ entries[a].mdel # NoField
    <3>1. entries[a].mdel # f
      BY <1>1, <1>4, <2>1, <2>4, Zenon DEF HashOK
    <3> QED
      BY <1>7, <2>1, <2>4, <3>1, Zenon
  <2> QED
    BY <2>2, <2>3, <2>4, Zenon
<1> HIDE DEF new_entry, slot, a, b
<1>8. h \in [Slots -> Entry] /\ h[slot] = new_entry /\ \A s \in Slots : s # slot => h[s] = entries[s]
  BY <1>2, <1>5
<1> HIDE DEF h
<1>9. \A s \in Slots : entries[s].mdel # NoField => h[s].mdel # NoField
  BY <1>4, <1>5, <1>8, Zenon
<1>10. ASSUME NEW s \in Slots, h[s].mdel # NoField
       PROVE  LET g == h[s].mdel
              IN  \/ s = FirstSlot[g.key]
                  \/ s = SecondSlot[g.key] /\ h[FirstSlot[g.key]].mdel # NoField
  <2>1. CASE s = slot
    <3>1. h[s].mdel = f
      BY <1>5, <1>8, <2>1, Zenon
    <3>2. s = a \/ (s = b /\ h[a].mdel # NoField)
      BY <1>1, <1>2, <1>6, <1>9, <2>1, Zenon
    <3> QED
      BY <3>1, <3>2, Zenon DEF a, b
  <2>2. CASE s # slot
    <3>1. PICK g : g = h[s].mdel /\ g = entries[s].mdel /\ g # NoField
      BY <1>8, <1>10, <2>2, Zenon
    <3>2. \/ s = FirstSlot[g.key]
          \/ s = SecondSlot[g.key] /\ entries[FirstSlot[g.key]].mdel # NoField
      BY <3>1, Zenon DEF HashOK
    <3>3. g \in Field
      <4>1. entries[s] \in Entry
        OBVIOUS
      <4>2. entries[s].mdel \in Field \cup {NoField}
        BY <4>1 DEF Entry
      <4> QED
        BY <3>1, <4>2, Zenon
    <3>4. FirstSlot[g.key] \in Slots
      <4>1. g.key \in Keys
        BY <3>3 DEF Field
      <4> QED
        BY <4>1, HpackAssumption
    <3> QED
      BY <1>9, <3>1, <3>2, <3>4, Zenon
  <2> QED
    BY <2>1, <2>2
<1>11. ASSUME NEW s \in Slots, NEW t \in Slots, s # t, h[s].mdel = h[t].mdel PROVE h[s].mdel = NoField
  <2>1. CASE s = slot
    BY <1>5, <1>7, <1>8, <1>11, <2>1, Zenon
  <2>2. CASE t = slot
    BY <1>5, <1>7, <1>8, <1>11, <2>2, Zenon
  <2>3. CASE s # slot /\ t # slot
    BY <1>8, <1>11, <2>3, ZenonT(60) DEF HashOK
  <2> QED
    BY <2>1, <2>2, <2>3, Zenon
<1>12. HashOK(h)
  BY <1>10, <1>11, Zenon DEF HashOK
<1> QED
  BY <1>2, <1>3, <1>5, <1>8, <1>12, Zenon DEF Written

-----------------------------------------------------------------------------
(***************************************************************************)
(* The compressor's picture of the decoder's table.                        *)
(***************************************************************************)

\* The live entries are the newest of the table t, and a live number in the
\* hash table names the field it stands for.
Tracks(r, t) ==
  /\ t.max_table_size = InitialTableSize
  /\ r.table_elems <= Len(t.table)
  /\ \A i \in 1..r.table_elems : LiveSizes(r)[i] = EntrySize(t.table[r.table_elems - i + 1])
  /\ \A s \in Slots :
       /\ r.entries[s].index <= r.tail_remote_index + r.table_elems
       /\ r.entries[s].index > r.tail_remote_index =>
            r.entries[s].mdel = t.table[r.tail_remote_index + r.table_elems - r.entries[s].index + 1]

\* Evicting more than the decoder leaves the picture true.
LEMMA TracksShrunk ==
  ASSUME NEW r, RingOK(r), NEW t, Fits(t), Tracks(r, t), NEW q, NEW n, Shrunk(r, q, n)
  PROVE  Tracks(q, t)
<1>1. r \in Compressor /\ r.table_elem_size \in [0..(r.cap_table_elems - 1) -> Nat] /\ t \in Table
  BY Zenon DEF RingOK, Fits, Accounted
<1>2. r.table_elems \in Nat /\ r.tail_remote_index \in Nat /\ r.entries \in [Slots -> Entry]
  BY <1>1 DEF Compressor
<1>3. t.table \in Seq(Field)
  BY <1>1 DEF Table
<1>4. PICK e \in Nat, o \in Nat, m \in Nat : e = r.table_elems /\ o = r.tail_remote_index /\ m = Len(t.table)
  <2>1. Len(t.table) \in Nat
    BY <1>3
  <2> QED
    BY <1>2, <2>1, Zenon
<1>5. /\ n \in 0..e /\ q.tail_remote_index = o + n /\ q.table_elems = e - n
      /\ LiveSizes(q) = Drop(LiveSizes(r), n) /\ q.entries = r.entries
  BY <1>4, Zenon DEF Shrunk
<1>6. PICK w \in Seq(Nat) : w = LiveSizes(r) /\ Len(w) = e
  BY <1>1, <1>4, LiveSizesIs, Zenon
<1>7. \A i \in 1..(e - n) : Drop(w, n)[i] = w[n + i]
  <2>1. n \in 0..Len(w)
    BY <1>5, <1>6, Zenon
  <2> QED
    BY <1>6, <2>1, Parts, Zenon
<1>8. /\ e <= m
      /\ \A i \in 1..e : w[i] = EntrySize(t.table[e - i + 1])
      /\ \A s \in Slots : /\ r.entries[s].index <= o + e
                          /\ r.entries[s].index > o =>
                               r.entries[s].mdel = t.table[o + e - r.entries[s].index + 1]
  BY <1>4, <1>6, Zenon DEF Tracks
<1>9. e - n <= m /\ (o + n) + (e - n) = o + e
  BY <1>5, <1>8
<1>10. ASSUME NEW i \in 1..(e - n) PROVE LiveSizes(q)[i] = EntrySize(t.table[(e - n) - i + 1])
  <2>1. n + i \in 1..e /\ e - (n + i) + 1 = (e - n) - i + 1
    BY <1>5
  <2>2. LiveSizes(q)[i] = w[n + i]
    BY <1>5, <1>6, <1>7, Zenon
  <2>3. w[n + i] = EntrySize(t.table[e - (n + i) + 1])
    BY <1>8, <2>1, Zenon
  <2> QED
    BY <2>1, <2>2, <2>3, Zenon
<1>11. ASSUME NEW s \in Slots
       PROVE  /\ q.entries[s].index <= (o + n) + (e - n)
              /\ q.entries[s].index > o + n =>
                   q.entries[s].mdel = t.table[(o + n) + (e - n) - q.entries[s].index + 1]
  <2>1. r.entries[s].index \in Nat
    BY <1>2 DEF Entry
  <2>2. PICK k \in Nat : k = r.entries[s].index
    BY <2>1
  <2>3. n \in 0..e
    BY <1>5, Zenon
  <2>4. k > o + n => k > o
    BY <2>3
  <2>5. k <= o + e /\ (k > o => r.entries[s].mdel = t.table[o + e - k + 1])
    BY <1>8, <2>2, Zenon
  <2>6. k <= (o + n) + (e - n) /\ (k > o + n => r.entries[s].mdel = t.table[(o + n) + (e - n) - k + 1])
    <3>1. (o + n) + (e - n) = o + e
      BY <1>9, Zenon
    <3>2. k <= (o + n) + (e - n)
      BY <2>5, <3>1, Zenon
    <3>3. ASSUME k > o + n PROVE r.entries[s].mdel = t.table[(o + n) + (e - n) - k + 1]
      <4>1. k > o
        BY <2>4, <3>3, Zenon
      <4>2. r.entries[s].mdel = t.table[o + e - k + 1]
        BY <2>5, <4>1, Zenon
      <4>3. (o + n) + (e - n) - k + 1 = o + e - k + 1
        BY <2>3
      <4> QED
        BY <4>2, <4>3, Zenon
    <3> QED
      BY <3>2, <3>3, Zenon
  <2> QED
    BY <1>5, <2>2, <2>6, Zenon
<1> QED
  BY <1>4, <1>5, <1>9, <1>10, <1>11, Zenon DEF Tracks

\* The sizes the decoder has after inserting f, without those the compressor
\* has evicted.
LEMMA SameEnd ==
  ASSUME NEW r, RingOK(r), NEW t, Fits(t), Tracks(r, t), NEW f \in Field, NEW n \in 0..r.table_elems
  PROVE  /\ Len(t.table) - (r.table_elems - n) \in 0..(Len(t.table) + 1)
         /\ Drop(Oldest(<<f>> \o t.table), Len(t.table) - (r.table_elems - n))
              = Drop(LiveSizes(r), n) \o <<EntrySize(f)>>
<1>1. r \in Compressor /\ r.table_elem_size \in [0..(r.cap_table_elems - 1) -> Nat] /\ t \in Table
  BY Zenon DEF RingOK, Fits, Accounted
<1>2. r.table_elems \in Nat
  BY <1>1 DEF Compressor
<1>3. t.table \in Seq(Field)
  BY <1>1 DEF Table
<1>4. PICK e \in Nat, m \in Nat : e = r.table_elems /\ m = Len(t.table) /\ n \in 0..e
  <2>1. Len(t.table) \in Nat
    BY <1>3
  <2> QED
    BY <1>2, <2>1, Zenon
<1>5. PICK w \in Seq(Nat) : w = LiveSizes(r) /\ Len(w) = e
  BY <1>1, <1>4, LiveSizesIs, Zenon
<1>6. e <= m /\ \A i \in 1..e : w[i] = EntrySize(t.table[e - i + 1])
  BY <1>4, <1>5, Zenon DEF Tracks
<1>7. PICK size \in Nat : size = EntrySize(f)
  BY EntrySizeIs, Zenon
<1>8. PICK g \in Nat, kk \in Nat : g = e - n /\ kk = m - g
  <2>1. n \in 0..e /\ e <= m
    BY <1>4, <1>6, Zenon
  <2>2. e - n \in Nat /\ m - (e - n) \in Nat
    BY <2>1
  <2> QED
    BY <2>2, Zenon
<1>9. n \in 0..e /\ e <= m /\ g = e - n /\ kk = m - g
  BY <1>4, <1>6, <1>8, Zenon
<1>10. PICK x \in Seq(Nat) : x = Drop(w, n) /\ Len(x) = g /\ \A i \in 1..g : x[i] = w[n + i]
  <2>1. n \in 0..Len(w)
    BY <1>4, <1>5, Zenon
  <2>2. /\ Drop(w, n) \in Seq(Nat) /\ Len(Drop(w, n)) = Len(w) - n
        /\ \A i \in 1..(Len(w) - n) : Drop(w, n)[i] = w[n + i]
    BY <2>1, Parts, Zenon
  <2> QED
    BY <1>5, <1>8, <2>2, Zenon
<1>11. PICK v \in Seq(Nat) : v = Oldest(t.table) /\ Len(v) = m
                             /\ \A i \in 1..m : v[i] = EntrySize(t.table[m - i + 1])
  BY <1>3, <1>4, OldestIs, Zenon
<1>12. PICK y \in Seq(Nat) : /\ y = v \o <<size>> /\ Len(y) = m + 1
                             /\ y[m + 1] = size /\ \A i \in 1..m : y[i] = v[i]
  BY <1>11, OneMore, ZenonT(60)
<1>13. PICK z \in Seq(Nat) : /\ z = x \o <<size>> /\ Len(z) = g + 1
                             /\ z[g + 1] = size /\ \A i \in 1..g : z[i] = x[i]
  <2>1. Len(x) = g
    BY <1>10, Zenon
  <2> QED
    BY <2>1, OneMore, ZenonT(60)
<1>14. PICK p \in Seq(Nat) : p = Drop(y, kk) /\ Len(p) = g + 1 /\ \A i \in 1..(g + 1) : p[i] = y[kk + i]
  <2>0. kk \in 0..(m + 1) /\ (m + 1) - kk = g + 1
    BY <1>9
  <2>1. kk \in 0..Len(y) /\ (m + 1) - kk = g + 1
    BY <1>12, <2>0, Zenon
  <2>2. /\ Drop(y, kk) \in Seq(Nat) /\ Len(Drop(y, kk)) = Len(y) - kk
        /\ \A i \in 1..(Len(y) - kk) : Drop(y, kk)[i] = y[kk + i]
    BY <2>1, Parts, Zenon
  <2>3. Len(y) - kk = g + 1
    BY <1>12, <2>0, Zenon
  <2> QED
    BY <2>2, <2>3, Zenon
<1>15. ASSUME NEW i \in 1..(g + 1) PROVE p[i] = z[i]
  <2>1. CASE i = g + 1
    <3>1. kk + i = m + 1
      BY <1>9, <2>1
    <3> QED
      BY <1>12, <1>13, <1>14, <2>1, <3>1, Zenon
  <2>2. CASE i # g + 1
    <3>1. /\ i \in 1..g /\ kk + i \in 1..m /\ n + i \in 1..e
          /\ m - (kk + i) + 1 = e - (n + i) + 1
      BY <1>9, <2>2
    <3>2. p[i] = EntrySize(t.table[m - (kk + i) + 1])
      BY <1>11, <1>12, <1>14, <3>1, Zenon
    <3>3. z[i] = EntrySize(t.table[e - (n + i) + 1])
      BY <1>6, <1>10, <1>13, <3>1, Zenon
    <3> QED
      BY <3>1, <3>2, <3>3, Zenon
  <2> QED
    BY <2>1, <2>2
<1>16. p = z
  BY <1>13, <1>14, <1>15, SeqEqual
<1>17. Oldest(<<f>> \o t.table) = y
  BY <1>3, <1>7, <1>11, <1>12, OldestPush, Zenon
<1>18. kk \in 0..(m + 1)
  BY <1>9
<1>19. Drop(y, kk) = x \o <<size>>
  BY <1>13, <1>14, <1>16, Zenon
<1>20. Len(t.table) - (r.table_elems - n) = kk
  BY <1>4, <1>9, Zenon
<1> QED
  BY <1>4, <1>5, <1>7, <1>10, <1>17, <1>18, <1>19, <1>20, Zenon

\* What the decoder keeps of an insertion: at least what fits.
LEMMA DecoderKeeps ==
  ASSUME NEW t, Fits(t), NEW f \in Field, NEW k \in 0..Len(t.table),
         Total(Drop(Oldest(<<f>> \o t.table), k)) <= t.max_table_size
  PROVE  LET u == push_mdelem_data(t, f)
         IN  /\ u.max_table_size = t.max_table_size /\ (Len(t.table) - k) + 1 <= Len(u.table)
             /\ u.table[1] = f /\ \A j \in 1..(Len(t.table) - k) : u.table[j + 1] = t.table[j]
<1> DEFINE u == push_mdelem_data(t, f)
<1>1. Accounted(t) /\ t \in Table
  BY Zenon DEF Fits, Accounted
<1>2. t.table \in Seq(Field) /\ t.max_table_size \in Nat
  BY <1>1 DEF Table
<1>3. PICK p : /\ p = Pushed(t, f) /\ Accounted(p) /\ p.table = <<f>> \o t.table
               /\ p.max_table_size = t.max_table_size /\ u = adjust_dynamic_table_size(p)
  BY <1>1, PushedIs, Zenon
<1>4. PICK m \in Nat : m = Len(t.table) /\ k \in 0..m
  BY <1>2
<1>5. PICK s \in Seq(Field) : /\ s = <<f>> \o t.table /\ Len(s) = m + 1 /\ s[1] = f
                              /\ \A i \in 1..m : s[i + 1] = t.table[i]
  BY <1>2, <1>4, OldestPush, Zenon
<1>6. PICK n : /\ n = Excess(Oldest(s), t.max_table_size) /\ n \in 0..(m + 1)
               /\ u.max_table_size = t.max_table_size /\ u.table = SubSeq(s, 1, (m + 1) - n)
  <2>1. LET x == Excess(Oldest(p.table), p.max_table_size)
        IN  /\ x \in 0..Len(p.table) /\ u.max_table_size = p.max_table_size
            /\ u.table = SubSeq(p.table, 1, Len(p.table) - x)
    BY <1>3, AdjustIs, Zenon
  <2>2. p.table = s /\ Len(p.table) = m + 1 /\ p.max_table_size = t.max_table_size
    BY <1>3, <1>5, Zenon
  <2> HIDE DEF u
  <2> QED
    BY <2>1, <2>2, Zenon
<1>7. PICK w \in Seq(Nat) : w = Oldest(s) /\ Len(w) = m + 1
  BY <1>5, OldestIs, Zenon
<1>8. n <= k
  <2>1. t.max_table_size \in Int
    BY <1>2
  <2>2. \A j \in 0..Len(w) : Total(Drop(w, j)) <= t.max_table_size => n <= j
    BY <1>6, <1>7, <2>1, ExcessIs, Zenon
  <2>3. k \in 0..(m + 1)
    BY <1>4
  <2> QED
    BY <1>5, <1>7, <2>2, <2>3, Zenon
<1>9. n \in 0..(m + 1) /\ k \in 0..m
  BY <1>4, <1>6, Zenon
<1>10. PICK l \in Nat : l = (m + 1) - n /\ (m - k) + 1 <= l
  BY <1>8, <1>9
<1>11. Len(SubSeq(s, 1, l)) = l /\ \A i \in 1..l : SubSeq(s, 1, l)[i] = s[i]
  <2>1. n \in 0..Len(s)
    BY <1>5, <1>9, Zenon
  <2>2. /\ Len(SubSeq(s, 1, Len(s) - n)) = Len(s) - n
        /\ \A i \in 1..(Len(s) - n) : SubSeq(s, 1, Len(s) - n)[i] = s[i]
    BY <2>1, OldestDrop, Zenon
  <2>3. Len(s) - n = l
    BY <1>5, <1>10, Zenon
  <2> QED
    BY <2>2, <2>3, Zenon
<1>12. u.table[1] = f
  <2>1. 1 \in 1..l
    BY <1>9, <1>10
  <2> QED
    BY <1>5, <1>6, <1>10, <1>11, <2>1, Zenon
<1>13. ASSUME NEW j \in 1..(m - k) PROVE u.table[j + 1] = t.table[j]
  <2>1. j \in 1..m /\ j + 1 \in 1..l
    BY <1>9, <1>10
  <2> QED
    BY <1>5, <1>6, <1>10, <1>11, <2>1, Zenon
<1> QED
  BY <1>4, <1>6, <1>10, <1>11, <1>12, <1>13, Zenon

\* A ring does not depend on the hash table.
LEMMA WithEntries ==
  ASSUME NEW p, RingOK(p), NEW h \in [Slots -> Entry]
  PROVE  \E q : /\ q = [p EXCEPT !.entries = h] /\ RingOK(q) /\ LiveSizes(q) = LiveSizes(p)
                /\ q.entries = h /\ q.tail_remote_index = p.tail_remote_index
                /\ q.table_elems = p.table_elems
<1>1. /\ p \in Compressor /\ p.table_elem_size \in [0..(p.cap_table_elems - 1) -> Nat]
      /\ p.max_table_size <= InitialTableSize
      /\ elems_for_bytes(p.max_table_size) <= p.cap_table_elems
      /\ (\A i \in 1..p.table_elems : LiveSizes(p)[i] > Overhead)
      /\ p.table_size = Total(LiveSizes(p)) /\ p.table_size <= p.max_table_size
  BY Zenon DEF RingOK
<1>2. PICK q : q = [p EXCEPT !.entries = h]
  BY Zenon
<1>3. /\ q \in Compressor /\ q.max_table_size = p.max_table_size /\ q.cap_table_elems = p.cap_table_elems
      /\ q.tail_remote_index = p.tail_remote_index /\ q.table_size = p.table_size
      /\ q.table_elems = p.table_elems /\ q.entries = h /\ q.table_elem_size = p.table_elem_size
  BY <1>1, <1>2 DEF Compressor
<1>4. \A i : SizeAt(q, i) = SizeAt(p, i)
  BY <1>3, Zenon DEF SizeAt
<1>5. LiveSizes(q) = LiveSizes(p)
  BY <1>3, <1>4, Zenon DEF LiveSizes
<1>6. RingOK(q)
  BY <1>1, <1>3, <1>5, Zenon DEF RingOK
<1> QED
  BY <1>2, <1>3, <1>5, <1>6, Zenon

\* add_elem at the compressor and push_mdelem_data at the decoder: the picture
\* stays true.
LEMMA AddElemIs ==
  ASSUME NEW r, RingOK(r), HashOK(r.entries), NEW t, Fits(t), Tracks(r, t),
         NEW f \in Field, get_size_in_hpack_table(f) = EntrySize(f)
  PROVE  LET q == add_elem(r, f)
         IN  /\ RingOK(q) /\ HashOK(q.entries) /\ Tracks(q, push_mdelem_data(t, f))
             /\ q.tail_remote_index + q.table_elems <= r.tail_remote_index + r.table_elems + 1
<1> DEFINE u == push_mdelem_data(t, f)
<1>1. r \in Compressor /\ r.max_table_size <= InitialTableSize /\ t \in Table
      /\ r.table_elem_size \in [0..(r.cap_table_elems - 1) -> Nat]
  BY Zenon DEF RingOK, Fits, Accounted
<1>2. r.table_elems \in Nat /\ r.tail_remote_index \in Nat /\ r.max_table_size \in Nat
      /\ r.entries \in [Slots -> Entry]
  BY <1>1 DEF Compressor
<1>3. t.table \in Seq(Field)
  BY <1>1 DEF Table
<1>4. PICK e \in Nat, o \in Nat, m \in Nat : e = r.table_elems /\ o = r.tail_remote_index /\ m = Len(t.table)
  <2>1. Len(t.table) \in Nat
    BY <1>3
  <2> QED
    BY <1>2, <2>1, Zenon
<1>5. PICK size \in Nat : size = EntrySize(f) /\ size > Overhead
  BY EntrySizeIs, Zenon
<1>6. PICK w \in Seq(Nat) : w = LiveSizes(r) /\ Len(w) = e
  BY <1>1, <1>4, LiveSizesIs, Zenon
<1>7. /\ t.max_table_size = InitialTableSize /\ e <= m
      /\ \A i \in 1..e : w[i] = EntrySize(t.table[e - i + 1])
      /\ \A s \in Slots : /\ r.entries[s].index <= o + e
                          /\ r.entries[s].index > o =>
                               r.entries[s].mdel = t.table[o + e - r.entries[s].index + 1]
  BY <1>4, <1>6, Zenon DEF Tracks
<1>8. CASE size > r.max_table_size
  <2>1. PICK q : q = Without(r, e) /\ prepare_space_for_new_elem(r, size) = [index |-> 0, c |-> q]
    BY <1>4, <1>5, <1>8, PrepareIs, Zenon
  <2>2. add_elem(r, f) = q
    <3>1. PICK z : z = prepare_space_for_new_elem(r, size)
      BY Zenon
    <3>2. z.index = 0 /\ z.c = q
      BY <2>1, <3>1
    <3> QED
      BY <1>5, <3>1, <3>2, Zenon DEF add_elem
  <2>3. e \in 0..r.table_elems
    <3>1. e \in 0..e
      OBVIOUS
    <3> QED
      BY <1>4, <3>1, Zenon
  <2>4. RingOK(q)
    BY <2>1, <2>3, WithoutIs, Zenon
  <2>5. q.tail_remote_index = o + e /\ q.table_elems = e - e /\ q.entries = r.entries
    BY <1>4, <2>1 DEF Without
  <2>6. e - e = 0 /\ (o + e) + 0 = o + e /\ o + e <= o + e + 1
    OBVIOUS
  <2>7. u.max_table_size = t.max_table_size /\ Fits(u)
    <3>1. Accounted(t)
      BY Zenon DEF Fits
    <3>2. PICK p : /\ Accounted(p) /\ p.max_table_size = t.max_table_size
                   /\ u = adjust_dynamic_table_size(p)
      BY <3>1, PushedIs, Zenon
    <3>3. u.max_table_size = p.max_table_size
      BY <3>2, AdjustIs, Zenon
    <3>4. Fits(u)
      BY TableKept, Zenon
    <3> QED
      BY <3>2, <3>3, <3>4, Zenon
  <2>8. 0 <= Len(u.table)
    <3>1. u \in Table
      BY <2>7, Zenon DEF Fits, Accounted
    <3>2. u.table \in Seq(Field)
      BY <3>1 DEF Table
    <3> QED
      BY <3>2
  <2>9. ASSUME NEW s \in Slots PROVE q.entries[s].index <= o + e /\ ~ (q.entries[s].index > o + e)
    <3>1. r.entries[s].index \in Nat /\ o + e \in Nat
      BY <1>2 DEF Entry
    <3>2. r.entries[s].index <= o + e
      BY <1>7, Zenon
    <3>3. ~ (r.entries[s].index > o + e)
      BY <3>1, <3>2
    <3> QED
      BY <2>5, <3>2, <3>3, Zenon
  <2>10. q.table_elems = 0 /\ q.tail_remote_index + q.table_elems = o + e
    BY <2>5, <2>6, Zenon
  <2>11. Tracks(q, u)
    <3>1. \A i \in 1..0 : FALSE
      OBVIOUS
    <3> QED
      BY <1>7, <2>5, <2>7, <2>8, <2>9, <2>10, <3>1, Zenon DEF Tracks
  <2> QED
    BY <1>4, <2>2, <2>4, <2>5, <2>6, <2>10, <2>11, Zenon
<1>9. CASE ~ (size > r.max_table_size)
  <2>1. PICK n \in 0..r.table_elems :
          /\ Total(Drop(w, n)) + size <= r.max_table_size
          /\ prepare_space_for_new_elem(r, size) = [index |-> o + e + 1, c |-> Added(Without(r, n), size)]
    BY <1>4, <1>5, <1>6, <1>9, PrepareIs, Zenon
  <2>2. PICK z : z = Without(r, n) /\ RingOK(z) /\ LiveSizes(z) = Drop(w, n)
    BY <1>6, WithoutIs, Zenon
  <2>3. /\ z.tail_remote_index = o + n /\ z.table_elems = e - n /\ z.entries = r.entries
        /\ z.table_size = Total(Drop(w, n)) /\ z.max_table_size = r.max_table_size
    BY <1>4, <1>6, <2>2 DEF Without
  <2>4. PICK p : p = Added(z, size) /\ RingOK(p) /\ LiveSizes(p) = Drop(w, n) \o <<size>>
    BY <1>5, <2>1, <2>2, <2>3, AddedIs, Zenon
  <2>5. p.tail_remote_index = o + n /\ p.table_elems = (e - n) + 1 /\ p.entries = r.entries
    BY <2>3, <2>4 DEF Added
  <2>6. PICK new \in Nat : new = o + e + 1
    OBVIOUS
  <2>7. PICK slot \in Slots, h \in [Slots -> Entry] :
           /\ h = UpdateAddOrEvict(r.entries, f, new)
           /\ h[slot].mdel = f /\ h[slot].index = new
           /\ \A s \in Slots : s # slot => h[s] = r.entries[s]
           /\ HashOK(h)
    <3>1. PICK h : h = UpdateAddOrEvict(r.entries, f, new) /\ HashOK(h)
                   /\ \E slot : Written(r.entries, h, slot, f, new)
      BY <1>2, UpdateIs, Zenon
    <3> QED
      BY <3>1, Zenon DEF Written
  <2>8. PICK q : /\ q = [p EXCEPT !.entries = h] /\ RingOK(q) /\ LiveSizes(q) = LiveSizes(p)
                 /\ q.entries = h /\ q.tail_remote_index = p.tail_remote_index
                 /\ q.table_elems = p.table_elems
    BY <2>4, WithEntries, ZenonT(60)
  <2>9. add_elem(r, f) = q
    <3>1. PICK y : y = prepare_space_for_new_elem(r, size)
      BY Zenon
    <3>2. y.index = new /\ y.c = p /\ new # 0
      BY <2>1, <2>2, <2>4, <2>6, <3>1
    <3>3. [y.c EXCEPT !.entries = UpdateAddOrEvict(@, f, y.index)] = q
      BY <2>5, <2>7, <2>8, <3>2, Zenon
    <3> QED
      BY <1>5, <3>1, <3>2, <3>3, Zenon DEF add_elem
  <2>10. PICK g \in Nat, kk \in Nat : g = e - n /\ kk = m - g /\ n \in 0..e /\ e <= m
    <3>1. n \in 0..e /\ e <= m
      BY <1>4, <1>7, <2>1, Zenon
    <3>2. e - n \in Nat /\ m - (e - n) \in Nat
      BY <3>1
    <3> QED
      BY <3>1, <3>2, Zenon
  <2>11. Drop(Oldest(<<f>> \o t.table), kk) = Drop(w, n) \o <<size>>
    BY <1>4, <1>5, <1>6, <2>10, SameEnd, Zenon
  <2>12. PICK x \in Seq(Nat) : x = Drop(w, n) /\ Len(x) = g /\ \A i \in 1..g : x[i] = w[n + i]
    <3>1. n \in 0..Len(w)
      BY <1>6, <2>10, Zenon
    <3>2. /\ Drop(w, n) \in Seq(Nat) /\ Len(Drop(w, n)) = Len(w) - n
          /\ \A i \in 1..(Len(w) - n) : Drop(w, n)[i] = w[n + i]
      BY <3>1, Parts, Zenon
    <3>3. Len(w) - n = g
      BY <1>6, <2>10, Zenon
    <3> QED
      BY <3>2, <3>3, Zenon
  <2>13. /\ Total(x \o <<size>>) = Total(x) + size
         /\ (x \o <<size>>)[g + 1] = size /\ \A i \in 1..g : (x \o <<size>>)[i] = x[i]
    <3>1. Len(x) = g
      BY <2>12, Zenon
    <3> QED
      BY <3>1, OneMore, Zenon
  <2>14. Total(x \o <<size>>) <= t.max_table_size
    <3>1. Total(x) \in Nat
      BY TotalNat
    <3>2. Total(x) + size <= r.max_table_size
      BY <2>1, <2>12, Zenon
    <3>3. InitialTableSize \in Nat
      BY HpackAssumption
    <3>4. Total(x) + size <= InitialTableSize
      BY <1>1, <1>2, <3>1, <3>2, <3>3
    <3> QED
      BY <1>7, <2>13, <3>4, Zenon
  <2>15. kk \in 0..Len(t.table) /\ Len(t.table) - kk = g
    <3>1. kk \in 0..m /\ m - kk = g
      BY <2>10
    <3> QED
      BY <1>4, <3>1, Zenon
  <2>16. /\ u.max_table_size = t.max_table_size /\ g + 1 <= Len(u.table)
         /\ u.table[1] = f /\ \A j \in 1..g : u.table[j + 1] = t.table[j]
    <3>1. Total(Drop(Oldest(<<f>> \o t.table), kk)) <= t.max_table_size
      BY <2>11, <2>12, <2>14, Zenon
    <3> QED
      BY <2>15, <3>1, DecoderKeeps, Zenon
  <2> HIDE DEF u
  <2>17. ASSUME NEW i \in 1..(g + 1) PROVE LiveSizes(q)[i] = EntrySize(u.table[(g + 1) - i + 1])
    <3>1. LiveSizes(q)[i] = (x \o <<size>>)[i]
      BY <2>4, <2>8, <2>12, Zenon
    <3>2. CASE i = g + 1
      <4>1. (g + 1) - i + 1 = 1
        BY <3>2
      <4> QED
        BY <1>5, <2>13, <2>16, <3>1, <3>2, <4>1, Zenon
    <3>3. CASE i # g + 1
      <4>1. PICK j \in 1..g : j = g - i + 1 /\ i \in 1..g
        BY <3>3
      <4>2. (g + 1) - i + 1 = j + 1
        BY <4>1
      <4>3. n + i \in 1..e /\ e - (n + i) + 1 = j
        BY <2>10, <4>1
      <4>4. LiveSizes(q)[i] = w[n + i]
        BY <2>12, <2>13, <3>1, <4>1, Zenon
      <4>5. w[n + i] = EntrySize(t.table[j])
        BY <1>7, <4>3, Zenon
      <4>6. u.table[j + 1] = t.table[j]
        BY <2>16, Zenon
      <4> QED
        BY <4>2, <4>4, <4>5, <4>6, Zenon
    <3> QED
      BY <3>2, <3>3
  <2>18. (o + n) + (g + 1) = new
    BY <2>6, <2>10
  <2>19. ASSUME NEW s \in Slots
         PROVE  /\ h[s].index <= (o + n) + (g + 1)
                /\ h[s].index > o + n =>
                     h[s].mdel = u.table[(o + n) + (g + 1) - h[s].index + 1]
    <3>1. PICK k \in Nat : k = h[s].index
      <4>1. h[s] \in Entry
        OBVIOUS
      <4> QED
        BY <4>1 DEF Entry
    <3>2. CASE s = slot
      <4>1. k = new /\ h[s].mdel = f
        BY <2>7, <3>1, <3>2, Zenon
      <4>2. k <= (o + n) + (g + 1) /\ (o + n) + (g + 1) - k + 1 = 1
        BY <2>10, <2>18, <4>1
      <4> QED
        BY <2>16, <3>1, <4>1, <4>2, Zenon
    <3>3. CASE s # slot
      <4>1. h[s] = r.entries[s]
        BY <2>7, <3>3, Zenon
      <4>2. k <= o + e /\ (k > o => h[s].mdel = t.table[o + e - k + 1])
        BY <1>7, <3>1, <4>1, Zenon
      <4>3. k <= (o + n) + (g + 1)
        BY <2>10, <4>2
      <4>4. ASSUME k > o + n PROVE h[s].mdel = u.table[(o + n) + (g + 1) - k + 1]
        <5>1. PICK j \in 1..g : j = o + e - k + 1 /\ j + 1 = (o + n) + (g + 1) - k + 1 /\ k > o
          BY <2>10, <4>2, <4>4
        <5>2. h[s].mdel = t.table[j]
          BY <4>2, <5>1, Zenon
        <5>3. u.table[j + 1] = t.table[j]
          BY <2>16, Zenon
        <5> QED
          BY <5>1, <5>2, <5>3, Zenon
      <4> QED
        BY <3>1, <4>3, <4>4, Zenon
    <3> QED
      BY <3>2, <3>3
  <2>20. q.table_elems = g + 1 /\ q.tail_remote_index = o + n /\ q.entries = h
    BY <2>5, <2>8, <2>10, Zenon
  <2>21. Tracks(q, u)
    BY <1>7, <2>16, <2>17, <2>19, <2>20, Zenon DEF Tracks
  <2>22. q.tail_remote_index + q.table_elems <= o + e + 1
    <3>1. (o + n) + (g + 1) <= o + e + 1
      BY <2>10
    <3> QED
      BY <2>20, <3>1, Zenon
  <2> QED
    BY <1>4, <2>7, <2>8, <2>9, <2>20, <2>21, <2>22, Zenon DEF u
<1> QED
  BY <1>8, <1>9

-----------------------------------------------------------------------------
(***************************************************************************)
(* One field, encoded and decoded.                                         *)
(***************************************************************************)

\* acc with a field more and the table t.
WithField(acc, t, f) == [d |-> t, fields |-> Append(acc.fields, f), error |-> NoError]

\* An index that leads to a field decodes to it.
LEMMA DecodesIndexed ==
  ASSUME NEW acc, Sound(acc), acc.error = NoError, NEW index \in Nat, NEW f \in Field,
         get_mdelem_data(acc.d, index) = {f}
  PROVE  decode_representation(acc, encode_index(index)) = WithField(acc, acc.d, f)
         /\ WellFormed(encode_index(index))
<1>1. PICK rep : rep = encode_index(index)
  BY Zenon
<1>2. rep.kind = "indexed" /\ rep.index = index
  BY <1>1 DEF encode_index, Representation
<1>3. WellFormed(rep)
  BY <1>2 DEF WellFormed
<1>4. decode_representation(acc, rep) = decode_indexed(acc, rep)
  BY <1>2 DEF decode_representation
<1>5. (CHOOSE g \in {f} : TRUE) = f /\ {f} # {}
  OBVIOUS
<1>6. decode_indexed(acc, rep) = [acc EXCEPT !.fields = @ \o <<f>>]
  BY <1>2, <1>5, Zenon DEF decode_indexed
<1>7. acc \in Progress
  BY Zenon DEF Sound
<1>8. acc.fields \in Seq(Field)
  BY <1>7 DEF Progress
<1>9. acc.fields \o <<f>> = Append(acc.fields, f)
  BY <1>8
<1>10. PICK x, s : s = Append(acc.fields, f) /\ x = [acc EXCEPT !.fields = s]
  BY Zenon
<1>11. x = [d |-> acc.d, fields |-> s, error |-> acc.error]
  BY <1>7, <1>10 DEF Progress
<1> QED
  BY <1>1, <1>3, <1>4, <1>6, <1>9, <1>10, <1>11, Zenon DEF WithField

\* A literal for f: its name is spelled out, or found in the tables.
LiteralOf(rep, f, t) ==
  /\ rep.kind \in {"incremental", "literal"} /\ rep.index \in Nat /\ rep.value = f.value
  /\ rep.index = 0 => rep.key = f.key
  /\ rep.index # 0 => \E g : g.key = f.key /\ get_mdelem_data(t, rep.index) = {g}

\* It decodes to f; the incremental one also inserts f.
LEMMA DecodesLiteral ==
  ASSUME NEW acc, Sound(acc), acc.error = NoError, NEW f \in Field, NEW rep, LiteralOf(rep, f, acc.d)
  PROVE  /\ WellFormed(rep)
         /\ rep.kind = "incremental" =>
              decode_representation(acc, rep) = WithField(acc, push_mdelem_data(acc.d, f), f)
         /\ rep.kind # "incremental" =>
              decode_representation(acc, rep) = WithField(acc, acc.d, f)
<1> DEFINE named == IF rep.index = 0 THEN {rep.key}
                    ELSE {g.key : g \in get_mdelem_data(acc.d, rep.index)}
           field == [key |-> CHOOSE k \in named : TRUE, value |-> rep.value]
           added == IF rep.kind = "incremental" THEN push_mdelem_data(acc.d, field) ELSE acc.d
<1>0. /\ rep.kind \in {"incremental", "literal"} /\ rep.index \in Nat /\ rep.value = f.value
      /\ (rep.index = 0 => rep.key = f.key)
      /\ (rep.index # 0 => \E g : g.key = f.key /\ get_mdelem_data(acc.d, rep.index) = {g})
  BY Zenon DEF LiteralOf
<1>1. decode_representation(acc, rep) = decode_literal(acc, rep)
  BY <1>0 DEF decode_representation
<1>2. decode_literal(acc, rep) = IF named = {} THEN Fails(acc)
                                 ELSE [acc EXCEPT !.d = added, !.fields = Append(@, field)]
  BY Zenon DEF decode_literal
<1>3. named = {f.key}
  <2>1. CASE rep.index = 0
    BY <1>0, <2>1, Zenon
  <2>2. CASE rep.index # 0
    <3>1. PICK g : g.key = f.key /\ get_mdelem_data(acc.d, rep.index) = {g}
      BY <1>0, <2>2, Zenon
    <3>2. {x.key : x \in {g}} = {g.key}
      OBVIOUS
    <3> QED
      BY <2>2, <3>1, <3>2, Zenon
  <2> QED
    BY <2>1, <2>2
<1>4. (CHOOSE k \in {f.key} : TRUE) = f.key /\ {f.key} # {}
  OBVIOUS
<1>5. field = [key |-> f.key, value |-> f.value]
  BY <1>0, <1>3, <1>4, Zenon
<1> HIDE DEF named
<1>6. field = f
  BY <1>5 DEF Field
<1> HIDE DEF field
<1>7. acc \in Progress /\ Fits(acc.d)
  BY Zenon DEF Sound
<1>8. Fits(added)
  BY <1>6, <1>7, TableKept, Zenon
<1>9. [acc EXCEPT !.d = added, !.fields = Append(@, f)]
        = [d |-> added, fields |-> Append(acc.fields, f), error |-> acc.error]
  <2> HIDE DEF added
  <2> QED
    BY <1>8, Decoded, Zenon
<1>10. WellFormed(rep)
  <2>1. f.key \in Keys /\ f.value \in Values
    BY DEF Field
  <2> QED
    BY <1>0, <2>1 DEF WellFormed
<1> QED
  BY <1>1, <1>2, <1>3, <1>4, <1>6, <1>9, <1>10, Zenon DEF WithField

\* dynidx of a live number leads to the field it stands for.
LEMMA DynidxFinds ==
  ASSUME NEW r, RingOK(r), NEW t, Fits(t), Tracks(r, t), NEW s \in Slots,
         r.entries[s].index > r.tail_remote_index
  PROVE  /\ dynidx(r, r.entries[s].index) \in Nat \ {0}
         /\ get_mdelem_data(t, dynidx(r, r.entries[s].index)) = {r.entries[s].mdel}
         /\ r.entries[s].mdel \in Field
<1>1. r \in Compressor /\ t \in Table
  BY Zenon DEF RingOK, Fits, Accounted
<1>2. r.table_elems \in Nat /\ r.tail_remote_index \in Nat /\ r.entries \in [Slots -> Entry]
  BY <1>1 DEF Compressor
<1>3. t.table \in Seq(Field) /\ Len(StaticTable) \in Nat
  BY <1>1, HpackAssumption DEF Table
<1>4. r.entries[s].index \in Nat
  BY <1>2 DEF Entry
<1>5. PICK e \in Nat, o \in Nat, m \in Nat, k \in Nat, l \in Nat :
        /\ e = r.table_elems /\ o = r.tail_remote_index /\ m = Len(t.table)
        /\ k = r.entries[s].index /\ l = Len(StaticTable)
  <2>1. Len(t.table) \in Nat
    BY <1>3
  <2> QED
    BY <1>2, <1>3, <1>4, <2>1, Zenon
<1>6. e <= m /\ k <= o + e /\ k > o /\ r.entries[s].mdel = t.table[o + e - k + 1]
  BY <1>5, Zenon DEF Tracks
<1>7. PICK j \in 1..m : j = o + e - k + 1
  <2>1. e <= m /\ k <= o + e /\ k > o
    BY <1>6, Zenon
  <2>2. o + e - k + 1 \in 1..m
    BY <2>1
  <2> QED
    BY <2>2, Zenon
<1>8. PICK index \in Nat \ {0} : index = dynidx(r, k) /\ index - l = j /\ index \notin 1..l
  <2>1. dynidx(r, k) = 1 + l + o + e - k
    BY <1>5, Zenon DEF dynidx
  <2>2. PICK i \in Nat \ {0} : i = 1 + l + o + e - k /\ i - l = j /\ i \notin 1..l
    BY <1>7
  <2> QED
    BY <2>1, <2>2, Zenon
<1>9. get_mdelem_data(t, index) = {t.table[j]}
  BY <1>5, <1>8, Zenon DEF get_mdelem_data
<1>10. t.table[j] \in Field
  BY <1>3, <1>5, ElementOfSeq
<1> QED
  BY <1>5, <1>6, <1>7, <1>8, <1>9, <1>10, Zenon

\* What GetMatchingIndex finds in the hash table, as far as it is live.
LEMMA MatchIs ==
  ASSUME NEW r, RingOK(r), NEW f \in Field
  PROVE  LET match == GetMatchingIndex(r, f)
         IN  /\ match.full \in BOOLEAN
             /\ match.index > r.tail_remote_index =>
                  \E s \in Slots :
                    /\ match.index = r.entries[s].index
                    /\ IF match.full THEN r.entries[s].mdel = f ELSE r.entries[s].mdel.key = f.key
<1> DEFINE sa == FirstSlot[f.key]
           sb == SecondSlot[f.key]
           a == r.entries[sa]
           b == r.entries[sb]
           named == {x.index : x \in {x \in {a, b} : x.mdel.key = f.key}}
           live  == {i \in named : i > r.tail_remote_index}
           match == GetMatchingIndex(r, f)
<1>1. r \in Compressor
  BY Zenon DEF RingOK
<1>2. r.tail_remote_index \in Nat /\ r.entries \in [Slots -> Entry]
  BY <1>1 DEF Compressor
<1>3. sa \in Slots /\ sb \in Slots
  <2>1. f.key \in Keys
    BY DEF Field
  <2> QED
    BY <2>1, HpackAssumption
<1>4. a.index \in Nat /\ b.index \in Nat
  BY <1>2, <1>3 DEF Entry
<1> HIDE DEF sa, sb
<1>5. CASE a.mdel = f
  <2>1. match = [full |-> TRUE, index |-> a.index]
    BY <1>5, Zenon DEF GetMatchingIndex, sa, sb
  <2>2. match.full = TRUE /\ match.index = a.index
    BY <2>1
  <2> QED
    BY <1>3, <1>5, <2>2, Zenon
<1>6. CASE a.mdel # f /\ b.mdel = f
  <2>1. match = [full |-> TRUE, index |-> b.index]
    BY <1>6, Zenon DEF GetMatchingIndex, sa, sb
  <2>2. match.full = TRUE /\ match.index = b.index
    BY <2>1
  <2> QED
    BY <1>3, <1>6, <2>2, Zenon
<1>7. CASE f \notin {a.mdel, b.mdel}
  <2> DEFINE index == IF live # {} THEN Min(live)
                      ELSE IF named # {} THEN r.tail_remote_index ELSE 0
  <2>1. match = [full |-> FALSE, index |-> index]
    BY <1>7, Zenon DEF GetMatchingIndex, sa, sb
  <2>2. match.full = FALSE /\ match.index = index
    <3> HIDE DEF index
    <3> QED
      BY <2>1
  <2>3. \A i \in named : i \in Nat /\ \E s \in Slots : i = r.entries[s].index /\ r.entries[s].mdel.key = f.key
    BY <1>3, <1>4, Zenon
  <2>4. live \subseteq named
    BY Zenon
  <2> HIDE DEF named
  <2>5. CASE live # {}
    <3>1. live \subseteq Nat
      BY <2>3, <2>4, Zenon
    <3> HIDE DEF live
    <3>2. \E n \in live : \A k \in live : n <= k
      BY <2>5, <3>1, LeastNat
    <3>3. Min(live) \in live
      BY <3>2, Zenon DEF Min
    <3>4. Min(live) \in named
      BY <2>4, <3>3, Zenon
    <3>5. match.index = Min(live)
      BY <2>2, <2>5, Zenon
    <3> QED
      BY <2>2, <2>3, <3>4, <3>5, Zenon
  <2>6. CASE live = {}
    <3>1. match.index = r.tail_remote_index \/ match.index = 0
      BY <2>2, <2>6, Zenon
    <3>2. ~ (match.index > r.tail_remote_index)
      BY <1>2, <3>1
    <3> QED
      BY <2>2, <3>2, Zenon
  <2> QED
    BY <2>5, <2>6
<1> QED
  BY <1>5, <1>6, <1>7, Zenon

\* What the compressor writes.
Reps == [kind : {"indexed", "incremental", "literal"}, index : Nat,
         key : Keys \cup {""}, value : Values \cup {""}]

\* Compressor and decoder agree.
Agree(r, t) == RingOK(r) /\ HashOK(r.entries) /\ Fits(t) /\ Tracks(r, t)

\* A field that encode_field has encoded decodes to itself, and both sides
\* still agree.
FieldDelivered(r, acc, f, e, b) ==
  /\ WellFormed(e.rep) /\ e.rep \in Reps /\ Agree(e.c, b.d) /\ Sound(b) /\ b.error = NoError
  /\ b.fields = Append(acc.fields, f)
  /\ e.c.tail_remote_index + e.c.table_elems <= r.tail_remote_index + r.table_elems + 1

\* That is so whether the field is in the static table, in the dynamic one,
\* has only its name there, or is new.
LEMMA FieldRoundTrips ==
  ASSUME NEW r, NEW acc, Sound(acc), acc.error = NoError, Agree(r, acc.d), NEW f \in Field
  PROVE  FieldDelivered(r, acc, f, encode_field(r, f),
                        decode_representation(acc, encode_field(r, f).rep))
<1>1. RingOK(r) /\ HashOK(r.entries) /\ Fits(acc.d) /\ Tracks(r, acc.d) /\ acc \in Progress
  BY Zenon DEF Agree, Sound
<1>2. r \in Compressor
  BY <1>1, Zenon DEF RingOK
<1>3. r.tail_remote_index \in Nat /\ r.table_elems \in Nat
  BY <1>2 DEF Compressor
<1>4. r.tail_remote_index + r.table_elems <= r.tail_remote_index + r.table_elems + 1
  BY <1>3
<1>5. ASSUME NEW t, Fits(t)
      PROVE  /\ Sound(WithField(acc, t, f)) /\ WithField(acc, t, f).d = t
             /\ WithField(acc, t, f).fields = Append(acc.fields, f)
             /\ WithField(acc, t, f).error = NoError
  <2>1. PICK x : x = WithField(acc, t, f)
    BY Zenon
  <2>2. Sound(x)
    <3>1. PICK y : /\ y = [acc EXCEPT !.d = t, !.fields = Append(@, f)] /\ Sound(y)
                   /\ y = [d |-> t, fields |-> Append(acc.fields, f), error |-> acc.error]
      BY <1>5, Decoded, Zenon
    <3> QED
      BY <2>1, <3>1, Zenon DEF WithField
  <2>3. x.d = t /\ x.fields = Append(acc.fields, f) /\ x.error = NoError
    BY <2>1 DEF WithField
  <2> QED
    BY <2>1, <2>2, <2>3, Zenon
<1>6. ASSUME NEW e, e.c = r, WellFormed(e.rep), e.rep \in Reps,
             decode_representation(acc, e.rep) = WithField(acc, acc.d, f)
      PROVE  FieldDelivered(r, acc, f, e, decode_representation(acc, e.rep))
  BY <1>1, <1>4, <1>5, <1>6, Zenon DEF FieldDelivered, Agree
<1>7. f.key \in Keys /\ f.value \in Values
  BY DEF Field
<1> DEFINE static == full_match_static_mdelem_index(f)
<1>8. CASE static # 0
  <2>1. static \in 1..Len(StaticTable) /\ StaticTable[static] = f
    <3> DEFINE matches == {i \in 1..Len(StaticTable) : StaticTable[i] = f}
    <3>1. static = IF matches = {} THEN 0 ELSE Min(matches)
      BY Zenon DEF full_match_static_mdelem_index
    <3>2. matches # {} /\ static = Min(matches)
      BY <1>8, <3>1, Zenon
    <3>3. matches \subseteq Nat /\ \A i \in matches : i \in 1..Len(StaticTable) /\ StaticTable[i] = f
      OBVIOUS
    <3> HIDE DEF matches, static
    <3>4. \E n \in matches : \A k \in matches : n <= k
      BY <3>2, <3>3, LeastNat
    <3>5. Min(matches) \in matches
      BY <3>4, Zenon DEF Min
    <3> QED
      BY <3>2, <3>3, <3>5, Zenon
  <2>2. PICK e : e = encode_field(r, f) /\ e = [c |-> r, rep |-> encode_index(static)]
    BY <1>8, Zenon DEF encode_field
  <2> HIDE DEF static
  <2>3. e.c = r /\ e.rep = encode_index(static)
    BY <2>2
  <2>4. static \in Nat /\ get_mdelem_data(acc.d, static) = {f}
    <3>1. static \in Nat
      BY <2>1
    <3> QED
      BY <2>1, <3>1, Zenon DEF get_mdelem_data
  <2>5. WellFormed(e.rep) /\ decode_representation(acc, e.rep) = WithField(acc, acc.d, f)
    BY <2>3, <2>4, DecodesIndexed, Zenon
  <2>6. e.rep \in Reps
    <3>1. encode_index(static) \in Reps
      BY <2>4 DEF encode_index, Representation, Reps
    <3> QED
      BY <2>3, <3>1, Zenon
  <2> QED
    BY <1>6, <2>2, <2>3, <2>5, <2>6, Zenon
<1>9. CASE static = 0
  <2> DEFINE match == GetMatchingIndex(r, f)
             known == match.index > r.tail_remote_index
  <2>1. encode_field(r, f) = hpack_encode_header(r, f)
    BY <1>9, Zenon DEF encode_field
  <2>2. /\ match.full \in BOOLEAN
        /\ known => \E s \in Slots :
             /\ match.index = r.entries[s].index
             /\ IF match.full THEN r.entries[s].mdel = f ELSE r.entries[s].mdel.key = f.key
    BY <1>1, MatchIs, Zenon
  <2>3. CASE known
    <3>1. PICK s \in Slots :
             /\ match.index = r.entries[s].index
             /\ IF match.full THEN r.entries[s].mdel = f ELSE r.entries[s].mdel.key = f.key
      BY <2>2, <2>3, Zenon
    <3>2. PICK index : /\ index = dynidx(r, match.index) /\ index \in Nat \ {0}
                       /\ get_mdelem_data(acc.d, index) = {r.entries[s].mdel}
      <4>1. match.index = r.entries[s].index /\ r.entries[s].index > r.tail_remote_index
        BY <2>3, <3>1, Zenon
      <4>2. /\ dynidx(r, r.entries[s].index) \in Nat \ {0}
            /\ get_mdelem_data(acc.d, dynidx(r, r.entries[s].index)) = {r.entries[s].mdel}
        BY <1>1, <4>1, DynidxFinds, Zenon
      <4> QED
        BY <4>1, <4>2, Zenon
    <3>3. index \in Nat /\ index # 0
      BY <3>2
    <3>4. CASE match.full
      <4>1. PICK e : e = encode_field(r, f) /\ e = [c |-> r, rep |-> encode_index(index)]
        BY <2>1, <2>3, <3>2, <3>4, Zenon DEF hpack_encode_header
      <4>2. e.c = r /\ e.rep = encode_index(index)
        BY <4>1
      <4>3. get_mdelem_data(acc.d, index) = {f}
        BY <3>1, <3>2, <3>4, Zenon
      <4>4. WellFormed(e.rep) /\ decode_representation(acc, e.rep) = WithField(acc, acc.d, f)
        BY <3>3, <4>2, <4>3, DecodesIndexed, Zenon
      <4>5. e.rep \in Reps
        <5>1. encode_index(index) \in Reps
          BY <3>3 DEF encode_index, Representation, Reps
        <5> QED
          BY <4>2, <5>1, Zenon
      <4> QED
        BY <1>6, <4>1, <4>2, <4>4, <4>5, Zenon
    <3>5. CASE ~ match.full
      <4>1. PICK e : e = encode_field(r, f) /\ e = [c |-> r, rep |-> encode_without_indexing_key(f, index)]
        BY <2>1, <2>3, <3>2, <3>5, Zenon DEF hpack_encode_header
      <4>2. PICK rep : rep = encode_without_indexing_key(f, index)
        BY Zenon
      <4>3. e.c = r /\ e.rep = rep
        BY <4>1, <4>2
      <4>4. rep.kind = "literal" /\ rep.index = index /\ rep.value = f.value
        BY <4>2 DEF encode_without_indexing_key, Representation
      <4>5. rep.kind # "incremental" /\ rep.kind \in {"incremental", "literal"}
        BY <4>4
      <4>6. WellFormed(rep) /\ decode_representation(acc, rep) = WithField(acc, acc.d, f)
        <5>1. rep.index \in Nat /\ rep.index # 0
          BY <3>3, <4>4, Zenon
        <5>2. \E g : g.key = f.key /\ get_mdelem_data(acc.d, rep.index) = {g}
          BY <3>1, <3>2, <3>5, <4>4, Zenon
        <5>3. LiteralOf(rep, f, acc.d)
          BY <4>4, <4>5, <5>1, <5>2, Zenon DEF LiteralOf
        <5> QED
          BY <4>5, <5>3, DecodesLiteral, Zenon
      <4>7. rep \in Reps
        BY <1>7, <3>3, <4>2 DEF encode_without_indexing_key, Representation, Reps
      <4> QED
        BY <1>6, <4>1, <4>3, <4>6, <4>7, Zenon
    <3> QED
      BY <3>4, <3>5
  <2>4. CASE ~ known /\ check_key_exists(f.key)
    <3>1. PICK e : e = encode_field(r, f)
                   /\ e = [c |-> add_elem(r, f), rep |-> encode_with_incremental_indexing(f)]
      BY <2>1, <2>4, Zenon DEF hpack_encode_header
    <3>2. PICK rep : rep = encode_with_incremental_indexing(f)
      BY Zenon
    <3>3. e.c = add_elem(r, f) /\ e.rep = rep
      BY <3>1, <3>2
    <3>4. rep.kind = "incremental" /\ rep.index = 0 /\ rep.value = f.value /\ rep.key = f.key
      BY <3>2 DEF encode_with_incremental_indexing, Representation
    <3>5. rep.index \in Nat /\ rep.kind \in {"incremental", "literal"}
      BY <3>4
    <3>6. WellFormed(rep) /\ decode_representation(acc, rep) = WithField(acc, push_mdelem_data(acc.d, f), f)
      <4>1. LiteralOf(rep, f, acc.d)
        BY <3>4, <3>5, Zenon DEF LiteralOf
      <4> QED
        BY <3>4, <4>1, DecodesLiteral, Zenon
    <3>7. get_size_in_hpack_table(f) = EntrySize(f)
      <4>1. f.key \notin BinaryKeys
        BY <2>4, HpackAssumption, Zenon DEF check_key_exists
      <4>2. f.key \in Keys /\ f.value \in Values
        BY DEF Field
      <4>3. KeySize[f.key] \in Nat /\ ValueSize[f.value] \in Nat /\ Overhead \in Nat
        BY <4>2, HpackAssumption
      <4> QED
        BY <4>1, <4>3 DEF get_size_in_hpack_table, EntrySize
    <3>8. PICK q : /\ q = add_elem(r, f) /\ RingOK(q) /\ HashOK(q.entries)
                   /\ Tracks(q, push_mdelem_data(acc.d, f))
                   /\ q.tail_remote_index + q.table_elems <= r.tail_remote_index + r.table_elems + 1
      BY <1>1, <3>7, AddElemIs, Zenon
    <3>9. Fits(push_mdelem_data(acc.d, f))
      BY <1>1, TableKept, Zenon
    <3>10. PICK b : b = WithField(acc, push_mdelem_data(acc.d, f), f)
      BY Zenon
    <3>11. Sound(b) /\ b.d = push_mdelem_data(acc.d, f) /\ b.fields = Append(acc.fields, f) /\ b.error = NoError
      BY <1>5, <3>9, <3>10, Zenon
    <3>12. Agree(q, b.d)
      BY <3>8, <3>9, <3>11, Zenon DEF Agree
    <3>13. rep \in Reps
      BY <1>7, <3>2 DEF encode_with_incremental_indexing, Representation, Reps
    <3>14. FieldDelivered(r, acc, f, e, b)
      BY <3>3, <3>6, <3>8, <3>11, <3>12, <3>13, Zenon DEF FieldDelivered
    <3> QED
      BY <3>1, <3>3, <3>6, <3>10, <3>14, Zenon
  <2>5. CASE ~ known /\ ~ check_key_exists(f.key)
    <3>1. PICK e : e = encode_field(r, f) /\ e = [c |-> r, rep |-> encode_without_indexing(f)]
      BY <2>1, <2>5, Zenon DEF hpack_encode_header
    <3>2. PICK rep : rep = encode_without_indexing(f)
      BY Zenon
    <3>3. e.c = r /\ e.rep = rep
      BY <3>1, <3>2
    <3>4. rep.kind = "literal" /\ rep.index = 0 /\ rep.value = f.value /\ rep.key = f.key
      BY <3>2 DEF encode_without_indexing, Representation
    <3>5. rep.index \in Nat /\ rep.kind \in {"incremental", "literal"} /\ rep.kind # "incremental"
      BY <3>4
    <3>6. WellFormed(rep) /\ decode_representation(acc, rep) = WithField(acc, acc.d, f)
      <4>1. LiteralOf(rep, f, acc.d)
        BY <3>4, <3>5, Zenon DEF LiteralOf
      <4> QED
        BY <3>5, <4>1, DecodesLiteral, Zenon
    <3>7. rep \in Reps
      BY <1>7, <3>2 DEF encode_without_indexing, Representation, Reps
    <3> QED
      BY <1>6, <3>1, <3>3, <3>6, <3>7, Zenon
  <2> QED
    BY <2>3, <2>4, <2>5, Zenon
<1> QED
  BY <1>8, <1>9, Zenon

-----------------------------------------------------------------------------
(***************************************************************************)
(* A header list, encoded and decoded.                                     *)
(***************************************************************************)

\* A compressor that agrees with a decoder, and the block it has written.
Writing == {x \in [c : Compressor, block : Seq(Reps)] :
              \E acc \in Progress : Sound(acc) /\ acc.error = NoError /\ Agree(x.c, acc.d)}

\* x with one field more.
WriteField(x, f) ==
  [c |-> encode_field(x.c, f).c, block |-> Append(x.block, encode_field(x.c, f).rep)]

\* The steps of compressor_encode_headers, one for each field of the list.
Encoding(run, r, list) ==
  /\ run[0] = [c |-> r, block |-> <<>>]
  /\ \A i \in 0..Len(list) : run[i] \in Writing
  /\ \A i \in 1..Len(list) : run[i] = WriteField(run[i - 1], list[i])

\* Writing a field leaves such a compressor.
LEMMA WriteFieldIs ==
  ASSUME NEW x \in Writing, NEW f \in Field
  PROVE  /\ WriteField(x, f) \in Writing
         /\ WellFormed(encode_field(x.c, f).rep) /\ encode_field(x.c, f).rep \in Reps
         /\ x.block \in Seq(Reps) /\ WriteField(x, f).c = encode_field(x.c, f).c
         /\ WriteField(x, f).block = Append(x.block, encode_field(x.c, f).rep)
<1>1. PICK acc \in Progress : Sound(acc) /\ acc.error = NoError /\ Agree(x.c, acc.d)
  BY Zenon DEF Writing
<1>2. PICK e, b : /\ e = encode_field(x.c, f) /\ b = decode_representation(acc, e.rep)
                  /\ FieldDelivered(x.c, acc, f, e, b)
  BY <1>1, FieldRoundTrips, Zenon
<1>3. WellFormed(e.rep) /\ e.rep \in Reps /\ Agree(e.c, b.d) /\ Sound(b) /\ b.error = NoError
  BY <1>2, Zenon DEF FieldDelivered
<1>4. b \in Progress /\ e.c \in Compressor
  BY <1>3, Zenon DEF Sound, Agree, RingOK
<1>5. x \in [c : Compressor, block : Seq(Reps)]
  BY Zenon DEF Writing
<1>6. x.block \in Seq(Reps)
  BY <1>5
<1>7. Append(x.block, e.rep) \in Seq(Reps)
  BY <1>3, <1>6
<1>8. PICK y : \E s \in Seq(Reps) :
               s = Append(x.block, e.rep) /\ y = WriteField(x, f) /\ y = [c |-> e.c, block |-> s]
  BY <1>2, <1>7, Zenon DEF WriteField
<1>9. PICK s \in Seq(Reps) :
         s = Append(x.block, e.rep) /\ y = WriteField(x, f) /\ y = [c |-> e.c, block |-> s]
  BY <1>8, Zenon
<1>10. y \in [c : Compressor, block : Seq(Reps)] /\ y.c = e.c /\ y.block = s
  BY <1>4, <1>9
<1>11. y \in Writing
  BY <1>3, <1>4, <1>10, Zenon DEF Writing
<1> QED
  BY <1>2, <1>3, <1>6, <1>9, <1>10, <1>11, Zenon

\* compressor_encode_headers takes these steps.
LEMMA EncodingIs ==
  ASSUME NEW r, NEW t, Agree(r, t), NEW list \in Seq(Field)
  PROVE  \E run : Encoding(run, r, list) /\ compressor_encode_headers(r, list) = run[Len(list)]
<1> DEFINE first == [c |-> r, block |-> <<>>]
           next == [i \in 1..Len(list) |-> [x \in Writing |-> WriteField(x, list[i])]]
           Is(f) == f = [i \in 0..Len(list) |-> IF i = 0 THEN first ELSE WriteField(f[i - 1], list[i])]
           run == CHOOSE f : Is(f)
<1>1. first \in Writing
  <2>1. r \in Compressor /\ Fits(t) /\ t \in Table
    BY Zenon DEF Agree, RingOK, Fits, Accounted
  <2>2. first \in [c : Compressor, block : Seq(Reps)] /\ first.c = r
    BY <2>1
  <2>3. PICK acc : acc = [d |-> t, fields |-> <<>>, error |-> NoError]
    BY Zenon
  <2>4. acc \in Progress /\ acc.d = t /\ acc.error = NoError
    BY <2>1, <2>3 DEF Progress
  <2>5. Sound(acc)
    BY <2>1, <2>4, Zenon DEF Sound
  <2> QED
    BY <2>2, <2>4, <2>5, Zenon DEF Writing
<1>2. \A i \in 1..Len(list) : list[i] \in Field
  BY ElementOfSeq
<1>3. \A x \in Writing, i \in 1..Len(list) : WriteField(x, list[i]) \in Writing
  BY <1>2, WriteFieldIs, Zenon
<1> HIDE DEF first
<1>4. next \in [1..Len(list) -> [Writing -> Writing]]
  BY <1>3
<1>5. \A x \in Writing, i \in 1..Len(list) : next[i][x] = WriteField(x, list[i])
  OBVIOUS
<1> HIDE DEF next
<1>6. PICK f \in [0..Len(list) -> Writing] : f[0] = first /\ \A i \in 1..Len(list) : f[i] = next[i][f[i - 1]]
  <2>1. Len(list) \in Nat
    OBVIOUS
  <2>2. PICK f : Steps(f, Writing, first, next, Len(list))
    BY <1>1, <1>4, <2>1, Iterate, Zenon
  <2> QED
    BY <2>2 DEF Steps
<1>7. Is(f)
  <2>1. ASSUME NEW i \in 1..Len(list) PROVE f[i] = WriteField(f[i - 1], list[i])
    BY <1>5, <1>6
  <2>2. ASSUME NEW i \in 0..Len(list) PROVE f[i] = IF i = 0 THEN first ELSE WriteField(f[i - 1], list[i])
    BY <1>6, <2>1
  <2>3. f = [i \in 0..Len(list) |-> f[i]]
    BY <1>6
  <2> QED
    BY <2>2, <2>3
<1>8. Is(run)
  <2> HIDE DEF Is
  <2> QED
    BY <1>7
<1>9. compressor_encode_headers(r, list) = run[Len(list)]
  BY Zenon DEF compressor_encode_headers, first, WriteField
<1>10. \A i \in 0..Len(list) : run[i] = IF i = 0 THEN first ELSE WriteField(run[i - 1], list[i])
  <2> HIDE DEF run
  <2> QED
    BY <1>8
<1> HIDE DEF run
<1>11. \A i \in 0..Len(list) : run[i] \in Writing
  <2> DEFINE T == {k \in Nat : k <= Len(list) => run[k] \in Writing}
  <2>1. 0 \in T
    BY <1>1, <1>10
  <2>2. ASSUME NEW k \in Nat, k \in T PROVE k + 1 \in T
    <3> SUFFICES ASSUME k + 1 <= Len(list) PROVE run[k + 1] \in Writing
      OBVIOUS
    <3>1. k + 1 \in 0..Len(list) /\ k + 1 \in 1..Len(list) /\ k + 1 # 0 /\ (k + 1) - 1 = k /\ k <= Len(list)
      OBVIOUS
    <3>2. run[k] \in Writing
      BY <2>2, <3>1
    <3>3. run[k + 1] = WriteField(run[k], list[k + 1])
      BY <1>10, <3>1
    <3> QED
      BY <1>3, <3>1, <3>2, <3>3, Zenon
  <2>3. Nat \subseteq T
    <3> HIDE DEF T
    <3> QED
      BY <2>1, <2>2, SetInduction
  <2> QED
    BY <2>3
<1>12. run[0] = first
  BY <1>10
<1>13. ASSUME NEW i \in 1..Len(list) PROVE run[i] = WriteField(run[i - 1], list[i])
  <2>1. i \in 0..Len(list) /\ i # 0
    OBVIOUS
  <2> QED
    BY <1>10, <2>1, Zenon
<1>14. Encoding(run, r, list)
  BY <1>11, <1>12, <1>13, Zenon DEF Encoding, first
<1> QED
  BY <1>9, <1>14, Zenon

\* s with x behind it.
LEMMA AppendIs ==
  ASSUME NEW S, NEW s \in Seq(S), NEW x \in S
  PROVE  /\ Append(s, x) \in Seq(S) /\ Len(Append(s, x)) = Len(s) + 1
         /\ Append(s, x)[Len(s) + 1] = x /\ \A i \in 1..Len(s) : Append(s, x)[i] = s[i]
OBVIOUS

\* A header list arrives, and both sides still agree.
ListDelivered(r, t, list, e, b) ==
  /\ e.block \in Seq(Reps) /\ b.error = NoError /\ b.fields = list
  /\ Agree(e.c, b.d)
  /\ e.c.tail_remote_index + e.c.table_elems <= r.tail_remote_index + r.table_elems + Len(list)

\* So does every list.
LEMMA ListRoundTrips ==
  ASSUME NEW r, NEW t, Agree(r, t), NEW list \in Seq(Field)
  PROVE  ListDelivered(r, t, list, compressor_encode_headers(r, list),
                       decode_headers(t, compressor_encode_headers(r, list).block, FALSE))
<1>1. PICK E : Encoding(E, r, list) /\ compressor_encode_headers(r, list) = E[Len(list)]
  BY EncodingIs, Zenon
<1>2. PICK n \in Nat : n = Len(list)
  OBVIOUS
<1>3. \A i \in 1..n : list[i] \in Field
  BY <1>2, ElementOfSeq
<1>4. /\ E[0] = [c |-> r, block |-> <<>>]
      /\ \A i \in 0..n : E[i] \in Writing
      /\ \A i \in 1..n : E[i] = WriteField(E[i - 1], list[i])
  BY <1>1, <1>2, Zenon DEF Encoding
<1>5. E[0].c = r /\ E[0].block = <<>>
  BY <1>4
<1> DEFINE rep(i) == encode_field(E[i - 1].c, list[i]).rep
<1>6. ASSUME NEW i \in 1..n
      PROVE  /\ WellFormed(rep(i)) /\ rep(i) \in Reps /\ E[i - 1].block \in Seq(Reps)
             /\ E[i].c = encode_field(E[i - 1].c, list[i]).c /\ E[i].block = Append(E[i - 1].block, rep(i))
  <2>1. i - 1 \in 0..n
    OBVIOUS
  <2>2. E[i - 1] \in Writing /\ list[i] \in Field /\ E[i] = WriteField(E[i - 1], list[i])
    BY <1>3, <1>4, <2>1, Zenon
  <2> QED
    BY <2>2, WriteFieldIs, ZenonT(60)
<1> HIDE DEF rep
<1>7. \A k \in 0..n : E[k].block \in Seq(Reps) /\ Len(E[k].block) = k /\ \A j \in 1..k : E[k].block[j] = rep(j)
  <2> DEFINE P(k) == E[k].block \in Seq(Reps) /\ Len(E[k].block) = k /\ \A j \in 1..k : E[k].block[j] = rep(j)
             T == {k \in Nat : k <= n => P(k)}
  <2>1. 0 \in T
    <3>1. <<>> \in Seq(Reps) /\ Len(<<>>) = 0 /\ \A j \in 1..0 : FALSE
      OBVIOUS
    <3>2. P(0)
      BY <1>5, <3>1, Zenon
    <3> HIDE DEF P
    <3> QED
      BY <3>2
  <2>2. ASSUME NEW k \in Nat, k \in T PROVE k + 1 \in T
    <3> SUFFICES ASSUME k + 1 <= n PROVE P(k + 1)
      OBVIOUS
    <3>1. k + 1 \in 1..n /\ (k + 1) - 1 = k /\ k <= n
      OBVIOUS
    <3>2. PICK s \in Seq(Reps) : s = E[k].block /\ Len(s) = k /\ \A j \in 1..k : s[j] = rep(j)
      BY <2>2, <3>1
    <3>3. rep(k + 1) \in Reps /\ E[k + 1].block = Append(s, rep(k + 1))
      BY <1>6, <3>1, <3>2, Zenon
    <3>4. PICK u \in Seq(Reps) : /\ u = Append(s, rep(k + 1)) /\ Len(u) = k + 1
                                 /\ u[k + 1] = rep(k + 1) /\ \A i \in 1..k : u[i] = s[i]
      <4>1. /\ Append(s, rep(k + 1)) \in Seq(Reps) /\ Len(Append(s, rep(k + 1))) = Len(s) + 1
            /\ Append(s, rep(k + 1))[Len(s) + 1] = rep(k + 1)
            /\ \A i \in 1..Len(s) : Append(s, rep(k + 1))[i] = s[i]
        BY <3>3, AppendIs
      <4>2. Len(s) = k
        BY <3>2, Zenon
      <4> QED
        BY <4>1, <4>2, Zenon
    <3>5. ASSUME NEW j \in 1..(k + 1) PROVE u[j] = rep(j)
      <4>1. CASE j = k + 1
        BY <3>4, <4>1, Zenon
      <4>2. CASE j # k + 1
        <5>1. j \in 1..k
          BY <4>2
        <5> QED
          BY <3>2, <3>4, <5>1, Zenon
      <4> QED
        BY <4>1, <4>2
    <3> QED
      BY <3>3, <3>4, <3>5, Zenon
  <2>3. Nat \subseteq T
    <3> HIDE DEF T
    <3> QED
      BY <2>1, <2>2, SetInduction
  <2> HIDE DEF P
  <2>4. \A k \in 0..n : P(k)
    BY <2>3
  <2> QED
    BY <2>4, Zenon DEF P
<1>8. PICK block \in Seq(Reps) : block = E[n].block /\ Len(block) = n /\ \A j \in 1..n : block[j] = rep(j)
  <2>1. n \in 0..n
    OBVIOUS
  <2> QED
    BY <1>7, <2>1, Zenon
<1>9. PICK D : Decoding(D, t, block) /\ decode_headers(t, block, FALSE) = D[n]
  <2>1. Fits(t) /\ Len(block) \in Nat /\ \A i \in 1..Len(block) : WellFormed(block[i])
    <3>1. \A i \in 1..n : WellFormed(block[i])
      BY <1>6, <1>8, Zenon
    <3>2. Len(block) \in Nat
      OBVIOUS
    <3> QED
      BY <1>8, <3>1, <3>2, Zenon DEF Agree
  <2>2. FALSE \in BOOLEAN
    OBVIOUS
  <2>3. PICK D : /\ Decoding(D, t, block)
                 /\ decode_headers(t, block, FALSE) =
                      IF FALSE /\ D[Len(block)].error = NoError THEN Fails(D[Len(block)]) ELSE D[Len(block)]
    BY <2>1, <2>2, DecodingIs, Zenon
  <2> QED
    BY <1>8, <2>3, Zenon
<1>10. /\ D[0] = [d |-> t, fields |-> <<>>, error |-> NoError]
       /\ \A i \in 1..n : D[i - 1] \in Progress /\ D[i] = decode_representation(D[i - 1], rep(i))
  BY <1>8, <1>9, Zenon DEF Decoding
<1>11. D[0].d = t /\ D[0].fields = <<>> /\ D[0].error = NoError
  BY <1>10
<1>12. PICK o \in Nat : o = r.tail_remote_index + r.table_elems
  <2>1. r \in Compressor
    BY Zenon DEF Agree, RingOK
  <2>2. r.tail_remote_index \in Nat /\ r.table_elems \in Nat
    BY <2>1 DEF Compressor
  <2> QED
    BY <2>2
<1> DEFINE P(k) ==
      /\ Sound(D[k]) /\ D[k].error = NoError /\ Agree(E[k].c, D[k].d)
      /\ D[k].fields \in Seq(Field) /\ Len(D[k].fields) = k /\ \A j \in 1..k : D[k].fields[j] = list[j]
      /\ E[k].c.tail_remote_index + E[k].c.table_elems <= o + k
    T == {k \in Nat : k <= n => P(k)}
<1>13. P(0)
  <2>1. Fits(t) /\ t \in Table
    BY Zenon DEF Agree, Fits, Accounted
  <2>2. D[0] \in Progress
    BY <1>10, <2>1 DEF Progress
  <2>3. Sound(D[0]) /\ Agree(E[0].c, D[0].d)
    BY <1>5, <1>11, <2>1, <2>2, Zenon DEF Sound
  <2>4. <<>> \in Seq(Field) /\ Len(<<>>) = 0 /\ (\A j \in 1..0 : FALSE) /\ o <= o + 0
    OBVIOUS
  <2> QED
    BY <1>5, <1>11, <1>12, <2>3, <2>4, Zenon
<1>14. ASSUME NEW k \in Nat, k + 1 <= n, P(k) PROVE P(k + 1)
  <2>1. k + 1 \in 1..n /\ (k + 1) - 1 = k
    BY <1>14
  <2>2. PICK f : f = list[k + 1] /\ f \in Field
    BY <1>3, <2>1, Zenon
  <2>3. PICK e, b : /\ e = encode_field(E[k].c, f) /\ b = decode_representation(D[k], e.rep)
                    /\ FieldDelivered(E[k].c, D[k], f, e, b)
    <3>1. Sound(D[k]) /\ D[k].error = NoError /\ Agree(E[k].c, D[k].d)
      BY <1>14, Zenon
    <3> QED
      BY <2>2, <3>1, FieldRoundTrips, Zenon
  <2>4. E[k + 1].c = e.c /\ D[k + 1] = b
    BY <1>6, <1>10, <2>1, <2>2, <2>3, Zenon DEF rep
  <2>5. /\ Agree(e.c, b.d) /\ Sound(b) /\ b.error = NoError /\ b.fields = Append(D[k].fields, f)
        /\ e.c.tail_remote_index + e.c.table_elems
             <= E[k].c.tail_remote_index + E[k].c.table_elems + 1
    BY <2>3, Zenon DEF FieldDelivered
  <2>6. PICK s \in Seq(Field) : s = D[k].fields /\ Len(s) = k /\ \A j \in 1..k : s[j] = list[j]
    BY <1>14, Zenon
  <2>7. PICK u \in Seq(Field) : /\ u = Append(s, f) /\ Len(u) = k + 1
                                /\ u[k + 1] = f /\ \A i \in 1..k : u[i] = s[i]
    <3>1. /\ Append(s, f) \in Seq(Field) /\ Len(Append(s, f)) = Len(s) + 1
          /\ Append(s, f)[Len(s) + 1] = f /\ \A i \in 1..Len(s) : Append(s, f)[i] = s[i]
      BY <2>2, AppendIs
    <3>2. Len(s) = k
      BY <2>6, Zenon
    <3> QED
      BY <3>1, <3>2, Zenon
  <2>8. ASSUME NEW j \in 1..(k + 1) PROVE u[j] = list[j]
    <3>1. CASE j = k + 1
      BY <2>2, <2>7, <3>1, Zenon
    <3>2. CASE j # k + 1
      <4>1. j \in 1..k
        BY <3>2
      <4> QED
        BY <2>6, <2>7, <4>1, Zenon
    <3> QED
      BY <3>1, <3>2
  <2>9. e.c.tail_remote_index + e.c.table_elems <= o + (k + 1)
    <3>1. e.c \in Compressor /\ E[k].c \in Compressor
      BY <1>14, <2>5, Zenon DEF Agree, RingOK
    <3>2. PICK x \in Nat, y \in Nat : /\ x = e.c.tail_remote_index + e.c.table_elems
                                      /\ y = E[k].c.tail_remote_index + E[k].c.table_elems
      <4>1. /\ e.c.tail_remote_index \in Nat /\ e.c.table_elems \in Nat
            /\ E[k].c.tail_remote_index \in Nat /\ E[k].c.table_elems \in Nat
        BY <3>1 DEF Compressor
      <4>2. /\ e.c.tail_remote_index + e.c.table_elems \in Nat
            /\ E[k].c.tail_remote_index + E[k].c.table_elems \in Nat
        <5>1. \A x, y \in Nat : x + y \in Nat
          OBVIOUS
        <5> QED
          BY <4>1, <5>1, Zenon
      <4> QED
        BY <4>2, Zenon
    <3>3. E[k].c.tail_remote_index \in Nat /\ E[k].c.table_elems \in Nat
      BY <3>1 DEF Compressor
    <3>4. E[k].c.tail_remote_index + E[k].c.table_elems + 1 = y + 1
      BY <3>2, <3>3
    <3>5. x <= y + 1 /\ y <= o + k
      BY <1>14, <2>5, <3>2, <3>4, Zenon
    <3>6. x <= o + (k + 1)
      BY <3>5
    <3> QED
      BY <3>2, <3>6, Zenon
  <2> QED
    BY <2>4, <2>5, <2>6, <2>7, <2>8, <2>9, Zenon
<1> HIDE DEF P
<1>15. Nat \subseteq T
  <2>1. 0 \in T
    BY <1>13
  <2>2. ASSUME NEW k \in Nat, k \in T PROVE k + 1 \in T
    <3>1. k + 1 <= n => k <= n
      OBVIOUS
    <3> QED
      BY <1>14, <2>2, <3>1
  <2> HIDE DEF T
  <2> QED
    BY <2>1, <2>2, SetInduction
<1>16. P(n)
  BY <1>15
<1>17. D[n].fields = list
  <2>1. PICK s \in Seq(Field) : s = D[n].fields /\ Len(s) = n /\ \A j \in 1..n : s[j] = list[j]
    BY <1>16, Zenon DEF P
  <2>2. s = list
    BY <1>2, <2>1, SeqEqual
  <2> QED
    BY <2>1, <2>2
<1> QED
  BY <1>1, <1>2, <1>8, <1>9, <1>12, <1>16, <1>17, Zenon DEF ListDelivered, P

-----------------------------------------------------------------------------
(***************************************************************************)
(* The two sides and the wire between them.                                *)
(***************************************************************************)

Message == [sent : HeaderLists, block : Seq(Reps)]

\* The message m, decoded with the table t, gives what was sent and leaves u.
Delivers(t, m, u) ==
  /\ decode_headers(t, m.block, FALSE).d = u
  /\ decode_headers(t, m.block, FALSE).error = NoError
  /\ decode_headers(t, m.block, FALSE).fields = m.sent

\* a is the decoder's table now, t, and after each message of w; with the
\* last of them the compressor r agrees.
Chain(a, r, w, t) ==
  /\ a[0] = t
  /\ \A i \in 0..Len(w) : Fits(a[i])
  /\ \A i \in 1..Len(w) : Delivers(a[i - 1], w[i], a[i])
  /\ Agree(r, a[Len(w)])

\* The inductive invariant: there is such a chain of tables.
Linked(r, w, t) ==
  /\ w \in Seq(Message) /\ Len(w) <= MaxInFlight
  /\ r.tail_remote_index + r.table_elems <= MaxInsertions
  /\ \E a : Chain(a, r, w, t)

\* What it says of the compressor.
LEMMA LinkedRing ==
  ASSUME NEW r, NEW w, NEW t, Linked(r, w, t)
  PROVE  /\ RingOK(r) /\ HashOK(r.entries) /\ r \in Compressor
         /\ r.tail_remote_index \in Nat /\ r.table_elems \in Nat /\ r.entries \in [Slots -> Entry]
<1>1. RingOK(r) /\ HashOK(r.entries) /\ r \in Compressor
  BY Zenon DEF Linked, Chain, Agree, RingOK
<1> QED
  BY <1>1 DEF Compressor

\* A header list that is sent extends the chain by one table.
LEMMA SendLinks ==
  ASSUME NEW r, NEW w, NEW t, Linked(r, w, t), NEW list \in HeaderLists, Len(w) < MaxInFlight,
         r.tail_remote_index + r.table_elems + Len(list) <= MaxInsertions, NEW e,
         e = compressor_encode_headers(r, list)
  PROVE  Linked(e.c, Append(w, [sent |-> list, block |-> e.block]), t)
<1>1. PICK a : Chain(a, r, w, t)
  BY Zenon DEF Linked
<1>2. w \in Seq(Message) /\ list \in Seq(Field) /\ MaxInFlight \in Nat /\ MaxInsertions \in Nat
  BY CompositionAssumption DEF Linked
<1>3. PICK n \in Nat : n = Len(w)
  BY <1>2
<1>4. /\ a[0] = t /\ Agree(r, a[n])
      /\ (\A i \in 0..n : Fits(a[i])) /\ \A i \in 1..n : Delivers(a[i - 1], w[i], a[i])
  BY <1>1, <1>3, Zenon DEF Chain
<1>5. PICK b : b = decode_headers(a[n], e.block, FALSE) /\ ListDelivered(r, a[n], list, e, b)
  BY <1>2, <1>4, ListRoundTrips, Zenon
<1>6. /\ e.block \in Seq(Reps) /\ b.error = NoError /\ b.fields = list /\ Agree(e.c, b.d) /\ Fits(b.d)
      /\ e.c.tail_remote_index + e.c.table_elems <= r.tail_remote_index + r.table_elems + Len(list)
  BY <1>5, Zenon DEF ListDelivered, Agree
<1>7. PICK m \in Message : m = [sent |-> list, block |-> e.block] /\ m.sent = list /\ m.block = e.block
  <2>1. PICK s \in Seq(Reps) : s = e.block
    BY <1>6, Zenon
  <2>2. /\ [sent |-> list, block |-> s] \in [sent : HeaderLists, block : Seq(Reps)]
        /\ [sent |-> list, block |-> s].sent = list /\ [sent |-> list, block |-> s].block = s
    OBVIOUS
  <2> QED
    BY <2>1, <2>2, Zenon DEF Message
<1>8. PICK v \in Seq(Message) : /\ v = Append(w, m) /\ Len(v) = n + 1
                                /\ v[n + 1] = m /\ \A i \in 1..n : v[i] = w[i]
  <2>1. /\ Append(w, m) \in Seq(Message) /\ Len(Append(w, m)) = Len(w) + 1
        /\ Append(w, m)[Len(w) + 1] = m /\ \A i \in 1..Len(w) : Append(w, m)[i] = w[i]
    BY <1>2, AppendIs
  <2> QED
    BY <1>3, <2>1, Zenon
<1> DEFINE x == [i \in 0..(n + 1) |-> IF i = n + 1 THEN b.d ELSE a[i]]
<1>9. x[n + 1] = b.d /\ (\A i \in 0..n : x[i] = a[i]) /\ x[0] = a[0]
  OBVIOUS
<1> HIDE DEF x
<1>10. ASSUME NEW i \in 0..(n + 1) PROVE Fits(x[i])
  <2>1. CASE i = n + 1
    BY <1>6, <1>9, <2>1, Zenon
  <2>2. CASE i # n + 1
    <3>1. i \in 0..n
      BY <2>2
    <3> QED
      BY <1>4, <1>9, <3>1, Zenon
  <2> QED
    BY <2>1, <2>2
<1>11. ASSUME NEW i \in 1..(n + 1) PROVE Delivers(x[i - 1], v[i], x[i])
  <2>1. i - 1 \in 0..n
    OBVIOUS
  <2>2. CASE i = n + 1
    <3>1. i - 1 = n
      BY <2>2
    <3>2. x[i - 1] = a[n] /\ x[i] = b.d /\ v[i] = m
      BY <1>8, <1>9, <2>1, <2>2, <3>1, Zenon
    <3> QED
      BY <1>5, <1>6, <1>7, <3>2, Zenon DEF Delivers
  <2>3. CASE i # n + 1
    <3>1. i \in 0..n /\ i \in 1..n
      BY <2>3
    <3>2. x[i - 1] = a[i - 1] /\ x[i] = a[i] /\ v[i] = w[i]
      BY <1>8, <1>9, <2>1, <3>1, Zenon
    <3> QED
      BY <1>4, <3>1, <3>2, Zenon
  <2> QED
    BY <2>2, <2>3
<1>12. Chain(x, e.c, v, t)
  BY <1>4, <1>6, <1>8, <1>9, <1>10, <1>11, Zenon DEF Chain
<1>13. e.c.tail_remote_index + e.c.table_elems <= MaxInsertions
  <2>1. e.c \in Compressor /\ r \in Compressor
    BY <1>4, <1>6, Zenon DEF Agree, RingOK
  <2>2. /\ e.c.tail_remote_index \in Nat /\ e.c.table_elems \in Nat
        /\ r.tail_remote_index \in Nat /\ r.table_elems \in Nat
    BY <2>1 DEF Compressor
  <2>3. \A p, q \in Nat : p + q \in Nat
    OBVIOUS
  <2>4. Len(list) \in Nat
    BY <1>2
  <2>5. PICK p \in Nat, q \in Nat : p = e.c.tail_remote_index + e.c.table_elems
                                    /\ q = r.tail_remote_index + r.table_elems + Len(list)
    BY <2>2, <2>3, <2>4, Zenon
  <2>6. p <= q /\ q <= MaxInsertions
    BY <1>6, <2>5, Zenon
  <2>7. p <= MaxInsertions
    BY <1>2, <2>6
  <2> QED
    BY <2>5, <2>7, Zenon
<1>14. Len(v) <= MaxInFlight
  BY <1>2, <1>3, <1>8
<1> QED
  BY <1>7, <1>8, <1>12, <1>13, <1>14, Zenon DEF Linked

\* A new maximum evicts from the compressor only.
LEMMA ResizeLinks ==
  ASSUME NEW r, NEW w, NEW t, Linked(r, w, t), NEW size \in Nat
  PROVE  Linked(compressor_set_max_table_size(r, size), w, t)
<1>1. PICK a : Chain(a, r, w, t)
  BY Zenon DEF Linked
<1>2. Agree(r, a[Len(w)])
  BY <1>1, Zenon DEF Chain
<1>3. PICK q, n : q = compressor_set_max_table_size(r, size) /\ RingOK(q) /\ Shrunk(r, q, n)
  BY <1>2, SetMaxIs, Zenon DEF Agree
<1>4. Agree(q, a[Len(w)])
  BY <1>2, <1>3, TracksShrunk, Zenon DEF Agree, Shrunk
<1>5. Chain(a, q, w, t)
  BY <1>1, <1>4, Zenon DEF Chain
<1>6. q.tail_remote_index + q.table_elems = r.tail_remote_index + r.table_elems
  <2>1. r.tail_remote_index \in Nat /\ r.table_elems \in Nat
    BY LinkedRing, Zenon
  <2>2. n \in 0..r.table_elems /\ q.tail_remote_index = r.tail_remote_index + n
        /\ q.table_elems = r.table_elems - n
    BY <1>3, Zenon DEF Shrunk
  <2> QED
    BY <2>1, <2>2
<1> QED
  BY <1>3, <1>5, <1>6, Zenon DEF Linked

\* Decoding the first message takes the first table off the chain.
LEMMA ReceiveLinks ==
  ASSUME NEW r, NEW w, NEW t, Linked(r, w, t), w # <<>>
  PROVE  Linked(r, Tail(w), decode_headers(t, Head(w).block, FALSE).d)
<1>1. PICK a : Chain(a, r, w, t)
  BY Zenon DEF Linked
<1>2. w \in Seq(Message) /\ Len(w) <= MaxInFlight /\ MaxInFlight \in Nat
  BY CompositionAssumption DEF Linked
<1>3. PICK n \in Nat : n + 1 = Len(w)
  <2>1. Len(w) - 1 \in Nat /\ (Len(w) - 1) + 1 = Len(w)
    BY <1>2
  <2> QED
    BY <2>1
<1>4. PICK v \in Seq(Message) : /\ v = Tail(w) /\ Len(v) = n /\ \A i \in 1..n : v[i] = w[i + 1]
  <2>1. Tail(w) \in Seq(Message) /\ Len(Tail(w)) = n /\ \A i \in 1..n : Tail(w)[i] = w[i + 1]
    BY <1>2, <1>3
  <2> QED
    BY <2>1, Zenon
<1>5. Head(w) = w[1]
  BY <1>2
<1>6. /\ a[0] = t /\ Agree(r, a[n + 1]) /\ (\A i \in 0..(n + 1) : Fits(a[i]))
      /\ \A i \in 1..(n + 1) : Delivers(a[i - 1], w[i], a[i])
  BY <1>1, <1>3, Zenon DEF Chain
<1> DEFINE x == [i \in 0..n |-> a[i + 1]]
<1>7. \A i \in 0..n : x[i] = a[i + 1] /\ i + 1 \in 0..(n + 1)
  OBVIOUS
<1>8. 0 \in 0..n /\ n \in 0..n /\ 0 + 1 = 1 /\ 1 \in 1..(n + 1) /\ 1 - 1 = 0
  OBVIOUS
<1> HIDE DEF x
<1>9. x[0] = decode_headers(t, Head(w).block, FALSE).d
  <2>1. Delivers(a[0], w[1], a[1]) /\ x[0] = a[1]
    BY <1>6, <1>7, <1>8, Zenon
  <2> QED
    BY <1>5, <1>6, <2>1, Zenon DEF Delivers
<1>10. \A i \in 0..n : Fits(x[i])
  BY <1>6, <1>7, Zenon
<1>11. ASSUME NEW i \in 1..n PROVE Delivers(x[i - 1], v[i], x[i])
  <2>1. i - 1 \in 0..n /\ i \in 0..n /\ (i - 1) + 1 = i /\ i + 1 \in 1..(n + 1) /\ (i + 1) - 1 = i
    OBVIOUS
  <2>2. Delivers(a[i], w[i + 1], a[i + 1])
    BY <1>6, <2>1, Zenon
  <2>3. x[i - 1] = a[i] /\ x[i] = a[i + 1] /\ v[i] = w[i + 1]
    BY <1>4, <1>7, <2>1, Zenon
  <2> QED
    BY <2>2, <2>3, Zenon
<1>12. Agree(r, x[n])
  BY <1>6, <1>7, <1>8, Zenon
<1>13. Chain(x, r, v, x[0])
  BY <1>4, <1>10, <1>11, <1>12, Zenon DEF Chain
<1>14. Len(v) <= MaxInFlight
  BY <1>2, <1>3, <1>4
<1> QED
  BY <1>4, <1>9, <1>13, <1>14, Zenon DEF Linked

\* A new compressor and a new table have nothing in them.
LEMMA NewLinked == Linked(compressor_init, <<>>, dynamic_metadata_table)
<1> DEFINE r == compressor_init
           t == dynamic_metadata_table
<1>1. InitialTableSize \in Nat /\ InitialTableSize # 0 /\ Overhead \in Nat /\ Overhead # 0
  BY HpackAssumption
<1>2. PICK n \in Nat : n = elems_for_bytes(InitialTableSize)
  BY <1>1, ElemsForBytesType, Zenon
<1>3. n # 0
  BY <1>1, <1>2 DEF elems_for_bytes
<1>4. PICK sizes, entries : /\ sizes = [s \in 0..(n - 1) |-> 0] /\ sizes \in [0..(n - 1) -> Nat]
                            /\ entries = [s \in Slots |-> [mdel |-> NoField, index |-> 0]]
                            /\ entries \in [Slots -> Entry]
                            /\ \A s \in Slots : entries[s].mdel = NoField /\ entries[s].index = 0
  <2>1. [mdel |-> NoField, index |-> 0] \in Entry
    BY DEF Entry
  <2>2. PICK x \in Entry : x = [mdel |-> NoField, index |-> 0] /\ x.mdel = NoField /\ x.index = 0
    BY <2>1
  <2>3. [s \in Slots |-> x] \in [Slots -> Entry] /\ \A s \in Slots : [q \in Slots |-> x][s] = x
    OBVIOUS
  <2>4. [s \in 0..(n - 1) |-> 0] \in [0..(n - 1) -> Nat]
    OBVIOUS
  <2> QED
    BY <2>2, <2>3, <2>4, Zenon
<1>5. r = [max_table_size |-> InitialTableSize, cap_table_elems |-> n, tail_remote_index |-> 0,
           table_size |-> 0, table_elems |-> 0, table_elem_size |-> sizes, entries |-> entries]
  BY <1>2, <1>4, Zenon DEF compressor_init
<1> HIDE DEF r
<1>6. sizes \in Sizes
  BY <1>4 DEF Sizes
<1>7. r \in Compressor
  BY <1>1, <1>3, <1>4, <1>5, <1>6 DEF Compressor
<1>8. /\ r.max_table_size = InitialTableSize /\ r.cap_table_elems = n /\ r.tail_remote_index = 0
      /\ r.table_size = 0 /\ r.table_elems = 0 /\ r.table_elem_size = sizes /\ r.entries = entries
  BY <1>5
<1>9. LiveSizes(r) = <<>>
  <2>1. r.table_elem_size \in [0..(r.cap_table_elems - 1) -> Nat]
    BY <1>4, <1>8, Zenon
  <2>2. LiveSizes(r) \in Seq(Nat) /\ Len(LiveSizes(r)) = 0
    BY <1>7, <1>8, <2>1, LiveSizesIs, Zenon
  <2> QED
    BY <2>2
<1>10. RingOK(r)
  <2>1. /\ InitialTableSize <= InitialTableSize /\ n <= n /\ 0 <= InitialTableSize
        /\ \A i \in 1..0 : FALSE
    BY <1>1
  <2>2. elems_for_bytes(r.max_table_size) <= r.cap_table_elems
    BY <1>2, <1>8, <2>1, Zenon
  <2>3. \A i \in 1..r.table_elems : LiveSizes(r)[i] > Overhead
    BY <1>8, <2>1, Zenon
  <2>4. r.table_size = Total(LiveSizes(r))
    BY <1>8, <1>9, TotalEmpty, Zenon
  <2> QED
    BY <1>4, <1>7, <1>8, <2>1, <2>2, <2>3, <2>4, Zenon DEF RingOK
<1>11. HashOK(entries)
  BY <1>4, Zenon DEF HashOK
<1>12. t.table = <<>> /\ t.max_table_size = InitialTableSize
  BY DEF dynamic_metadata_table
<1> HIDE DEF t
<1>13. Tracks(r, t)
  <2>1. 0 <= Len(<<>>) /\ 0 <= 0 + 0 /\ ~(0 > 0) /\ \A i \in 1..0 : FALSE
    OBVIOUS
  <2>2. \A i \in 1..r.table_elems : LiveSizes(r)[i] = EntrySize(t.table[r.table_elems - i + 1])
    BY <1>8, <2>1, Zenon
  <2>3. ASSUME NEW s \in Slots
        PROVE  /\ r.entries[s].index <= r.tail_remote_index + r.table_elems
               /\ ~(r.entries[s].index > r.tail_remote_index)
    BY <1>4, <1>8, <2>1, Zenon
  <2> QED
    BY <1>8, <1>12, <2>1, <2>2, <2>3, Zenon DEF Tracks
<1>14. Agree(r, t)
  BY <1>8, <1>10, <1>11, <1>13, EmptyFits, Zenon DEF Agree, t
<1> DEFINE a == [i \in 0..0 |-> t]
           w == <<>>
<1>15. a[0] = t /\ Len(w) = 0 /\ w \in Seq(Message) /\ (\A i \in 0..0 : i = 0) /\ \A i \in 1..0 : FALSE
  OBVIOUS
<1> HIDE DEF a, w
<1>16. Chain(a, r, w, t)
  BY <1>14, <1>15, EmptyFits, Zenon DEF Chain, t
<1>17. 0 <= MaxInFlight /\ 0 + 0 <= MaxInsertions
  BY CompositionAssumption
<1>18. Linked(r, w, t)
  BY <1>8, <1>15, <1>16, <1>17, Zenon DEF Linked
<1> QED
  BY <1>18, Zenon DEF r, w, t

\* The inductive invariant of Hpack.
HpackInv == Linked(c, wire, d)

\* It holds throughout.
LEMMA HpackKeeps == Spec => []HpackInv
<1>1. Init => HpackInv
  BY NewLinked, Zenon DEF Init, ReceiverInit, HpackInv
<1>2. HpackInv /\ [Next]_vars => HpackInv'
  <2> SUFFICES ASSUME HpackInv, [Next]_vars PROVE Linked(c', wire', d')
    BY DEF HpackInv, Linked, Chain
  <2>1. Linked(c, wire, d)
    BY Zenon DEF HpackInv
  <2>2. ASSUME NEW list \in HeaderLists, SendHeaders(list) PROVE Linked(c', wire', d')
    <3>1. PICK e : e = compressor_encode_headers(c, list)
      BY Zenon
    <3>2. /\ Len(wire) < MaxInFlight /\ c' = e.c /\ d' = d
          /\ c.tail_remote_index + c.table_elems + Len(list) <= MaxInsertions
          /\ wire' = Append(wire, [sent |-> list, block |-> e.block])
      BY <2>2, <3>1 DEF SendHeaders, receiverVars
    <3> QED
      BY <2>1, <3>1, <3>2, SendLinks, Zenon
  <2>3. ASSUME NEW size \in TableSizes, ReceivedTableSize(size) PROVE Linked(c', wire', d')
    <3>1. size \in Nat
      BY CompositionAssumption
    <3>2. c' = compressor_set_max_table_size(c, size) /\ wire' = wire /\ d' = d
      BY <2>3 DEF ReceivedTableSize
    <3> QED
      BY <2>1, <3>1, <3>2, ResizeLinks, Zenon
  <2>4. CASE ReceivedHeaders
    <3>1. /\ wire # <<>> /\ c' = c /\ wire' = Tail(wire)
          /\ d' = decode_headers(d, Head(wire).block, FALSE).d
      BY <2>4, Zenon DEF ReceivedHeaders, ReceivedFragment
    <3> QED
      BY <2>1, <3>1, ReceiveLinks, Zenon
  <2>5. CASE UNCHANGED vars
    <3>1. c' = c /\ wire' = wire /\ d' = d
      BY <2>5 DEF vars
    <3> QED
      BY <2>1, <3>1, Zenon
  <2> QED
    BY <2>2, <2>3, <2>4, <2>5, Zenon DEF Next
<1> QED
  BY <1>1, <1>2, PTL DEF Spec

\* CaughtUp is the last table of the chain.
LEMMA CaughtUpIs ==
  ASSUME NEW a, Chain(a, c, wire, d), wire \in Seq(Message)
  PROVE  CaughtUp = a[Len(wire)]
<1>1. PICK n \in Nat : n = Len(wire)
  OBVIOUS
<1>2. a[0] = d /\ \A i \in 1..n : decode_headers(a[i - 1], wire[i].block, FALSE).d = a[i]
  BY <1>1, Zenon DEF Chain, Delivers
<1> DEFINE Is(f) == f = [i \in 0..Len(wire) |->
                           IF i = 0 THEN d ELSE decode_headers(f[i - 1], wire[i].block, FALSE).d]
           x == [i \in 0..n |-> a[i]]
           after == CHOOSE f : Is(f)
<1>3. \A i \in 0..n : x[i] = a[i]
  OBVIOUS
<1>4. Is(x)
  <2>1. ASSUME NEW i \in 0..n
        PROVE  x[i] = IF i = 0 THEN d ELSE decode_headers(x[i - 1], wire[i].block, FALSE).d
    <3> HIDE DEF x
    <3>1. CASE i = 0
      BY <1>2, <1>3, <3>1, Zenon
    <3>2. CASE i # 0
      <4>1. i - 1 \in 0..n /\ i \in 1..n
        BY <3>2
      <4> QED
        BY <1>2, <1>3, <3>2, <4>1, Zenon
    <3> QED
      BY <3>1, <3>2
  <2>2. x = [i \in 0..n |-> x[i]]
    BY <1>3
  <2> HIDE DEF x
  <2> QED
    BY <1>1, <2>1, <2>2, Zenon
<1>5. Is(after)
  <2> HIDE DEF Is
  <2> QED
    BY <1>4
<1>6. CaughtUp = after[n]
  BY <1>1, Zenon DEF CaughtUp
<1>7. \A i \in 0..n : after[i] = IF i = 0 THEN d ELSE decode_headers(after[i - 1], wire[i].block, FALSE).d
  <2> HIDE DEF after
  <2> QED
    BY <1>1, <1>5
<1> HIDE DEF after, Is, x
<1> DEFINE T == {k \in Nat : k <= n => after[k] = a[k]}
<1>8. 0 \in T
  <2>1. 0 \in 0..n /\ 0 \in Nat
    OBVIOUS
  <2>2. after[0] = a[0]
    BY <1>2, <1>7, <2>1, Zenon
  <2> QED
    BY <2>1, <2>2, Zenon
<1>9. ASSUME NEW k \in Nat, k \in T PROVE k + 1 \in T
  <2> SUFFICES ASSUME k + 1 <= n PROVE after[k + 1] = a[k + 1]
    OBVIOUS
  <2>1. k + 1 \in 0..n /\ k + 1 \in 1..n /\ k + 1 # 0 /\ (k + 1) - 1 = k /\ after[k] = a[k]
    BY <1>9
  <2> QED
    BY <1>2, <1>7, <2>1, Zenon
<1>10. Nat \subseteq T
  <2> HIDE DEF T
  <2> QED
    BY <1>8, <1>9, SetInduction
<1>11. after[n] = a[n]
  BY <1>10
<1> QED
  BY <1>1, <1>6, <1>11, Zenon

\* DecodesWhatWasSent: the first message under way decodes, with the table
\* the receiver has, to exactly the list it was made from, whatever SETTINGS
\* changes the compressor has seen while the messages were under way.  For
\* every static table, hash function, sizes of strings and of the table.
THEOREM HeadersArrive == Spec => []DecodesWhatWasSent
<1>1. ASSUME HpackInv PROVE DecodesWhatWasSent
  <2> SUFFICES ASSUME wire # <<>>
               PROVE  /\ decode_headers(d, Head(wire).block, FALSE).error = NoError
                      /\ decode_headers(d, Head(wire).block, FALSE).fields = Head(wire).sent
    BY Zenon DEF DecodesWhatWasSent
  <2>1. PICK a : wire \in Seq(Message) /\ Chain(a, c, wire, d)
    BY <1>1, Zenon DEF HpackInv, Linked
  <2>2. 1 \in 1..Len(wire) /\ 1 - 1 = 0 /\ Head(wire) = wire[1]
    BY <2>1
  <2>3. Delivers(d, Head(wire), a[1])
    BY <2>1, <2>2, Zenon DEF Chain
  <2> QED
    BY <2>3, Zenon DEF Delivers
<1> QED
  BY <1>1, HpackKeeps, PTL

\* TracksRemoteTable: what the compressor counts as live is the newest part
\* of the table the decoder will have, entry by entry, and a live number in
\* its hash table names that very field.
THEOREM CompressorTracksTable == Spec => []TracksRemoteTable
<1>1. ASSUME HpackInv PROVE TracksRemoteTable
  <2>1. PICK a : wire \in Seq(Message) /\ Chain(a, c, wire, d)
    BY <1>1, Zenon DEF HpackInv, Linked
  <2>2. PICK t : t = CaughtUp /\ Agree(c, t)
    BY <2>1, CaughtUpIs, Zenon DEF Chain
  <2>3. RingOK(c) /\ Tracks(c, t) /\ t \in Table
    BY <2>2, Zenon DEF Agree, Fits, Accounted
  <2>4. c \in Compressor /\ c.table_elem_size \in [0..(c.cap_table_elems - 1) -> Nat]
    BY <2>3, Zenon DEF RingOK
  <2>5. c.table_elems \in Nat /\ c.tail_remote_index \in Nat /\ c.entries \in [Slots -> Entry]
    BY <2>4 DEF Compressor
  <2>6. PICK m \in Nat, o \in Nat : m = c.table_elems /\ o = c.tail_remote_index
    BY <2>5
  <2>7. ASSUME NEW i \in Live(c)
        PROVE  SizeAt(c, i) = EntrySize(t.table[c.tail_remote_index + c.table_elems - i + 1])
    <3>1. i \in (o + 1)..(o + m)
      BY <2>6, <2>7, Zenon DEF Live
    <3>2. PICK k \in 1..m : i = o + k /\ m - k + 1 = o + m - i + 1
      <4>1. i - o \in 1..m /\ i = o + (i - o) /\ m - (i - o) + 1 = o + m - i + 1
        BY <3>1
      <4> QED
        BY <4>1
    <3>3. LiveSizes(c)[k] = SizeAt(c, o + k)
      BY <2>4, <2>6, LiveSizesIs, Zenon
    <3>4. LiveSizes(c)[k] = EntrySize(t.table[m - k + 1])
      BY <2>3, <2>6, Zenon DEF Tracks
    <3> QED
      BY <2>6, <3>2, <3>3, <3>4, Zenon
  <2>8. ASSUME NEW s \in Slots, c.entries[s].index \in Live(c)
        PROVE  c.entries[s].mdel
                 = t.table[c.tail_remote_index + c.table_elems - c.entries[s].index + 1]
    <3>1. c.entries[s].index \in (o + 1)..(o + m)
      BY <2>6, <2>8, Zenon DEF Live
    <3>2. c.entries[s].index > o
      BY <3>1
    <3> QED
      BY <2>3, <2>6, <3>2, Zenon DEF Tracks
  <2>9. c.table_elems <= Len(t.table)
    BY <2>3, Zenon DEF Tracks
  <2> QED
    BY <2>2, <2>7, <2>8, <2>9, Zenon DEF TracksRemoteTable
<1> QED
  BY <1>1, HpackKeeps, PTL

\* RingIsExact: table_size is the size of the live entries and within the
\* maximum, and the ring has a place for each of them, whatever resizing
\* happened; the assertions of evict_entry and prepare_space_for_new_elem
\* hold.
THEOREM RingStaysExact == Spec => []RingIsExact
<1>1. ASSUME HpackInv PROVE RingIsExact
  <2>1. PICK a : /\ wire \in Seq(Message) /\ Len(wire) <= MaxInFlight /\ Chain(a, c, wire, d)
                 /\ c.tail_remote_index + c.table_elems <= MaxInsertions
    BY <1>1, Zenon DEF HpackInv, Linked
  <2>2. RingOK(c) /\ Tracks(c, a[Len(wire)]) /\ Fits(d)
    <3>1. 0 \in 0..Len(wire)
      BY <2>1
    <3> QED
      BY <2>1, <3>1, Zenon DEF Chain, Agree
  <2>3. /\ c \in Compressor /\ c.table_elem_size \in [0..(c.cap_table_elems - 1) -> Nat]
        /\ c.max_table_size <= InitialTableSize /\ c.table_size = Total(LiveSizes(c))
        /\ c.table_size <= c.max_table_size
    BY <2>2, Zenon DEF RingOK
  <2>4. /\ c.max_table_size \in Nat /\ c.cap_table_elems \in Nat \ {0} /\ c.tail_remote_index \in Nat
        /\ c.table_elems \in Nat /\ c.entries \in [Slots -> Entry]
    BY <2>3 DEF Compressor
  <2>5. c.table_size = OldestSize(c, c.table_elems)
    BY <2>3, Zenon DEF OldestSize, LiveSizes
  <2>6. MaxInsertions \in Nat /\ InitialTableSize \in Nat
    BY CompositionAssumption, HpackAssumption
  <2>7. /\ c.max_table_size \in 0..InitialTableSize
        /\ c.tail_remote_index \in 0..MaxInsertions /\ c.table_elems \in 0..MaxInsertions
    BY <2>1, <2>3, <2>4, <2>6
  <2>8. ASSUME NEW s \in Slots
        PROVE  c.entries[s].mdel \in Field \cup {NoField} /\ c.entries[s].index \in 0..MaxInsertions
    <3>1. PICK x \in Entry : x = c.entries[s]
      BY <2>4
    <3>2. x.mdel \in Field \cup {NoField} /\ x.index \in Nat
      BY DEF Entry
    <3>3. x.index <= c.tail_remote_index + c.table_elems
      BY <2>2, <3>1, Zenon DEF Tracks
    <3>4. x.index \in 0..MaxInsertions
      BY <2>1, <2>4, <2>6, <3>2, <3>3
    <3> QED
      BY <3>1, <3>2, <3>4, Zenon
  <2>9. \A i \in 1..Len(wire) : wire[i].sent \in HeaderLists
    <3> TAKE i \in 1..Len(wire)
    <3>1. wire[i] \in Message
      BY <2>1, ElementOfSeq
    <3> QED
      BY <3>1 DEF Message
  <2>10. d.table \in Seq(Field)
    <3>1. d \in Table
      BY <2>2, Zenon DEF Fits, Accounted
    <3> QED
      BY <3>1 DEF Table
  <2>11. DOMAIN c.entries = Slots
    BY <2>4
  <2>12. TypeOK
    BY <2>1, <2>3, <2>4, <2>7, <2>8, <2>9, <2>10, <2>11, Zenon DEF TypeOK
  <2> QED
    BY <2>2, <2>3, <2>5, <2>12, RingFacts, Zenon DEF RingIsExact
<1> QED
  BY <1>1, HpackKeeps, PTL

\* OneSlotPerField: no field is in two slots of the hash table, where a
\* lookup could meet the stale one first.
THEOREM FieldsHaveOneSlot == Spec => []OneSlotPerField
<1>1. ASSUME HpackInv PROVE OneSlotPerField
  <2>1. HashOK(c.entries)
    BY <1>1, LinkedRing, Zenon DEF HpackInv
  <2> QED
    BY <2>1, Zenon DEF HashOK, OneSlotPerField
<1> QED
  BY <1>1, HpackKeeps, PTL

=============================================================================
