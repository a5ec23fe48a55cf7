--------------------------- MODULE SettingsProofs ---------------------------
(***************************************************************************)
(* _settings_pending and _ping_pending are exact and both ends agree about *)
(* the settings, for any table of parameters, any requests and any number  *)
(* of them.                                                                *)
(*                                                                         *)
(* Of an end's SETTINGS there is none under way, or one, or its ACK, or it *)
(* was refused.  What the other end goes by is known in each of these: the *)
(* defaults or what was in force before, and once the ACK is under way all *)
(* of the request, clamped.  A server that has called SendSettings before  *)
(* the preface has up to two under way; then the frames are counted, and   *)
(* what the other end will go by is followed through those under way.      *)
(***************************************************************************)
EXTENDS SettingsExchange, TotalsProofs, FiniteSetTheorems

Entry == [id : Nat, value : Int]

Frames ==
  [kind : {"preface", "ack", "ping", "pong", "goaway"}]
  \cup [kind : {"settings"}, entries : Seq(Entry)]

-----------------------------------------------------------------------------
(***************************************************************************)
(* What is under way: nothing of a kind, or one frame of it.               *)
(***************************************************************************)

None(s, kind) == \A i \in 1..Len(s) : s[i].kind # kind

Only(s, f) ==
  \E i \in 1..Len(s) : /\ s[i] = f
                       /\ \A j \in 1..Len(s) : s[j].kind = f.kind => j = i

\* Where the elements of two sequences are when they are behind one another.
LEMMA ConcatAt ==
  \A s, t \in Seq(Frames) :
    /\ s \o t \in Seq(Frames)
    /\ Len(s \o t) = Len(s) + Len(t)
    /\ \A i \in 1..(Len(s) + Len(t)) :
         (s \o t)[i] = IF i <= Len(s) THEN s[i] ELSE t[i - Len(s)]
BY ConcatProperties

\* It does not matter how three of them are grouped.
LEMMA Regrouped == \A s, t, u \in Seq(Frames) : (s \o t) \o u = s \o (t \o u)
BY ConcatAssociative

\* Frames are sent behind the others.
LEMMA Grow ==
  ASSUME NEW s \in Seq(Frames), NEW t \in Seq(Frames), NEW f, NEW kind
  PROVE  /\ None(s, kind) /\ None(t, kind) => None(s \o t, kind)
         /\ Only(s, f) /\ None(t, f.kind) => Only(s \o t, f)
         /\ None(s, f.kind) /\ Only(t, f) => Only(s \o t, f)
<1>1. PICK m \in Nat, n \in Nat : m = Len(s) /\ n = Len(t)
  OBVIOUS
<1>2. Len(s \o t) = m + n /\ \A i \in 1..(m + n) : (s \o t)[i] = IF i <= m THEN s[i] ELSE t[i - m]
  BY <1>1, ConcatAt
<1>3. \A i \in 1..m : i \in 1..(m + n) /\ (s \o t)[i] = s[i]
  BY <1>2
<1>4. \A i \in 1..n : m + i \in 1..(m + n) /\ (s \o t)[m + i] = t[i]
  BY <1>2
<1>5. \A i \in 1..(m + n) : i \in 1..m \/ \E k \in 1..n : i = m + k
  <2> TAKE i \in 1..(m + n)
  <2>1. CASE i <= m
    BY <2>1
  <2>2. CASE ~ (i <= m)
    <3>1. i - m \in 1..n /\ i = m + (i - m)
      BY <2>2
    <3> QED
      BY <3>1
  <2> QED
    BY <2>1, <2>2
<1>6. None(s, kind) /\ None(t, kind) => None(s \o t, kind)
  BY <1>1, <1>2, <1>3, <1>4, <1>5 DEF None
<1>7. ASSUME Only(s, f), None(t, f.kind) PROVE Only(s \o t, f)
  <2>1. PICK i \in 1..m : s[i] = f /\ \A j \in 1..m : s[j].kind = f.kind => j = i
    BY <1>1, <1>7 DEF Only
  <2>2. \A j \in 1..n : t[j].kind # f.kind
    BY <1>1, <1>7 DEF None
  <2>3. i \in 1..(m + n) /\ (s \o t)[i] = f
    BY <1>3, <2>1
  <2>4. ASSUME NEW j \in 1..(m + n), (s \o t)[j].kind = f.kind PROVE j = i
    <3>1. CASE j \in 1..m
      BY <1>3, <2>1, <2>4, <3>1
    <3>2. ASSUME NEW k \in 1..n, j = m + k PROVE FALSE
      BY <1>4, <2>2, <2>4, <3>2
    <3> QED
      BY <1>5, <3>1, <3>2
  <2> QED
    BY <1>2, <2>3, <2>4 DEF Only
<1>8. ASSUME None(s, f.kind), Only(t, f) PROVE Only(s \o t, f)
  <2>1. PICK i \in 1..n : t[i] = f /\ \A j \in 1..n : t[j].kind = f.kind => j = i
    BY <1>1, <1>8 DEF Only
  <2>2. \A j \in 1..m : s[j].kind # f.kind
    BY <1>1, <1>8 DEF None
  <2>3. m + i \in 1..(m + n) /\ (s \o t)[m + i] = f
    BY <1>4, <2>1
  <2>4. ASSUME NEW j \in 1..(m + n), (s \o t)[j].kind = f.kind PROVE j = m + i
    <3>1. CASE j \in 1..m
      BY <1>3, <2>2, <2>4, <3>1
    <3>2. ASSUME NEW k \in 1..n, j = m + k PROVE k = i
      BY <1>4, <2>1, <2>4, <3>2
    <3> QED
      BY <1>5, <3>1, <3>2
  <2> QED
    BY <1>2, <2>3, <2>4 DEF Only
<1> QED
  BY <1>6, <1>7, <1>8

\* The frame in front is received.
LEMMA Shrink ==
  ASSUME NEW s \in Seq(Frames), NEW f, NEW kind, s # <<>>
  PROVE  /\ Head(s) \in Frames /\ Tail(s) \in Seq(Frames)
         /\ None(s, kind) => None(Tail(s), kind) /\ Head(s).kind # kind
         /\ Only(s, f) /\ Head(s).kind # f.kind => Only(Tail(s), f)
         /\ Only(s, f) /\ Head(s).kind = f.kind => Head(s) = f /\ None(Tail(s), f.kind)
<1>1. PICK n \in Nat : Len(s) = n + 1
  <2>1. Len(s) \in Nat /\ Len(s) # 0
    OBVIOUS
  <2>2. Len(s) - 1 \in Nat /\ Len(s) = (Len(s) - 1) + 1
    BY <2>1
  <2> QED
    BY <2>2
<1>2. Head(s) \in Frames /\ Head(s) = s[1] /\ Tail(s) \in Seq(Frames) /\ Len(Tail(s)) = n
  BY <1>1
<1>3. \A i \in 1..n : i + 1 \in 1..(n + 1) /\ Tail(s)[i] = s[i + 1]
  BY <1>1
<1>4. 1 \in 1..(n + 1)
  OBVIOUS
<1>5. None(s, kind) => None(Tail(s), kind) /\ Head(s).kind # kind
  BY <1>1, <1>2, <1>3, <1>4 DEF None
<1>6. ASSUME Only(s, f), Head(s).kind # f.kind PROVE Only(Tail(s), f)
  <2>1. PICK i \in 1..(n + 1) : s[i] = f /\ \A j \in 1..(n + 1) : s[j].kind = f.kind => j = i
    BY <1>1, <1>6 DEF Only
  <2>2. i # 1
    BY <1>2, <1>6, <2>1
  <2>3. PICK k \in 1..n : i = k + 1
    <3>1. i - 1 \in 1..n /\ i = (i - 1) + 1
      BY <2>2
    <3> QED
      BY <3>1
  <2>4. Tail(s)[k] = f
    BY <1>3, <2>1, <2>3
  <2>5. ASSUME NEW j \in 1..n, Tail(s)[j].kind = f.kind PROVE j = k
    <3>1. j + 1 = i
      BY <1>3, <2>1, <2>5
    <3> QED
      BY <2>3, <3>1
  <2> QED
    BY <1>2, <2>4, <2>5 DEF Only
<1>7. ASSUME Only(s, f), Head(s).kind = f.kind PROVE Head(s) = f /\ None(Tail(s), f.kind)
  <2>1. PICK i \in 1..(n + 1) : s[i] = f /\ \A j \in 1..(n + 1) : s[j].kind = f.kind => j = i
    BY <1>1, <1>7 DEF Only
  <2>2. i = 1
    BY <1>2, <1>4, <1>7, <2>1
  <2>3. ASSUME NEW j \in 1..n PROVE Tail(s)[j].kind # f.kind
    <3>1. j + 1 # 1
      OBVIOUS
    <3> QED
      BY <1>3, <2>1, <2>2, <3>1
  <2> QED
    BY <1>2, <2>1, <2>2, <2>3 DEF None
<1> QED
  BY <1>2, <1>5, <1>6, <1>7

\* One frame by itself, and none.
LEMMA Single ==
  ASSUME NEW f, NEW kind
  PROVE  /\ None(<<>>, kind)
         /\ Only(<<f>>, f)
         /\ f.kind # kind => None(<<f>>, kind)
<1>1. None(<<>>, kind)
  BY DEF None
<1>2. Len(<<f>>) = 1 /\ <<f>>[1] = f /\ \A i \in 1..1 : i = 1
  OBVIOUS
<1>3. 1 \in 1..1
  OBVIOUS
<1> QED
  BY <1>1, <1>2, <1>3, Zenon DEF None, Only

\* How many there are.
LEMMA Counts ==
  ASSUME NEW s \in Seq(Frames), NEW f, NEW kind
  PROVE  /\ None(s, kind) => Count(s, kind) = 0
         /\ Only(s, f) => Count(s, f.kind) = 1
<1>1. DOMAIN s = 1..Len(s)
  OBVIOUS
<1>2. ASSUME None(s, kind) PROVE Count(s, kind) = 0
  <2>1. {i \in DOMAIN s : s[i].kind = kind} = {}
    BY <1>1, <1>2 DEF None
  <2> QED
    BY <2>1, FS_EmptySet DEF Count
<1>3. ASSUME Only(s, f) PROVE Count(s, f.kind) = 1
  <2>1. PICK i \in 1..Len(s) : s[i] = f /\ \A j \in 1..Len(s) : s[j].kind = f.kind => j = i
    BY <1>3 DEF Only
  <2>2. {j \in DOMAIN s : s[j].kind = f.kind} = {i}
    BY <1>1, <2>1
  <2> QED
    BY <2>2, FS_Singleton DEF Count
<1> QED
  BY <1>2, <1>3

-----------------------------------------------------------------------------
(***************************************************************************)
(* What the operators on settings compute.                                 *)
(***************************************************************************)

\* The table of parameters.
LEMMA Table ==
  /\ IsFiniteSet(Ids) /\ Ids \subseteq Nat
  /\ \A id \in Ids : /\ Parameters[id].min \in Int /\ Parameters[id].max \in Int
                     /\ Parameters[id].default \in Int
                     /\ Parameters[id].min <= Parameters[id].default
                     /\ Parameters[id].default <= Parameters[id].max
  /\ InitialLocal \in [Ids -> Int]
<1>1. IsFiniteSet(Ids) /\ Ids \subseteq Nat /\ InitialLocal \in [Ids -> Int]
  BY SettingsAssumption DEF Ids
<1>2. /\ Parameters \in [Ids -> [default : Int, min : Int, max : Int, disconnect : BOOLEAN]]
      /\ \A id \in Ids : /\ Parameters[id].min <= Parameters[id].default
                         /\ Parameters[id].default <= Parameters[id].max
  BY SettingsAssumption DEF Ids
<1> QED
  BY <1>1, <1>2

\* The last of some places is one of them, and so is the first.
LEMMA LastPlace ==
  ASSUME NEW n \in Nat, NEW T, T \subseteq 1..n, T # {}
  PROVE  /\ Max(T) \in T /\ \A k \in T : k <= Max(T)
         /\ Min(T) \in T
<1>1. T \subseteq 0..n /\ T \subseteq Nat
  OBVIOUS
<1>2. \E m \in T : \A k \in T : k <= m
  BY <1>1, GreatestNat
<1>3. \E m \in T : \A k \in T : m >= k
  BY <1>1, <1>2
<1>4. \E m \in T : \A k \in T : m <= k
  BY <1>1, LeastNat
<1>5. Max(T) \in T /\ \A k \in T : Max(T) >= k
  BY <1>3, Zenon DEF Max
<1>6. Min(T) \in T
  BY <1>4, Zenon DEF Min
<1> QED
  BY <1>1, <1>5, <1>6

\* The places at which some entries set id.
At(entries, id) == {i \in DOMAIN entries : entries[i].id = id}

\* Overwriting, id by id.
LEMMA OverwriteIs ==
  ASSUME NEW settings \in [Ids -> Int], NEW entries \in Seq(Entry)
  PROVE  /\ Overwrite(settings, entries) \in [Ids -> Int]
         /\ \A id \in Ids :
              /\ At(entries, id) = {} => Overwrite(settings, entries)[id] = settings[id]
              /\ At(entries, id) # {} =>
                   /\ Max(At(entries, id)) \in 1..Len(entries)
                   /\ entries[Max(At(entries, id))].id = id
                   /\ Overwrite(settings, entries)[id] = entries[Max(At(entries, id))].value
<1> DEFINE o == Overwrite(settings, entries)
<1>1. o = [id \in Ids |-> IF At(entries, id) = {} THEN settings[id]
                                                 ELSE entries[Max(At(entries, id))].value]
  BY Zenon DEF Overwrite, At
<1>2. DOMAIN entries = 1..Len(entries) /\ Len(entries) \in Nat
      /\ \A i \in 1..Len(entries) : entries[i] \in Entry
  BY ElementOfSeq
<1>3. ASSUME NEW id \in Ids, At(entries, id) # {}
      PROVE  Max(At(entries, id)) \in 1..Len(entries) /\ entries[Max(At(entries, id))].id = id
  <2>1. At(entries, id) \subseteq 1..Len(entries)
    BY <1>2, Zenon DEF At
  <2>2. Max(At(entries, id)) \in At(entries, id)
    BY <1>2, <1>3, <2>1, LastPlace
  <2> QED
    BY <1>2, <2>2, Zenon DEF At
<1>4. \A e \in Entry : e.value \in Int
  BY DEF Entry
<1>5. ASSUME NEW id \in Ids PROVE o[id] \in Int
  <2>1. CASE At(entries, id) = {}
    <3>1. o[id] = settings[id]
      BY <1>1, <2>1, Zenon
    <3> QED
      BY <3>1
  <2>2. CASE At(entries, id) # {}
    <3>1. o[id] = entries[Max(At(entries, id))].value
      BY <1>1, <2>2, Zenon
    <3> QED
      BY <1>2, <1>3, <1>4, <2>2, <3>1, Zenon
  <2> QED
    BY <2>1, <2>2
<1>6. o \in [Ids -> Int]
  BY <1>1, <1>5, Zenon
<1> QED
  BY <1>1, <1>3, <1>6, Zenon

\* No entries change nothing.
LEMMA OverwriteNothing ==
  ASSUME NEW settings \in [Ids -> Int]
  PROVE  Overwrite(settings, <<>>) = settings
<1>1. PICK z \in Seq(Entry) : z = <<>>
  <2>1. <<>> \in Seq(Entry)
    OBVIOUS
  <2> QED
    BY <2>1, Zenon
<1>2. \A id \in Ids : At(z, id) = {}
  BY <1>1 DEF At
<1>3. Overwrite(settings, z) \in [Ids -> Int] /\ \A id \in Ids : Overwrite(settings, z)[id] = settings[id]
  BY <1>2, OverwriteIs
<1>4. PICK o \in [Ids -> Int] : o = Overwrite(settings, z)
  BY <1>3, Zenon
<1>5. o = settings
  BY <1>3, <1>4
<1> QED
  BY <1>1, <1>4, <1>5, Zenon

\* A clamped value is an integer; a default is not clamped.
LEMMA ClampedIs ==
  ASSUME NEW id \in Ids
  PROVE  /\ \A v \in Int : Clamped(id, v) \in Int
         /\ Clamped(id, Parameters[id].default) = Parameters[id].default
<1>1. PICK lo \in Int, hi \in Int, d \in Int :
        /\ lo = Parameters[id].min /\ hi = Parameters[id].max /\ d = Parameters[id].default
        /\ lo <= d /\ d <= hi
  BY Table
<1>2. \A v : Clamped(id, v) = IF v < lo THEN lo ELSE IF v > hi THEN hi ELSE v
  BY <1>1 DEF Clamped
<1>3. Clamped(id, d) = d
  BY <1>1, <1>2
<1>4. \A v \in Int : Clamped(id, v) \in Int
  BY <1>2
<1> QED
  BY <1>1, <1>3, <1>4, Zenon

\* What is taken over of some entries: the same ids, known ones with clamped values.
LEMMA AcceptedIs ==
  ASSUME NEW entries \in Seq(Entry)
  PROVE  /\ Accepted(entries) \in Seq(Entry)
         /\ (\A i \in DOMAIN entries : ~Refused(entries[i])) =>
              /\ Len(Accepted(entries)) = Len(entries)
              /\ \A i \in 1..Len(entries) :
                   /\ Accepted(entries)[i].id = entries[i].id
                   /\ entries[i].id \in Ids =>
                        Accepted(entries)[i].value = Clamped(entries[i].id, entries[i].value)
<1>1. DOMAIN entries = 1..Len(entries) /\ Len(entries) \in Nat
      /\ \A i \in 1..Len(entries) : entries[i] \in Entry
  BY ElementOfSeq
<1> DEFINE bad  == {i \in DOMAIN entries : Refused(entries[i])}
           upto == IF bad = {} THEN Len(entries) ELSE Min(bad) - 1
           Taken(e) == IF e.id \in Ids THEN [e EXCEPT !.value = Clamped(e.id, @)] ELSE e
<1>2. Accepted(entries) = [i \in 1..upto |-> Taken(entries[i])]
  BY Zenon DEF Accepted
<1>3. upto \in 0..Len(entries)
  <2>1. CASE bad = {}
    BY <1>1, <2>1
  <2>2. CASE bad # {}
    <3>1. bad \subseteq 1..Len(entries)
      BY <1>1, Zenon
    <3> HIDE DEF bad
    <3>2. Min(bad) \in 1..Len(entries)
      BY <1>1, <2>2, <3>1, LastPlace
    <3> QED
      BY <1>1, <2>2, <3>2
  <2> QED
    BY <2>1, <2>2
<1>4. ASSUME NEW e \in Entry
      PROVE  Taken(e) \in Entry /\ Taken(e).id = e.id
             /\ (e.id \in Ids => Taken(e).value = Clamped(e.id, e.value))
  <2>1. e.id \in Nat /\ e.value \in Int /\ (e.id \in Ids => Clamped(e.id, e.value) \in Int)
    BY ClampedIs DEF Entry
  <2> QED
    BY <2>1 DEF Entry
<1>5. (\A i \in DOMAIN entries : ~Refused(entries[i])) => upto = Len(entries)
  BY Zenon
<1> HIDE DEF bad, upto, Taken
<1>6. PICK n \in Nat : n = upto /\ n <= Len(entries)
  BY <1>1, <1>3
<1>7. \A i \in 1..n : Taken(entries[i]) \in Entry
  BY <1>1, <1>4, <1>6
<1>8. [i \in 1..n |-> Taken(entries[i])] \in Seq(Entry) /\ Len([i \in 1..n |-> Taken(entries[i])]) = n
  BY <1>7
<1>9. PICK a \in Seq(Entry) : a = Accepted(entries) /\ Len(a) = n /\ \A i \in 1..n : a[i] = Taken(entries[i])
  BY <1>2, <1>6, <1>8, Zenon
<1>10. ASSUME \A i \in DOMAIN entries : ~Refused(entries[i]), NEW i \in 1..Len(entries)
       PROVE  /\ Len(a) = Len(entries) /\ a[i].id = entries[i].id
              /\ entries[i].id \in Ids => a[i].value = Clamped(entries[i].id, entries[i].value)
  <2>1. n = Len(entries)
    BY <1>5, <1>6, <1>10, Zenon
  <2>2. i \in 1..n /\ entries[i] \in Entry
    BY <1>1, <2>1, Zenon
  <2>3. a[i] = Taken(entries[i])
    BY <1>9, <2>2, Zenon
  <2>4. Taken(entries[i]).id = entries[i].id
        /\ (entries[i].id \in Ids => Taken(entries[i]).value = Clamped(entries[i].id, entries[i].value))
    BY <1>4, <2>2, Zenon
  <2> QED
    BY <1>9, <2>1, <2>3, <2>4, Zenon
<1>11. (\A i \in DOMAIN entries : ~Refused(entries[i])) => Len(a) = Len(entries)
  BY <1>5, <1>6, <1>9, Zenon
<1> QED
  BY <1>9, <1>10, <1>11, Zenon

\* Clamping entry by entry and clamping the outcome are the same.
LEMMA ClampCommutes ==
  ASSUME NEW settings \in [Ids -> Int], NEW entries \in Seq(Entry),
         \A i \in DOMAIN entries : ~Refused(entries[i])
  PROVE  Overwrite(ClampedAll(settings), Accepted(entries)) = ClampedAll(Overwrite(settings, entries))
<1>1. PICK a \in Seq(Entry) : a = Accepted(entries)
  BY AcceptedIs, Zenon
<1>2. Len(a) = Len(entries)
      /\ \A i \in 1..Len(entries) :
           /\ a[i].id = entries[i].id
           /\ entries[i].id \in Ids => a[i].value = Clamped(entries[i].id, entries[i].value)
  BY <1>1, AcceptedIs, Zenon
<1>3. PICK c \in [Ids -> Int] : c = ClampedAll(settings) /\ \A id \in Ids : c[id] = Clamped(id, settings[id])
  <2>1. \A id \in Ids : Clamped(id, settings[id]) \in Int
    BY ClampedIs
  <2>2. ClampedAll(settings) \in [Ids -> Int]
        /\ \A id \in Ids : ClampedAll(settings)[id] = Clamped(id, settings[id])
    BY <2>1 DEF ClampedAll
  <2> QED
    BY <2>2, Zenon
<1>4. PICK o \in [Ids -> Int] :
        /\ o = Overwrite(settings, entries)
        /\ \A id \in Ids :
              /\ At(entries, id) = {} => o[id] = settings[id]
              /\ At(entries, id) # {} =>
                   /\ Max(At(entries, id)) \in 1..Len(entries)
                   /\ entries[Max(At(entries, id))].id = id
                   /\ o[id] = entries[Max(At(entries, id))].value
  BY OverwriteIs, ZenonT(60)
<1>5. PICK p \in [Ids -> Int] :
        /\ p = Overwrite(c, a)
        /\ \A id \in Ids :
              /\ At(a, id) = {} => p[id] = c[id]
              /\ At(a, id) # {} => p[id] = a[Max(At(a, id))].value
  <2>1. /\ Overwrite(c, a) \in [Ids -> Int]
        /\ \A id \in Ids :
              /\ At(a, id) = {} => Overwrite(c, a)[id] = c[id]
              /\ At(a, id) # {} => Overwrite(c, a)[id] = a[Max(At(a, id))].value
    BY OverwriteIs, ZenonT(60)
  <2> QED
    BY <2>1, Zenon
<1>6. DOMAIN a = 1..Len(a) /\ DOMAIN entries = 1..Len(entries)
  OBVIOUS
<1>7. ASSUME NEW id \in Ids PROVE p[id] = Clamped(id, o[id])
  <2>1. At(a, id) = At(entries, id)
    BY <1>2, <1>6, Zenon DEF At
  <2>2. CASE At(entries, id) = {}
    <3>1. p[id] = c[id]
      BY <1>5, <2>1, <2>2, Zenon
    <3>2. o[id] = settings[id]
      BY <1>4, <2>2, Zenon
    <3> QED
      BY <1>3, <3>1, <3>2, Zenon
  <2>3. CASE At(entries, id) # {}
    <3>1. PICK m : m = Max(At(entries, id))
      BY Zenon
    <3>2. m \in 1..Len(entries) /\ entries[m].id = id /\ o[id] = entries[m].value
      BY <1>4, <2>3, <3>1, Zenon
    <3>3. p[id] = a[m].value
      BY <1>5, <2>1, <2>3, <3>1, Zenon
    <3> QED
      BY <1>2, <3>2, <3>3, Zenon
  <2> QED
    BY <2>2, <2>3
<1>8. p = ClampedAll(o)
  BY <1>7 DEF ClampedAll
<1> QED
  BY <1>1, <1>3, <1>4, <1>5, <1>8, Zenon

\* Every id of a finite set has its place in the list, and every place its id.
LEMMA Listing ==
  ASSUME NEW ids, IsFiniteSet(ids), ids \subseteq Nat
  PROVE  /\ Cardinality(ids) \in Nat
         /\ \A i \in 1..Cardinality(ids) : IdAt(ids, i) \in ids
         /\ \A i, j \in 1..Cardinality(ids) : IdAt(ids, i) = IdAt(ids, j) => i = j
         /\ \A id \in ids : \E i \in 1..Cardinality(ids) : IdAt(ids, i) = id
<1>1. PICK n \in Nat : n = Cardinality(ids)
  BY FS_CardinalityType
<1>2. ASSUME NEW id \in ids PROVE Place(ids, id) \in 1..n
  <2> DEFINE T == {k \in ids : k <= id}
  <2>1. id \in T /\ T \in SUBSET ids
    OBVIOUS
  <2> HIDE DEF T
  <2>2. IsFiniteSet(T) /\ Cardinality(T) <= n
    BY <1>1, <2>1, FS_Subset
  <2>3. Cardinality(T) \in Nat /\ Cardinality(T) # 0
    BY <2>1, <2>2, FS_CardinalityType, FS_EmptySet
  <2>4. Cardinality(T) \in 1..n
    BY <2>2, <2>3
  <2> QED
    BY <2>4 DEF Place, T
<1>3. ASSUME NEW j \in ids, NEW k \in ids, j < k PROVE Place(ids, j) # Place(ids, k)
  <2> DEFINE T == {i \in ids : i <= j}
             U == {i \in ids : i <= k}
  <2>1. T \in SUBSET U /\ k \in U /\ k \notin T /\ U \in SUBSET ids
    <3>1. j \in Nat /\ k \in Nat /\ k <= k /\ ~ (k <= j)
      BY <1>3
    <3>2. \A i \in ids : i \in Nat /\ (i <= j => i <= k)
      BY <1>3
    <3> QED
      BY <3>1, <3>2, Zenon
  <2> HIDE DEF T, U
  <2>2. IsFiniteSet(U)
    BY <2>1, FS_Subset
  <2>3. Cardinality(U) = Cardinality(T) => U = T
    BY <2>1, <2>2, FS_Subset
  <2> QED
    BY <2>1, <2>3 DEF Place, T, U
<1>4. ASSUME NEW j \in ids, NEW k \in ids, Place(ids, j) = Place(ids, k) PROVE j = k
  BY <1>3, <1>4
<1> DEFINE f == [id \in ids |-> Place(ids, id)]
<1>5. f \in Injection(ids, 1..n)
  BY <1>2, <1>4 DEF Injection, IsInjective
<1>6. f \in Surjection(ids, 1..n)
  <2> HIDE DEF f
  <2>1. IsFiniteSet(1..n) /\ Cardinality(1..n) = n
    BY FS_Interval
  <2> QED
    BY <1>1, <1>5, <2>1, FS_Injection
<1>7. \A i \in 1..n : \E id \in ids : Place(ids, id) = i
  BY <1>6 DEF Surjection
<1>8. ASSUME NEW i \in 1..n PROVE IdAt(ids, i) \in ids /\ Place(ids, IdAt(ids, i)) = i
  <2>1. \E id \in ids : Place(ids, id) = i
    BY <1>7
  <2> QED
    BY <2>1, Zenon DEF IdAt
<1>9. ASSUME NEW id \in ids PROVE \E i \in 1..n : IdAt(ids, i) = id
  <2>1. PICK i \in 1..n : i = Place(ids, id)
    BY <1>2
  <2>2. IdAt(ids, i) = id
    BY <1>4, <1>8, <2>1
  <2> QED
    BY <2>2
<1>10. ASSUME NEW i \in 1..n, NEW j \in 1..n, IdAt(ids, i) = IdAt(ids, j) PROVE i = j
  BY <1>8, <1>10, Zenon
<1> QED
  BY <1>1, <1>8, <1>9, <1>10, Zenon

\* The initial SETTINGS carry everything that differs from the defaults.
LEMMA InitialIs ==
  ASSUME NEW settings \in [Ids -> Int]
  PROVE  NonDefault(settings) \in Seq(Entry) /\ Overwrite(Defaults, NonDefault(settings)) = settings
<1> DEFINE ids == {id \in Ids : settings[id] # Parameters[id].default}
           n   == Cardinality(ids)
           Put(i) == [id |-> IdAt(ids, i), value |-> settings[IdAt(ids, i)]]
<1>1. IsFiniteSet(ids) /\ ids \subseteq Nat /\ ids \subseteq Ids
  <2>1. ids \in SUBSET Ids
    OBVIOUS
  <2> HIDE DEF ids
  <2> QED
    BY <2>1, Table, FS_Subset
<1>2. NonDefault(settings) = [i \in 1..n |-> Put(i)]
  BY Zenon DEF NonDefault
<1>3. \A id \in Ids : id \notin ids => settings[id] = Parameters[id].default
  OBVIOUS
<1> HIDE DEF ids
<1>4. /\ n \in Nat
      /\ \A i \in 1..n : IdAt(ids, i) \in ids
      /\ \A i, j \in 1..n : IdAt(ids, i) = IdAt(ids, j) => i = j
      /\ \A id \in ids : \E i \in 1..n : IdAt(ids, i) = id
  BY <1>1, Listing, Zenon
<1> HIDE DEF n
<1>5. ASSUME NEW i \in 1..n
      PROVE  Put(i) \in Entry /\ Put(i).id = IdAt(ids, i) /\ Put(i).value = settings[IdAt(ids, i)]
  <2>1. IdAt(ids, i) \in Nat /\ IdAt(ids, i) \in Ids
    BY <1>1, <1>4
  <2>2. settings[IdAt(ids, i)] \in Int
    BY <2>1
  <2> QED
    BY <2>1, <2>2 DEF Entry
<1> HIDE DEF Put
<1>6. PICK e \in Seq(Entry) : e = NonDefault(settings) /\ Len(e) = n /\ DOMAIN e = 1..n
                               /\ \A i \in 1..n : e[i] = Put(i)
  <2>1. [i \in 1..n |-> Put(i)] \in Seq(Entry) /\ Len([i \in 1..n |-> Put(i)]) = n
    BY <1>4, <1>5
  <2> QED
    BY <1>2, <2>1, Zenon
<1>7. PICK d \in [Ids -> Int] : d = Defaults /\ \A id \in Ids : d[id] = Parameters[id].default
  <2>1. \A id \in Ids : Parameters[id].default \in Int
    BY Table
  <2>2. Defaults \in [Ids -> Int] /\ \A id \in Ids : Defaults[id] = Parameters[id].default
    BY <2>1 DEF Defaults
  <2> QED
    BY <2>2, Zenon
<1>8. PICK o \in [Ids -> Int] :
        /\ o = Overwrite(d, e)
        /\ \A id \in Ids :
              /\ At(e, id) = {} => o[id] = d[id]
              /\ At(e, id) # {} =>
                   /\ Max(At(e, id)) \in 1..Len(e)
                   /\ e[Max(At(e, id))].id = id
                   /\ o[id] = e[Max(At(e, id))].value
  BY OverwriteIs, Zenon
<1>9. ASSUME NEW id \in Ids PROVE o[id] = settings[id]
  <2>1. CASE At(e, id) = {}
    <3>1. o[id] = d[id]
      BY <1>8, <2>1, Zenon
    <3>2. id \notin ids
      <4> SUFFICES ASSUME id \in ids PROVE FALSE
        OBVIOUS
      <4>1. PICK i \in 1..n : IdAt(ids, i) = id
        BY <1>4, Zenon
      <4>2. i \in At(e, id)
        BY <1>5, <1>6, <4>1, Zenon DEF At
      <4> QED
        BY <2>1, <4>2, Zenon
    <3> QED
      BY <1>3, <1>7, <3>1, <3>2, Zenon
  <2>2. CASE At(e, id) # {}
    <3>1. PICK m : m = Max(At(e, id))
      BY Zenon
    <3>2. m \in 1..Len(e) /\ e[m].id = id /\ o[id] = e[m].value
      BY <1>8, <2>2, <3>1, Zenon
    <3> QED
      BY <1>5, <1>6, <3>2, Zenon
  <2> QED
    BY <2>1, <2>2
<1>10. o = settings
  BY <1>9
<1> QED
  BY <1>6, <1>7, <1>8, <1>10, Zenon

\* The defaults are within their limits.
LEMMA DefaultsClamped == Defaults \in [Ids -> Int] /\ ClampedAll(Defaults) = Defaults
<1>1. \A id \in Ids : Parameters[id].default \in Int /\ Clamped(id, Parameters[id].default) = Parameters[id].default
  BY Table, ClampedIs
<1> QED
  BY <1>1 DEF Defaults, ClampedAll

-----------------------------------------------------------------------------
(***************************************************************************)
(* How many frames of a kind are under way, and what an end will go by     *)
(* when it has read them.                                                  *)
(***************************************************************************)

\* Frames are sent: those of another kind do not count, one of the kind does.
LEMMA CountsMore ==
  ASSUME NEW s \in Seq(Frames), NEW t \in Seq(Frames), NEW f \in Frames, NEW kind
  PROVE  /\ Count(s, kind) \in Nat
         /\ None(t, kind) => Count(s \o t, kind) = Count(s, kind)
         /\ f.kind = kind => Count(s \o <<f>>, kind) = Count(s, kind) + 1
<1> DEFINE P(u) == {i \in DOMAIN u : u[i].kind = kind}
<1>1. PICK n \in Nat : n = Len(s)
  OBVIOUS
<1>2. P(s) \subseteq 1..n
  BY <1>1
<1>3. IsFiniteSet(P(s)) /\ Cardinality(P(s)) \in Nat
  <2>1. IsFiniteSet(1..n) /\ P(s) \in SUBSET (1..n)
    BY <1>2, FS_Interval
  <2> HIDE DEF P
  <2> QED
    BY <2>1, FS_Subset, FS_CardinalityType
<1>4. \A u : Count(u, kind) = Cardinality(P(u))
  BY Zenon DEF Count
<1>5. ASSUME None(t, kind) PROVE Count(s \o t, kind) = Count(s, kind)
  <2>1. PICK m \in Nat : m = Len(t)
    OBVIOUS
  <2>2. s \o t \in Seq(Frames) /\ Len(s \o t) = n + m
        /\ \A i \in 1..(n + m) : (s \o t)[i] = IF i <= n THEN s[i] ELSE t[i - n]
    BY <1>1, <2>1, ConcatAt
  <2>3. \A i \in 1..m : t[i].kind # kind
    BY <1>5, <2>1 DEF None
  <2>4. ASSUME NEW i \in 1..(n + m) PROVE (s \o t)[i].kind = kind <=> i <= n /\ s[i].kind = kind
    <3>1. CASE i <= n
      BY <2>2, <3>1
    <3>2. CASE ~ (i <= n)
      <4>1. i - n \in 1..m
        BY <3>2
      <4> QED
        BY <2>2, <2>3, <3>2, <4>1
    <3> QED
      BY <3>1, <3>2
  <2>5. DOMAIN (s \o t) = 1..(n + m) /\ DOMAIN s = 1..n
    BY <1>1, <2>2
  <2>6. P(s \o t) = P(s)
    BY <2>4, <2>5
  <2> QED
    BY <1>4, <2>6, Zenon
<1>6. ASSUME f.kind = kind PROVE Count(s \o <<f>>, kind) = Count(s, kind) + 1
  <2>1. PICK u \in Seq(Frames) : u = s \o <<f>> /\ Len(u) = n + 1 /\ u[n + 1] = f
                                 /\ \A i \in 1..n : u[i] = s[i]
    <3>1. s \o <<f>> \in Seq(Frames) /\ Len(s \o <<f>>) = n + 1 /\ (s \o <<f>>)[n + 1] = f
          /\ \A i \in 1..n : (s \o <<f>>)[i] = s[i]
      BY <1>1
    <3> QED
      BY <3>1
  <2>2. DOMAIN u = 1..(n + 1) /\ DOMAIN s = 1..n
    BY <1>1, <2>1
  <2>3. P(u) = P(s) \cup {n + 1} /\ n + 1 \notin P(s)
    BY <1>6, <2>1, <2>2
  <2> HIDE DEF P
  <2>4. Cardinality(P(s) \cup {n + 1}) = Cardinality(P(s)) + 1
    BY <1>3, <2>3, FS_AddElement
  <2> QED
    BY <1>4, <2>1, <2>3, <2>4, Zenon
<1> QED
  BY <1>3, <1>4, <1>5, <1>6, Zenon

\* The frame in front is received.
LEMMA CountsLess ==
  ASSUME NEW s \in Seq(Frames), NEW kind, s # <<>>
  PROVE  Count(Tail(s), kind) = IF Head(s).kind = kind THEN Count(s, kind) - 1 ELSE Count(s, kind)
<1>1. PICK n \in Nat : Len(s) = n + 1
  <2>1. Len(s) \in Nat /\ Len(s) # 0
    OBVIOUS
  <2>2. Len(s) - 1 \in Nat /\ Len(s) = (Len(s) - 1) + 1
    BY <2>1
  <2> QED
    BY <2>2
<1>2. PICK t : t = Tail(s) /\ DOMAIN t = 1..n /\ \A i \in 1..n : t[i] = s[i + 1]
  <2>1. DOMAIN Tail(s) = 1..n /\ \A i \in 1..n : Tail(s)[i] = s[i + 1]
    BY <1>1
  <2> QED
    BY <2>1, Zenon
<1>3. Head(s) = s[1] /\ DOMAIN s = 1..(n + 1)
  BY <1>1
<1> DEFINE P == {i \in DOMAIN s : s[i].kind = kind}
           Q == {i \in DOMAIN t : t[i].kind = kind}
           f == [i \in Q |-> i + 1]
<1>4. P \in SUBSET (1..(n + 1)) /\ Q \in SUBSET (1..n)
  BY <1>2, <1>3
<1>5. IsFiniteSet(P) /\ IsFiniteSet(Q)
  <2>1. IsFiniteSet(1..(n + 1)) /\ IsFiniteSet(1..n)
    BY FS_Interval
  <2> HIDE DEF P, Q
  <2> QED
    BY <1>4, <2>1, FS_Subset
<1>6. \A i \in Q : i + 1 \in P \ {1}
  BY <1>2, <1>3
<1>7. ASSUME NEW j \in P \ {1} PROVE \E i \in Q : f[i] = j
  <2>1. j - 1 \in 1..n /\ (j - 1) + 1 = j
    BY <1>3
  <2>2. j - 1 \in Q
    BY <1>2, <1>3, <2>1
  <2> QED
    BY <2>1, <2>2
<1>8. f \in Bijection(Q, P \ {1})
  <2>1. f \in [Q -> P \ {1}] /\ \A i, j \in Q : f[i] = f[j] => i = j
    BY <1>4, <1>6
  <2> HIDE DEF P, Q, f
  <2> QED
    BY <1>7, <2>1, Zenon DEF Bijection, Injection, IsInjective, Surjection
<1> HIDE DEF P, Q, f
<1>9. Cardinality(P \ {1}) = Cardinality(Q)
  <2>1. ExistsBijection(Q, P \ {1})
    BY <1>8, Zenon DEF ExistsBijection
  <2> QED
    BY <1>5, <2>1, FS_Bijection
<1>10. Cardinality(P \ {1}) = IF 1 \in P THEN Cardinality(P) - 1 ELSE Cardinality(P)
  BY <1>5, FS_RemoveElement
<1>11. 1 \in P <=> Head(s).kind = kind
  <2>1. 1 \in DOMAIN s
    BY <1>3
  <2> QED
    BY <1>3, <2>1, Zenon DEF P
<1>12. Count(s, kind) = Cardinality(P) /\ Count(Tail(s), kind) = Cardinality(Q)
  BY <1>2, Zenon DEF Count, P, Q
<1> QED
  BY <1>9, <1>10, <1>11, <1>12, Zenon

\* Upcoming, by the last frame that sets id.
LEMMA UpcomingIs ==
  ASSUME NEW s \in Seq(Frames), NEW seen, NEW id \in Ids
  PROVE  /\ \/ \A i \in 1..Len(s) : ~Sets(s[i], id)
            \/ \E i \in 1..Len(s) : Sets(s[i], id) /\ \A j \in 1..Len(s) : Sets(s[j], id) => j <= i
         /\ (\A i \in 1..Len(s) : ~Sets(s[i], id)) => Upcoming(s, seen, id) = seen[id]
         /\ \A i \in 1..Len(s) :
              Sets(s[i], id) /\ (\A j \in 1..Len(s) : Sets(s[j], id) => j <= i) =>
                Upcoming(s, seen, id) = Clamped(id, Overwrite(InitialLocal, s[i].entries)[id])
<1>1. PICK n \in Nat : n = Len(s) /\ DOMAIN s = 1..n
  OBVIOUS
<1> DEFINE news == {i \in DOMAIN s : Sets(s[i], id)}
<1>2. Upcoming(s, seen, id) = IF news = {} THEN seen[id]
                              ELSE Clamped(id, Overwrite(InitialLocal, s[Max(news)].entries)[id])
  BY Zenon DEF Upcoming
<1>3. news \subseteq 1..n
  BY <1>1, Zenon
<1>4. \A i \in 1..n : i \in news <=> Sets(s[i], id)
  BY <1>1, Zenon
<1> HIDE DEF news
<1>5. news # {} => Max(news) \in news /\ \A k \in news : k <= Max(news)
  BY <1>3, LastPlace
<1>6. ASSUME NEW i \in 1..n, i \in news, \A j \in 1..n : j \in news => j <= i PROVE Max(news) = i
  <2>1. PICK m \in 1..n : m = Max(news) /\ m \in news /\ \A k \in news : k <= m
    BY <1>3, <1>5, <1>6, Zenon
  <2>2. m <= i /\ i <= m
    BY <1>6, <2>1, Zenon
  <2> QED
    BY <2>1, <2>2
<1>7. (\A i \in 1..n : ~Sets(s[i], id)) => news = {}
  BY <1>3, <1>4, Zenon
<1>8. news = {} => \A i \in 1..n : ~Sets(s[i], id)
  BY <1>4, Zenon
<1>9. news # {} => \E i \in 1..n : Sets(s[i], id) /\ \A j \in 1..n : Sets(s[j], id) => j <= i
  BY <1>3, <1>4, <1>5, Zenon
<1>10. ASSUME NEW i \in 1..n, Sets(s[i], id), \A j \in 1..n : Sets(s[j], id) => j <= i
       PROVE  Upcoming(s, seen, id) = Clamped(id, Overwrite(InitialLocal, s[i].entries)[id])
  <2>1. i \in news /\ \A j \in 1..n : j \in news => j <= i
    BY <1>4, <1>10, Zenon
  <2>2. Max(news) = i /\ news # {}
    BY <1>6, <2>1, Zenon
  <2> QED
    BY <1>2, <2>2, Zenon
<1> QED
  BY <1>1, <1>2, <1>7, <1>8, <1>9, <1>10, Zenon

\* f is what an end will have id from.
Says(s, seen, id, f) == Upcoming(s, seen, id) = Clamped(id, Overwrite(InitialLocal, f.entries)[id])

LEMMA UpcomingLast ==
  ASSUME NEW s \in Seq(Frames), NEW n, n = Len(s), NEW seen, NEW id \in Ids, NEW i \in 1..n, NEW f,
         s[i] = f, Sets(f, id), \A j \in 1..n : Sets(s[j], id) => j <= i
  PROVE  Says(s, seen, id, f)
<1>1. Sets(s[i], id) /\ i \in 1..Len(s) /\ \A j \in 1..Len(s) : Sets(s[j], id) => j <= i
  BY Zenon
<1>2. \A k \in 1..Len(s) :
        Sets(s[k], id) /\ (\A j \in 1..Len(s) : Sets(s[j], id) => j <= k) =>
          Upcoming(s, seen, id) = Clamped(id, Overwrite(InitialLocal, s[k].entries)[id])
  BY UpcomingIs, Zenon
<1>3. Upcoming(s, seen, id) = Clamped(id, Overwrite(InitialLocal, s[i].entries)[id])
  BY <1>1, <1>2, Zenon
<1> QED
  BY <1>3, Zenon DEF Says

\* SETTINGS with id, as Upcoming sees them.
LEMMA SetsIs ==
  ASSUME NEW x \in Seq(Entry), NEW id \in Ids
  PROVE  /\ Sets(Settings(x), id) <=> At(x, id) # {}
         /\ \A f : f.kind # "settings" => ~Sets(f, id)
<1>1. Settings(x).kind = "settings" /\ Settings(x).entries = x
  BY DEF Settings
<1>2. Sets(Settings(x), id) <=> At(x, id) # {}
  BY <1>1, Zenon DEF Sets, At
<1> QED
  BY <1>2, Zenon DEF Sets

Unmoved(s, t, seen, id) == Upcoming(t, seen, id) = Upcoming(s, seen, id)

\* Frames that do not set id change nothing about it, and a SETTINGS that does is what counts.
LEMMA UpcomingMore ==
  ASSUME NEW s \in Seq(Frames), NEW t \in Seq(Frames), NEW x \in Seq(Entry), NEW seen, NEW id \in Ids
  PROVE  /\ None(t, "settings") => Unmoved(s, s \o t, seen, id)
         /\ At(x, id) = {} => Unmoved(s, s \o <<Settings(x)>>, seen, id)
         /\ At(x, id) # {} => Says(s \o <<Settings(x)>>, seen, id, Settings(x))
<1>1. PICK n \in Nat : n = Len(s)
  OBVIOUS
<1>2. ASSUME NEW u \in Seq(Frames), \A i \in 1..Len(u) : ~Sets(u[i], id)
      PROVE  Upcoming(s \o u, seen, id) = Upcoming(s, seen, id)
  <2>1. PICK m \in Nat : m = Len(u)
    OBVIOUS
  <2>2. PICK v \in Seq(Frames) : v = s \o u /\ Len(v) = n + m
        /\ \A i \in 1..(n + m) : v[i] = IF i <= n THEN s[i] ELSE u[i - n]
    <3>1. s \o u \in Seq(Frames) /\ Len(s \o u) = n + m
          /\ \A i \in 1..(n + m) : (s \o u)[i] = IF i <= n THEN s[i] ELSE u[i - n]
      BY <1>1, <2>1, ConcatAt
    <3> QED
      BY <3>1, Zenon
  <2>3. ASSUME NEW i \in 1..(n + m) PROVE (i \in 1..n /\ v[i] = s[i]) \/ ~Sets(v[i], id)
    <3>1. CASE i <= n
      BY <2>2, <3>1
    <3>2. CASE ~ (i <= n)
      <4>1. i - n \in 1..m
        BY <3>2
      <4>2. v[i] = u[i - n]
        BY <2>2, <3>2
      <4> QED
        BY <1>2, <2>1, <4>1, <4>2, Zenon
    <3> QED
      BY <3>1, <3>2
  <2>4. \A i \in 1..n : i \in 1..(n + m) /\ v[i] = s[i]
    BY <2>2
  <2>5. CASE \A i \in 1..n : ~Sets(s[i], id)
    <3>1. \A i \in 1..(n + m) : ~Sets(v[i], id)
      BY <2>3, <2>5, Zenon
    <3>2. Upcoming(s, seen, id) = seen[id] /\ Upcoming(v, seen, id) = seen[id]
      BY <1>1, <2>2, <2>5, <3>1, UpcomingIs, Zenon
    <3> QED
      BY <2>2, <3>2, Zenon
  <2>6. ASSUME NEW i \in 1..n, Sets(s[i], id), \A j \in 1..n : Sets(s[j], id) => j <= i
        PROVE  Upcoming(v, seen, id) = Upcoming(s, seen, id)
    <3>1. Says(s, seen, id, s[i])
      BY <1>1, <2>6, UpcomingLast, Zenon
    <3>2. i \in 1..(n + m) /\ v[i] = s[i] /\ Sets(v[i], id) /\ \A j \in 1..(n + m) : Sets(v[j], id) => j <= i
      BY <2>3, <2>4, <2>6, Zenon
    <3>3. Says(v, seen, id, s[i])
      BY <2>2, <2>6, <3>2, UpcomingLast, Zenon
    <3> QED
      BY <3>1, <3>3, Zenon DEF Says
  <2> QED
    BY <1>1, <2>2, <2>5, <2>6, UpcomingIs, Zenon
<1>3. None(t, "settings") => Upcoming(s \o t, seen, id) = Upcoming(s, seen, id)
  BY <1>2, SetsIs, Zenon DEF None
<1>4. PICK f \in Frames : f = Settings(x) /\ f.entries = x
  <2>1. Settings(x) \in Frames /\ Settings(x).entries = x
    BY DEF Settings, Frames
  <2> QED
    BY <2>1, Zenon
<1>5. PICK w \in Seq(Frames) : w = <<f>> /\ Len(w) = 1 /\ \A i \in 1..1 : w[i] = f
  <2>1. <<f>> \in Seq(Frames) /\ Len(<<f>>) = 1 /\ \A i \in 1..1 : <<f>>[i] = f
    OBVIOUS
  <2> QED
    BY <2>1, Zenon
<1>6. At(x, id) = {} => Upcoming(s \o w, seen, id) = Upcoming(s, seen, id)
  BY <1>2, <1>4, <1>5, SetsIs, Zenon
<1>7. ASSUME At(x, id) # {} PROVE Upcoming(s \o w, seen, id) = Clamped(id, Overwrite(InitialLocal, x)[id])
  <2>1. PICK v \in Seq(Frames) : v = s \o w /\ Len(v) = n + 1 /\ v[n + 1] = f
    <3>1. s \o <<f>> \in Seq(Frames) /\ Len(s \o <<f>>) = n + 1 /\ (s \o <<f>>)[n + 1] = f
      BY <1>1
    <3> QED
      BY <1>5, <3>1, Zenon
  <2>2. n + 1 \in 1..(n + 1) /\ \A j \in 1..(n + 1) : j <= n + 1
    OBVIOUS
  <2>3. Sets(f, id)
    BY <1>4, <1>7, SetsIs, Zenon
  <2>4. Says(v, seen, id, f)
    <3>1. PICK k \in 1..(n + 1) : k = n + 1 /\ v[k] = f /\ \A j \in 1..(n + 1) : j <= k
      BY <2>1, <2>2, Zenon
    <3>2. PICK m : m = n + 1 /\ m = Len(v)
      BY <2>1, Zenon
    <3> QED
      BY <2>3, <3>1, <3>2, UpcomingLast, Zenon
  <2> QED
    BY <1>4, <2>1, <2>4, Zenon DEF Says
<1>8. At(x, id) # {} => Says(s \o w, seen, id, f)
  BY <1>4, <1>7, Zenon DEF Says
<1> QED
  BY <1>3, <1>4, <1>5, <1>6, <1>8, Zenon DEF Unmoved

\* What received_settings makes of a value.
LEMMA AppliedIs ==
  ASSUME NEW seen \in [Ids -> Int], NEW x \in Seq(Entry), NEW id \in Ids,
         \A i \in DOMAIN x : ~Refused(x[i])
  PROVE  /\ At(x, id) = {} => Overwrite(seen, Accepted(x))[id] = seen[id]
         /\ At(x, id) # {} =>
              Overwrite(seen, Accepted(x))[id] = Clamped(id, Overwrite(InitialLocal, x)[id])
<1>1. PICK a \in Seq(Entry) : a = Accepted(x) /\ Len(a) = Len(x)
      /\ \A i \in 1..Len(x) :
           /\ a[i].id = x[i].id
           /\ x[i].id \in Ids => a[i].value = Clamped(x[i].id, x[i].value)
  BY AcceptedIs, Zenon
<1>2. DOMAIN a = 1..Len(a) /\ DOMAIN x = 1..Len(x)
  OBVIOUS
<1>3. At(a, id) = At(x, id)
  BY <1>1, <1>2, Zenon DEF At
<1>4. /\ At(a, id) = {} => Overwrite(seen, a)[id] = seen[id]
      /\ At(a, id) # {} => Overwrite(seen, a)[id] = a[Max(At(a, id))].value
  BY OverwriteIs, ZenonT(60)
<1>5. InitialLocal \in [Ids -> Int]
  BY Table
<1>6. At(x, id) # {} => /\ Max(At(x, id)) \in 1..Len(x)
                        /\ x[Max(At(x, id))].id = id
                        /\ Overwrite(InitialLocal, x)[id] = x[Max(At(x, id))].value
  BY <1>5, OverwriteIs, ZenonT(60)
<1> QED
  BY <1>1, <1>3, <1>4, <1>6, Zenon

\* Reading a frame does not change what an end will go by, if nothing in it is refused.
LEMMA UpcomingLess ==
  ASSUME NEW s \in Seq(Frames), NEW seen, NEW id \in Ids, s # <<>>
  PROVE  /\ Head(s).kind # "settings" => Upcoming(Tail(s), seen, id) = Upcoming(s, seen, id)
         /\ /\ seen \in [Ids -> Int] /\ Head(s).kind = "settings"
            /\ (\A i \in DOMAIN Head(s).entries : ~Refused(Head(s).entries[i]))
            => Upcoming(Tail(s), Overwrite(seen, Accepted(Head(s).entries)), id) = Upcoming(s, seen, id)
<1>1. PICK n \in Nat : Len(s) = n + 1
  <2>1. Len(s) \in Nat /\ Len(s) # 0
    OBVIOUS
  <2>2. Len(s) - 1 \in Nat /\ Len(s) = (Len(s) - 1) + 1
    BY <2>1
  <2> QED
    BY <2>2
<1>2. PICK t \in Seq(Frames) : t = Tail(s) /\ Len(t) = n /\ \A i \in 1..n : t[i] = s[i + 1]
  <2>1. Tail(s) \in Seq(Frames) /\ Len(Tail(s)) = n /\ \A i \in 1..n : Tail(s)[i] = s[i + 1]
    BY <1>1
  <2> QED
    BY <2>1, Zenon
<1>3. PICK f \in Frames : f = Head(s) /\ f = s[1]
  <2>1. Head(s) \in Frames /\ Head(s) = s[1]
    BY <1>1
  <2> QED
    BY <2>1, Zenon
<1>4. 1 \in 1..(n + 1) /\ \A i \in 1..(n + 1) : i = 1 \/ \E k \in 1..n : i = k + 1
  <2>1. ASSUME NEW i \in 1..(n + 1), i # 1 PROVE \E k \in 1..n : i = k + 1
    <3>1. i - 1 \in 1..n /\ i = (i - 1) + 1
      BY <2>1
    <3> QED
      BY <3>1
  <2> QED
    BY <2>1
<1>5. ASSUME NEW k \in 1..n, Sets(t[k], id), \A j \in 1..n : Sets(t[j], id) => j <= k, NEW seen2
      PROVE  Upcoming(t, seen2, id) = Upcoming(s, seen, id)
  <2>1. k + 1 \in 1..(n + 1) /\ \A j \in 1..n : j <= k => j + 1 <= k + 1
    OBVIOUS
  <2>2. 1 <= k + 1
    OBVIOUS
  <2>3. s[k + 1] = t[k]
    BY <1>2, Zenon
  <2>4. ASSUME NEW i \in 1..(n + 1), Sets(s[i], id) PROVE i <= k + 1
    <3>1. CASE i = 1
      BY <2>2, <3>1, Zenon
    <3>2. ASSUME NEW j \in 1..n, i = j + 1 PROVE i <= k + 1
      <4>1. t[j] = s[i]
        BY <1>2, <3>2, Zenon
      <4>2. j <= k
        BY <1>5, <2>4, <4>1, Zenon
      <4> QED
        BY <2>1, <3>2, <4>2, Zenon
    <3> QED
      BY <1>4, <3>1, <3>2, Zenon
  <2>5. Says(t, seen2, id, t[k])
    BY <1>2, <1>5, UpcomingLast, Zenon
  <2>6. Says(s, seen, id, t[k])
    <3>1. PICK l \in 1..(n + 1) : l = k + 1 /\ s[l] = t[k] /\ \A j \in 1..(n + 1) : Sets(s[j], id) => j <= l
      BY <2>1, <2>3, <2>4, Zenon
    <3>2. PICK m : m = n + 1 /\ m = Len(s)
      BY <1>1, Zenon
    <3> QED
      BY <1>5, <3>1, <3>2, UpcomingLast, Zenon
  <2> QED
    BY <2>5, <2>6, Zenon DEF Says
<1>6. ASSUME \A i \in 1..n : ~Sets(t[i], id), NEW seen2
      PROVE  /\ Upcoming(t, seen2, id) = seen2[id]
             /\ ~Sets(f, id) => Upcoming(s, seen, id) = seen[id]
             /\ Sets(f, id) => Upcoming(s, seen, id) = Clamped(id, Overwrite(InitialLocal, f.entries)[id])
  <2>1. Upcoming(t, seen2, id) = seen2[id]
    BY <1>2, <1>6, UpcomingIs, Zenon
  <2>2. \A i \in 1..(n + 1) : Sets(s[i], id) => i = 1
    BY <1>2, <1>4, <1>6, Zenon
  <2>3. ASSUME ~Sets(f, id) PROVE Upcoming(s, seen, id) = seen[id]
    <3>1. \A i \in 1..(n + 1) : ~Sets(s[i], id)
      BY <1>3, <2>2, <2>3, Zenon
    <3> QED
      BY <1>1, <3>1, UpcomingIs, Zenon
  <2>4. 1 <= 1
    OBVIOUS
  <2>5. ASSUME Sets(f, id) PROVE Upcoming(s, seen, id) = Clamped(id, Overwrite(InitialLocal, f.entries)[id])
    <3>1. \A i \in 1..(n + 1) : Sets(s[i], id) => i <= 1
      BY <2>2, <2>4, Zenon
    <3>2. PICK l \in 1..(n + 1) : l = 1 /\ s[l] = f /\ \A j \in 1..(n + 1) : Sets(s[j], id) => j <= l
      BY <1>3, <1>4, <3>1, Zenon
    <3>3. PICK m : m = n + 1 /\ m = Len(s)
      BY <1>1, Zenon
    <3>4. Says(s, seen, id, f)
      BY <2>5, <3>2, <3>3, UpcomingLast, Zenon
    <3> QED
      BY <3>4, Zenon DEF Says
  <2> QED
    BY <2>1, <2>3, <2>5, Zenon
<1>7. \/ \A i \in 1..n : ~Sets(t[i], id)
      \/ \E k \in 1..n : Sets(t[k], id) /\ \A j \in 1..n : Sets(t[j], id) => j <= k
  BY <1>2, UpcomingIs, Zenon
<1>8. ASSUME f.kind # "settings" PROVE Upcoming(t, seen, id) = Upcoming(s, seen, id)
  <2>1. ~Sets(f, id)
    BY <1>8, Zenon DEF Sets
  <2> QED
    BY <1>5, <1>6, <1>7, <2>1, Zenon
<1>9. ASSUME seen \in [Ids -> Int], f.kind = "settings", \A i \in DOMAIN f.entries : ~Refused(f.entries[i])
      PROVE  Upcoming(t, Overwrite(seen, Accepted(f.entries)), id) = Upcoming(s, seen, id)
  <2>1. PICK x \in Seq(Entry) : x = f.entries
    BY <1>9 DEF Frames
  <2>2. Sets(f, id) <=> At(x, id) # {}
    BY <1>9, <2>1, Zenon DEF Sets, At
  <2>3. /\ At(x, id) = {} => Overwrite(seen, Accepted(x))[id] = seen[id]
        /\ At(x, id) # {} => Overwrite(seen, Accepted(x))[id] = Clamped(id, Overwrite(InitialLocal, x)[id])
    BY <1>9, <2>1, AppliedIs, Zenon
  <2> QED
    BY <1>5, <1>6, <1>7, <2>1, <2>2, <2>3, Zenon
<1> QED
  BY <1>2, <1>3, <1>8, <1>9, Zenon

\* One frame more.
LEMMA OneMore ==
  ASSUME NEW s \in Seq(Frames), NEW f \in Frames, NEW kind, f.kind = kind
  PROVE  s \o <<f>> \in Seq(Frames) /\ Count(s \o <<f>>, kind) = Count(s, kind) + 1
<1>1. s \o <<f>> \in Seq(Frames)
  OBVIOUS
<1>2. f.kind = kind => Count(s \o <<f>>, kind) = Count(s, kind) + 1
  BY CountsMore, Zenon
<1> QED
  BY <1>1, <1>2

\* A SETTINGS more.
LEMMA SettingsMore ==
  ASSUME NEW s \in Seq(Frames), NEW x \in Seq(Entry), NEW seen
  PROVE  \A id \in Ids :
           /\ At(x, id) = {} => Upcoming(s \o <<Settings(x)>>, seen, id) = Upcoming(s, seen, id)
           /\ At(x, id) # {} =>
                Upcoming(s \o <<Settings(x)>>, seen, id) = Clamped(id, Overwrite(InitialLocal, x)[id])
<1> TAKE id \in Ids
<1>1. At(x, id) = {} => Unmoved(s, s \o <<Settings(x)>>, seen, id)
  BY UpcomingMore, Zenon
<1>2. At(x, id) # {} => Says(s \o <<Settings(x)>>, seen, id, Settings(x))
  BY UpcomingMore, Zenon
<1>3. Settings(x).entries = x
  BY DEF Settings
<1> QED
  BY <1>1, <1>2, <1>3, Zenon DEF Unmoved, Says

-----------------------------------------------------------------------------
(***************************************************************************)
(* The states of an exchange, for an end that has sent out, has yet to     *)
(* read back, and whose peer goes by seen.                                 *)
(***************************************************************************)

\* What an end has sent when its _request_settings is request.
Sent(request, local) == IF request = <<>> THEN NonDefault(local) ELSE request

Quiet(out, back, pending, request, local, seen, begun) ==
  /\ ~pending /\ request = <<>>
  /\ None(out, "settings") /\ None(back, "ack")
  /\ seen = IF begun THEN ClampedAll(local) ELSE Defaults

Asked(out, back, pending, request, local, seen, begun) ==
  /\ pending /\ begun
  /\ Only(out, Settings(Sent(request, local))) /\ None(back, "ack")
  /\ seen = IF request = <<>> THEN Defaults ELSE ClampedAll(local)

Answered(out, back, pending, request, local, seen, begun) ==
  /\ pending /\ begun
  /\ None(out, "settings") /\ Only(back, Ack)
  /\ seen = ClampedAll(Overwrite(local, request))

RefusedBy(out, back, pending, refused, begun) ==
  /\ pending /\ begun
  /\ None(out, "settings") /\ None(back, "ack")
  /\ refused

Exchange(out, back, pending, request, local, seen, refused, begun) ==
  \/ Quiet(out, back, pending, request, local, seen, begun)
  \/ Asked(out, back, pending, request, local, seen, begun)
  \/ Answered(out, back, pending, request, local, seen, begun)
  \/ RefusedBy(out, back, pending, refused, begun)

\* A server that has sent a request before its initial SETTINGS.
Lags(out, back, pending, refused, begun) ==
  LET n == Count(out, "settings") + Count(back, "ack")
  IN  /\ n <= IF begun THEN 2 ELSE 1
      /\ n = 2 => pending
      /\ pending => n >= 1 \/ refused

Expected(local, request, begun, id) ==
  {Clamped(id, Overwrite(local, request)[id]),
   Clamped(id, IF begun THEN InitialLocal[id] ELSE Parameters[id].default)}

EarlyExchange(out, back, pending, request, local, seen, refused, begun) ==
  /\ ~pending => request = <<>>
  /\ ~begun => pending /\ local = InitialLocal
  /\ Lags(out, back, pending, refused, begun)
  /\ refused \/ \A id \in Ids : Upcoming(out, seen, id) \in Expected(local, request, begun, id)

Course(out, back, pending, request, local, seen, refused, begun, ahead) ==
  \/ ahead /\ EarlyExchange(out, back, pending, request, local, seen, refused, begun)
  \/ ~ahead /\ Exchange(out, back, pending, request, local, seen, refused, begun)

PingExchange(out, back, pending) ==
  \/ ~pending /\ None(out, "ping") /\ None(back, "pong")
  \/ pending /\ Only(out, Ping) /\ None(back, "pong")
  \/ pending /\ None(out, "ping") /\ Only(back, Pong)

\* The kinds of the frames.
LEMMA Kinds ==
  /\ Preface.kind = "preface" /\ Ack.kind = "ack" /\ Ping.kind = "ping" /\ Pong.kind = "pong"
  /\ GoAway.kind = "goaway" /\ \A e : Settings(e).kind = "settings" /\ Settings(e).entries = e
  /\ Preface \in Frames /\ Ack \in Frames /\ Ping \in Frames /\ Pong \in Frames /\ GoAway \in Frames
  /\ \A e \in Seq(Entry) : Settings(e) \in Frames
<1>1. /\ Preface.kind = "preface" /\ Ack.kind = "ack" /\ Ping.kind = "ping" /\ Pong.kind = "pong"
      /\ GoAway.kind = "goaway" /\ \A e : Settings(e).kind = "settings" /\ Settings(e).entries = e
  BY DEF Preface, Ack, Ping, Pong, GoAway, Settings
<1>2. Preface \in Frames /\ Ack \in Frames /\ Ping \in Frames /\ Pong \in Frames /\ GoAway \in Frames
  BY DEF Preface, Ack, Ping, Pong, GoAway, Frames
<1>3. \A e \in Seq(Entry) : Settings(e) \in Frames
  BY DEF Settings, Frames
<1> QED
  BY <1>1, <1>2, <1>3, Zenon

\* t has of a kind what s has.
Keeps(s, t, kind) ==
  /\ None(s, kind) => None(t, kind)
  /\ \A f : f.kind = kind /\ Only(s, f) => Only(t, f)
  /\ Count(t, kind) = Count(s, kind)
  /\ kind = "settings" => \A seen : \A id \in Ids : Upcoming(t, seen, id) = Upcoming(s, seen, id)

\* Frames of other kinds come and go.
LEMMA KeepsWhat ==
  ASSUME NEW s \in Seq(Frames), NEW kind
  PROVE  /\ Keeps(s, s, kind)
         /\ \A t \in Seq(Frames) : None(t, kind) => Keeps(s, s \o t, kind)
         /\ s # <<>> /\ Head(s).kind # kind => Keeps(s, Tail(s), kind)
<1>1. Keeps(s, s, kind)
  BY Zenon DEF Keeps
<1>2. ASSUME NEW t \in Seq(Frames), None(t, kind) PROVE Keeps(s, s \o t, kind)
  <2>1. None(s, kind) => None(s \o t, kind)
    BY <1>2, Grow
  <2>2. ASSUME NEW f, f.kind = kind, Only(s, f) PROVE Only(s \o t, f)
    <3>1. None(t, f.kind)
      BY <1>2, <2>2, Zenon
    <3> QED
      BY <2>2, <3>1, Grow
  <2>3. Count(s \o t, kind) = Count(s, kind)
    BY <1>2, Kinds, CountsMore, Zenon
  <2>4. ASSUME kind = "settings", NEW seen, NEW id \in Ids PROVE Upcoming(s \o t, seen, id) = Upcoming(s, seen, id)
    <3>1. PICK x \in Seq(Entry) : x = <<>>
      <4>1. <<>> \in Seq(Entry)
        OBVIOUS
      <4> QED
        BY <4>1, Zenon
    <3>2. Unmoved(s, s \o t, seen, id)
      BY <1>2, <2>4, <3>1, UpcomingMore, Zenon
    <3> QED
      BY <3>2, Zenon DEF Unmoved
  <2> QED
    BY <2>1, <2>2, <2>3, <2>4, Zenon DEF Keeps
<1>3. ASSUME s # <<>>, Head(s).kind # kind PROVE Keeps(s, Tail(s), kind)
  <2>1. None(s, kind) => None(Tail(s), kind)
    BY <1>3, Shrink
  <2>2. ASSUME NEW f, f.kind = kind, Only(s, f) PROVE Only(Tail(s), f)
    <3>1. Head(s).kind # f.kind
      BY <1>3, <2>2, Zenon
    <3> QED
      BY <1>3, <2>2, <3>1, Shrink
  <2>3. Count(Tail(s), kind) = Count(s, kind)
    BY <1>3, CountsLess, Zenon
  <2>4. ASSUME kind = "settings", NEW seen, NEW id \in Ids PROVE Upcoming(Tail(s), seen, id) = Upcoming(s, seen, id)
    BY <1>3, <2>4, UpcomingLess, Zenon
  <2> QED
    BY <2>1, <2>2, <2>3, <2>4, Zenon DEF Keeps
<1> QED
  BY <1>1, <1>2, <1>3, Zenon

\* Frames of other kinds do not touch an exchange.
LEMMA ExchangeKeeps ==
  ASSUME NEW out, NEW back, NEW out2, NEW back2, NEW pending, NEW request, NEW local, NEW seen,
         NEW refused, NEW begun, Keeps(out, out2, "settings"), Keeps(back, back2, "ack"),
         Exchange(out, back, pending, request, local, seen, refused, begun)
  PROVE  Exchange(out2, back2, pending, request, local, seen, refused, begun)
<1>1. /\ None(out, "settings") => None(out2, "settings")
      /\ None(back, "ack") => None(back2, "ack")
      /\ Only(back, Ack) => Only(back2, Ack)
      /\ \A e : Only(out, Settings(e)) => Only(out2, Settings(e))
  BY Kinds, Zenon DEF Keeps
<1> QED
  BY <1>1, Zenon DEF Exchange, Quiet, Asked, Answered, RefusedBy

\* Nor do they touch an exchange of PINGs.
LEMMA PingKeeps ==
  ASSUME NEW out, NEW back, NEW out2, NEW back2, NEW pending,
         Keeps(out, out2, "ping"), Keeps(back, back2, "pong"), PingExchange(out, back, pending)
  PROVE  PingExchange(out2, back2, pending)
<1>1. /\ None(out, "ping") => None(out2, "ping")
      /\ None(back, "pong") => None(back2, "pong")
      /\ Only(back, Pong) => Only(back2, Pong)
      /\ Only(out, Ping) => Only(out2, Ping)
  BY Kinds, Zenon DEF Keeps
<1> QED
  BY <1>1, Zenon DEF PingExchange

\* send_settings puts a request under way.
LEMMA ExchangeAsks ==
  ASSUME NEW out \in Seq(Frames), NEW back, NEW local, NEW seen, NEW refused, NEW old, NEW request,
         request \in Seq(Entry), request # <<>>,
         Exchange(out, back, FALSE, old, local, seen, refused, TRUE)
  PROVE  Exchange(out \o <<Settings(request)>>, back, TRUE, request, local, seen, refused, TRUE)
<1>1. None(out, "settings") /\ None(back, "ack") /\ seen = ClampedAll(local)
  BY Zenon DEF Exchange, Quiet, Asked, Answered, RefusedBy
<1>2. PICK t \in Seq(Frames) : t = <<Settings(request)>>
  <2>1. Settings(request) \in Frames
    BY Kinds, Zenon
  <2>2. <<Settings(request)>> \in Seq(Frames)
    BY <2>1
  <2> QED
    BY <2>2, Zenon
<1>3. Only(t, Settings(request)) /\ None(out, Settings(request).kind)
  BY <1>1, <1>2, Kinds, Single, Zenon
<1>4. Only(out \o t, Settings(request))
  BY <1>3, Grow
<1> QED
  BY <1>1, <1>2, <1>4, Zenon DEF Exchange, Asked, Sent

\* So do the initial SETTINGS.
LEMMA ExchangeBegins ==
  ASSUME NEW out \in Seq(Frames), NEW back, NEW local, NEW seen, NEW refused, NEW pending, NEW request,
         NEW t \in Seq(Frames), Only(t, Settings(NonDefault(local))),
         Exchange(out, back, pending, request, local, seen, refused, FALSE)
  PROVE  /\ Exchange(out \o t, back, TRUE, request, local, seen, refused, TRUE)
         /\ ~pending /\ request = <<>>
<1>1. None(out, "settings") /\ None(back, "ack") /\ seen = Defaults /\ ~pending /\ request = <<>>
  BY Zenon DEF Exchange, Quiet, Asked, Answered, RefusedBy
<1>2. None(out, Settings(NonDefault(local)).kind)
  BY <1>1, Kinds, Zenon
<1>3. Only(out \o t, Settings(NonDefault(local)))
  BY <1>2, Grow
<1> QED
  BY <1>1, <1>3, Zenon DEF Exchange, Asked, Sent

\* A SETTINGS in front is the one that was asked for, and the only one.
LEMMA ExchangeHead ==
  ASSUME NEW out \in Seq(Frames), NEW back, NEW pending, NEW request, NEW local, NEW seen, NEW refused,
         NEW begun, out # <<>>, Head(out).kind = "settings",
         Exchange(out, back, pending, request, local, seen, refused, begun)
  PROVE  /\ Asked(out, back, pending, request, local, seen, begun)
         /\ Head(out) = Settings(Sent(request, local)) /\ None(Tail(out), "settings")
<1>1. ~None(out, "settings")
  BY Shrink
<1>2. Asked(out, back, pending, request, local, seen, begun)
  BY <1>1, Zenon DEF Exchange, Quiet, Answered, RefusedBy
<1>3. PICK f : f = Settings(Sent(request, local)) /\ f.kind = "settings" /\ Only(out, f)
  BY <1>2, Kinds, Zenon DEF Asked
<1>4. Head(out) = f /\ None(Tail(out), f.kind)
  BY <1>3, Shrink
<1> QED
  BY <1>2, <1>3, <1>4, Zenon

\* received_settings applies the request and acknowledges it.
LEMMA ExchangeApplies ==
  ASSUME NEW out \in Seq(Frames), NEW back \in Seq(Frames), NEW pending, NEW request \in Seq(Entry),
         NEW local \in [Ids -> Int], NEW seen, NEW refused, NEW begun,
         out # <<>>, Head(out).kind = "settings",
         \A i \in DOMAIN Head(out).entries : ~Refused(Head(out).entries[i]),
         Exchange(out, back, pending, request, local, seen, refused, begun)
  PROVE  Exchange(Tail(out), back \o <<Ack>>, pending, request, local,
                  Overwrite(seen, Accepted(Head(out).entries)), refused, begun)
<1>1. /\ Asked(out, back, pending, request, local, seen, begun)
      /\ Head(out) = Settings(Sent(request, local)) /\ None(Tail(out), "settings")
  BY ExchangeHead, Zenon
<1>2. Head(out).entries = Sent(request, local)
  BY <1>1, Kinds, Zenon
<1>3. PICK t \in Seq(Frames) : t = <<Ack>>
  <2>1. <<Ack>> \in Seq(Frames)
    BY Kinds
  <2> QED
    BY <2>1, Zenon
<1>4. Only(t, Ack) /\ None(back, Ack.kind)
  BY <1>1, <1>3, Kinds, Single, Zenon DEF Asked
<1>5. Only(back \o t, Ack)
  BY <1>4, Grow
<1>6. Overwrite(seen, Accepted(Sent(request, local))) = ClampedAll(Overwrite(local, request))
  <2>1. CASE request = <<>>
    <3>1. PICK n \in Seq(Entry) : n = NonDefault(local) /\ Overwrite(Defaults, n) = local
      BY InitialIs, Zenon
    <3>2. Sent(request, local) = n /\ seen = Defaults
      BY <1>1, <2>1, <3>1, Zenon DEF Sent, Asked
    <3>3. PICK d \in [Ids -> Int] : d = Defaults /\ ClampedAll(d) = d
      BY DefaultsClamped, Zenon
    <3>4. \A i \in DOMAIN n : ~Refused(n[i])
      BY <1>2, <3>2, Zenon
    <3>5. Overwrite(ClampedAll(d), Accepted(n)) = ClampedAll(Overwrite(d, n))
      BY <3>4, ClampCommutes, Zenon
    <3>6. Overwrite(local, request) = local
      BY <2>1, OverwriteNothing, Zenon
    <3> QED
      BY <3>1, <3>2, <3>3, <3>5, <3>6, Zenon
  <2>2. CASE request # <<>>
    <3>1. Sent(request, local) = request /\ seen = ClampedAll(local)
      BY <1>1, <2>2, Zenon DEF Sent, Asked
    <3>2. \A i \in DOMAIN request : ~Refused(request[i])
      BY <1>2, <3>1, Zenon
    <3>3. Overwrite(ClampedAll(local), Accepted(request)) = ClampedAll(Overwrite(local, request))
      BY <3>2, ClampCommutes, Zenon
    <3> QED
      BY <3>1, <3>3, Zenon
  <2> QED
    BY <2>1, <2>2, Zenon
<1>7. pending /\ begun
  BY <1>1, Zenon DEF Asked
<1>8. Answered(Tail(out), back \o <<Ack>>, pending, request, local,
               Overwrite(seen, Accepted(Head(out).entries)), begun)
  BY <1>1, <1>2, <1>3, <1>5, <1>6, <1>7, Zenon DEF Answered
<1> QED
  BY <1>8, Zenon DEF Exchange

\* received_settings refuses the request: nothing of it is under way any more.
LEMMA ExchangeRefused ==
  ASSUME NEW out \in Seq(Frames), NEW back \in Seq(Frames), NEW pending, NEW request, NEW local,
         NEW seen, NEW seen2, NEW refused, NEW begun, NEW t \in Seq(Frames), None(t, "ack"),
         out # <<>>, Head(out).kind = "settings",
         Exchange(out, back, pending, request, local, seen, refused, begun)
  PROVE  Exchange(Tail(out), back \o t, pending, request, local, seen2, TRUE, begun)
<1>1. /\ Asked(out, back, pending, request, local, seen, begun)
      /\ None(Tail(out), "settings")
  BY ExchangeHead, Zenon
<1>2. None(back, "ack") /\ pending /\ begun
  BY <1>1, Zenon DEF Asked
<1>3. None(back \o t, "ack")
  BY <1>2, Grow
<1> QED
  BY <1>1, <1>2, <1>3, Zenon DEF Exchange, RefusedBy

\* received_settings with ACK puts the request into force.
LEMMA ExchangeAcked ==
  ASSUME NEW out \in Seq(Frames), NEW back \in Seq(Frames), NEW pending, NEW request, NEW local,
         NEW seen, NEW refused, NEW begun,
         back # <<>>, Head(back).kind = "ack",
         Exchange(out, back, pending, request, local, seen, refused, begun)
  PROVE  Exchange(out, Tail(back), FALSE, <<>>, Overwrite(local, request), seen, refused, begun)
<1>1. ~None(back, "ack")
  BY Shrink
<1>2. Answered(out, back, pending, request, local, seen, begun)
  BY <1>1, Zenon DEF Exchange, Quiet, Asked, RefusedBy
<1>3. begun /\ None(out, "settings") /\ Only(back, Ack) /\ seen = ClampedAll(Overwrite(local, request))
  BY <1>2, Zenon DEF Answered
<1>4. Head(back).kind = Ack.kind /\ Ack.kind = "ack"
  BY Kinds, Zenon
<1>5. None(Tail(back), Ack.kind)
  BY <1>3, <1>4, Shrink
<1> QED
  BY <1>3, <1>4, <1>5, Zenon DEF Exchange, Quiet

\* SendPing puts a PING under way, received_ping answers it, and with the answer
\* nothing is pending.
LEMMA PingMoves ==
  ASSUME NEW out \in Seq(Frames), NEW back \in Seq(Frames), NEW pending,
         PingExchange(out, back, pending)
  PROVE  /\ ~pending => PingExchange(out \o <<Ping>>, back, TRUE)
         /\ out # <<>> /\ Head(out).kind = "ping" => PingExchange(Tail(out), back \o <<Pong>>, pending)
         /\ back # <<>> /\ Head(back).kind = "pong" => PingExchange(out, Tail(back), FALSE)
<1>1. PICK t \in Seq(Frames), u \in Seq(Frames) : t = <<Ping>> /\ u = <<Pong>>
  <2>1. <<Ping>> \in Seq(Frames) /\ <<Pong>> \in Seq(Frames)
    BY Kinds
  <2> QED
    BY <2>1, Zenon
<1>2. Only(t, Ping) /\ Only(u, Pong) /\ Ping.kind = "ping" /\ Pong.kind = "pong"
  BY <1>1, Kinds, Single, Zenon
<1>3. ASSUME ~pending PROVE PingExchange(out \o <<Ping>>, back, TRUE)
  <2>1. None(out, Ping.kind) /\ None(back, "pong")
    BY <1>2, <1>3, Zenon DEF PingExchange
  <2>2. Only(out \o t, Ping)
    BY <1>2, <2>1, Grow
  <2> QED
    BY <1>1, <2>1, <2>2, Zenon DEF PingExchange
<1>4. ASSUME out # <<>>, Head(out).kind = "ping" PROVE PingExchange(Tail(out), back \o <<Pong>>, pending)
  <2>1. ~None(out, "ping")
    BY <1>4, Shrink
  <2>2. pending /\ Only(out, Ping) /\ None(back, Pong.kind) /\ Head(out).kind = Ping.kind
    BY <1>2, <1>4, <2>1, Zenon DEF PingExchange
  <2>3. None(Tail(out), Ping.kind)
    BY <1>4, <2>2, Shrink
  <2>4. Only(back \o u, Pong)
    BY <1>2, <2>2, Grow
  <2> QED
    BY <1>1, <1>2, <2>2, <2>3, <2>4, Zenon DEF PingExchange
<1>5. ASSUME back # <<>>, Head(back).kind = "pong" PROVE PingExchange(out, Tail(back), FALSE)
  <2>1. ~None(back, "pong")
    BY <1>5, Shrink
  <2>2. None(out, "ping") /\ Only(back, Pong) /\ Head(back).kind = Pong.kind
    BY <1>2, <1>5, <2>1, Zenon DEF PingExchange
  <2>3. None(Tail(back), Pong.kind)
    BY <1>5, <2>2, Shrink
  <2> QED
    BY <1>2, <2>2, <2>3, Zenon DEF PingExchange
<1> QED
  BY <1>3, <1>4, <1>5, Zenon

-----------------------------------------------------------------------------
(***************************************************************************)
(* The same moves when a request has gone out before the initial SETTINGS. *)
(***************************************************************************)

\* Frames of other kinds do not touch the exchange.
LEMMA CourseKeeps ==
  ASSUME NEW out, NEW back, NEW out2, NEW back2, NEW pending, NEW request, NEW local, NEW seen,
         NEW refused, NEW begun, NEW ahead, Keeps(out, out2, "settings"), Keeps(back, back2, "ack"),
         Course(out, back, pending, request, local, seen, refused, begun, ahead)
  PROVE  Course(out2, back2, pending, request, local, seen, refused, begun, ahead)
<1>1. CASE ~ahead
  BY <1>1, ExchangeKeeps, Zenon DEF Course
<1>2. CASE ahead
  <2>1. EarlyExchange(out, back, pending, request, local, seen, refused, begun)
    BY <1>2, Zenon DEF Course
  <2>2. Count(out2, "settings") = Count(out, "settings") /\ Count(back2, "ack") = Count(back, "ack")
        /\ \A id \in Ids : Upcoming(out2, seen, id) = Upcoming(out, seen, id)
    BY Zenon DEF Keeps
  <2>3. Lags(out2, back2, pending, refused, begun)
    BY <2>1, <2>2, Zenon DEF EarlyExchange, Lags
  <2>4. refused \/ \A id \in Ids : Upcoming(out2, seen, id) \in Expected(local, request, begun, id)
    BY <2>1, <2>2, Zenon DEF EarlyExchange
  <2> QED
    BY <1>2, <2>1, <2>3, <2>4, Zenon DEF EarlyExchange, Course
<1> QED
  BY <1>1, <1>2

\* The numbers that Lags is about.
LEMMA LagsIs ==
  ASSUME NEW out \in Seq(Frames), NEW back \in Seq(Frames), NEW pending, NEW refused, NEW begun
  PROVE  /\ Count(out, "settings") \in Nat /\ Count(back, "ack") \in Nat
         /\ \A n \in Nat : n = Count(out, "settings") + Count(back, "ack") =>
              (Lags(out, back, pending, refused, begun) <=>
                 /\ n <= IF begun THEN 2 ELSE 1
                 /\ n = 2 => pending
                 /\ pending => n >= 1 \/ refused)
<1>1. Count(out, "settings") \in Nat /\ Count(back, "ack") \in Nat
  BY Kinds, CountsMore, Zenon
<1> QED
  BY <1>1, Zenon DEF Lags

\* send_settings, before the initial SETTINGS and after them.
LEMMA CourseAsks ==
  ASSUME NEW out \in Seq(Frames), NEW back \in Seq(Frames), NEW local \in [Ids -> Int], NEW seen,
         NEW refused, NEW old, NEW request \in Seq(Entry), request # <<>>,
         NEW begun \in BOOLEAN, NEW ahead \in BOOLEAN, begun \/ local = InitialLocal,
         Course(out, back, FALSE, old, local, seen, refused, begun, ahead)
  PROVE  Course(out \o <<Settings(request)>>, back, TRUE, request, local, seen, refused, begun,
                ahead \/ ~begun)
<1> DEFINE out2 == out \o <<Settings(request)>>
<1>1. Settings(request) \in Frames /\ Settings(request).kind = "settings"
  BY Kinds, Zenon
<1>2. out2 \in Seq(Frames) /\ Count(out2, "settings") = Count(out, "settings") + 1
  BY <1>1, OneMore, Zenon
<1>3. \A id \in Ids :
        /\ At(request, id) = {} => Upcoming(out2, seen, id) = Upcoming(out, seen, id)
        /\ At(request, id) # {} => Upcoming(out2, seen, id) = Clamped(id, Overwrite(InitialLocal, request)[id])
  BY SettingsMore, Zenon
<1>4. InitialLocal \in [Ids -> Int]
  BY Table
<1>5. \A id \in Ids :
        /\ At(request, id) = {} => Overwrite(local, request)[id] = local[id]
        /\ At(request, id) # {} => Overwrite(local, request)[id] = Overwrite(InitialLocal, request)[id]
  <2>1. \A id \in Ids :
          /\ At(request, id) = {} => Overwrite(local, request)[id] = local[id]
          /\ At(request, id) # {} => Overwrite(local, request)[id] = request[Max(At(request, id))].value
    BY OverwriteIs, ZenonT(60)
  <2>2. \A id \in Ids :
          At(request, id) # {} => Overwrite(InitialLocal, request)[id] = request[Max(At(request, id))].value
    BY <1>4, OverwriteIs, ZenonT(60)
  <2> QED
    BY <2>1, <2>2, Zenon
<1> HIDE DEF out2
<1>6. CASE begun /\ ~ahead
  <2>1. begun = TRUE /\ (ahead \/ ~begun) = FALSE
    BY <1>6, Zenon
  <2>2. Exchange(out, back, FALSE, old, local, seen, refused, TRUE)
    BY <1>6, <2>1, Zenon DEF Course
  <2>3. Exchange(out2, back, TRUE, request, local, seen, refused, TRUE)
    BY <2>2, ExchangeAsks, Zenon DEF out2
  <2> QED
    BY <2>1, <2>3, Zenon DEF Course, out2
<1>7. CASE ahead
  <2>1. EarlyExchange(out, back, FALSE, old, local, seen, refused, begun)
    BY <1>7, Zenon DEF Course
  <2>2. begun /\ old = <<>>
    BY <2>1, Zenon DEF EarlyExchange
  <2>3. PICK m \in Nat : m = Count(out, "settings") + Count(back, "ack")
    <3>1. Count(out, "settings") \in Nat /\ Count(back, "ack") \in Nat
      BY LagsIs, Zenon
    <3> QED
      BY <3>1
  <2>4. m <= 2 /\ m # 2
    BY <2>1, <2>2, <2>3, LagsIs, Zenon DEF EarlyExchange
  <2>5. PICK n \in Nat : n = m + 1 /\ n = Count(out2, "settings") + Count(back, "ack")
    <3>1. Count(out, "settings") \in Nat /\ Count(back, "ack") \in Nat
      BY LagsIs, Zenon
    <3>2. m + 1 \in Nat /\ m + 1 = Count(out2, "settings") + Count(back, "ack")
      BY <1>2, <2>3, <3>1
    <3> QED
      BY <3>2, Zenon
  <2>6. n <= 2 /\ n >= 1
    BY <2>4, <2>5
  <2>7. Lags(out2, back, TRUE, refused, begun)
    BY <1>2, <2>2, <2>5, <2>6, LagsIs, Zenon
  <2>8. ASSUME ~refused, NEW id \in Ids PROVE Upcoming(out2, seen, id) \in Expected(local, request, begun, id)
    <3>1. CASE At(request, id) # {}
      BY <1>3, <1>5, <3>1, Zenon DEF Expected
    <3>2. CASE At(request, id) = {}
      <4>1. Upcoming(out, seen, id) \in Expected(local, old, begun, id)
        BY <2>1, <2>8, Zenon DEF EarlyExchange
      <4>2. Overwrite(local, old) = local
        BY <2>2, OverwriteNothing, Zenon
      <4> QED
        BY <1>3, <1>5, <3>2, <4>1, <4>2, Zenon DEF Expected
    <3> QED
      BY <3>1, <3>2
  <2>9. EarlyExchange(out2, back, TRUE, request, local, seen, refused, begun)
    BY <2>2, <2>7, <2>8, Zenon DEF EarlyExchange
  <2>10. (ahead \/ ~begun) = TRUE
    BY <1>7, Zenon
  <2> QED
    BY <2>9, <2>10, Zenon DEF Course, out2
<1>8. CASE ~begun /\ ~ahead
  <2>1. Exchange(out, back, FALSE, old, local, seen, refused, begun)
    BY <1>8, Zenon DEF Course
  <2>2. None(out, "settings") /\ None(back, "ack") /\ seen = Defaults
    BY <1>8, <2>1, Zenon DEF Exchange, Quiet, Asked, Answered, RefusedBy
  <2>3. Count(out, "settings") = 0 /\ Count(back, "ack") = 0
    BY <2>2, Counts, Zenon
  <2>4. PICK n \in Nat : n = 1 /\ n = Count(out2, "settings") + Count(back, "ack")
    <3>1. 1 \in Nat /\ Count(out2, "settings") + Count(back, "ack") = 1
      BY <1>2, <2>3
    <3> QED
      BY <3>1, Zenon
  <2>5. n <= 1 /\ n # 2 /\ n >= 1
    BY <2>4
  <2>6. Lags(out2, back, TRUE, refused, begun)
    BY <1>2, <1>8, <2>4, <2>5, LagsIs, Zenon
  <2>7. ASSUME NEW id \in Ids PROVE Upcoming(out2, seen, id) \in Expected(local, request, begun, id)
    <3>1. CASE At(request, id) # {}
      BY <1>3, <1>5, <3>1, Zenon DEF Expected
    <3>2. CASE At(request, id) = {}
      <4>1. \A i \in 1..Len(out) : ~Sets(out[i], id)
        BY <2>2, Zenon DEF None, Sets
      <4>2. Upcoming(out, seen, id) = seen[id]
        BY <4>1, UpcomingIs, Zenon
      <4>3. seen[id] = Parameters[id].default /\ Clamped(id, Parameters[id].default) = Parameters[id].default
        BY <2>2, ClampedIs, Zenon DEF Defaults
      <4> QED
        BY <1>3, <1>8, <3>2, <4>2, <4>3, Zenon DEF Expected
    <3> QED
      BY <3>1, <3>2
  <2>8. local = InitialLocal
    BY <1>8, Zenon
  <2>9. EarlyExchange(out2, back, TRUE, request, local, seen, refused, begun)
    BY <2>6, <2>7, <2>8, Zenon DEF EarlyExchange
  <2>10. (ahead \/ ~begun) = TRUE
    BY <1>8, Zenon
  <2> QED
    BY <2>9, <2>10, Zenon DEF Course, out2
<1> QED
  BY <1>6, <1>7, <1>8, Zenon

\* The initial SETTINGS of a server.
LEMMA CourseBegins ==
  ASSUME NEW out \in Seq(Frames), NEW back \in Seq(Frames), NEW local \in [Ids -> Int], NEW seen,
         NEW refused, NEW pending, NEW request, NEW ahead,
         Course(out, back, pending, request, local, seen, refused, FALSE, ahead)
  PROVE  Course(out \o <<Settings(NonDefault(local))>>, back, TRUE, request, local, seen, refused, TRUE, ahead)
<1>1. PICK x \in Seq(Entry) : x = NonDefault(local) /\ Overwrite(Defaults, x) = local
  BY InitialIs, Zenon
<1>2. PICK t \in Seq(Frames) : t = <<Settings(x)>>
  <2>1. Settings(x) \in Frames
    BY Kinds, Zenon
  <2>2. <<Settings(x)>> \in Seq(Frames)
    BY <2>1
  <2> QED
    BY <2>2, Zenon
<1>3. CASE ~ahead
  <2>1. Only(t, Settings(NonDefault(local)))
    BY <1>1, <1>2, Single, Zenon
  <2>2. Exchange(out \o t, back, TRUE, request, local, seen, refused, TRUE)
    BY <1>3, <2>1, ExchangeBegins, Zenon DEF Course
  <2> QED
    BY <1>1, <1>2, <1>3, <2>2, Zenon DEF Course
<1>4. CASE ahead
  <2> DEFINE out2 == out \o <<Settings(x)>>
  <2>1. EarlyExchange(out, back, pending, request, local, seen, refused, FALSE)
    BY <1>4, Zenon DEF Course
  <2>2. local = InitialLocal
    BY <2>1, Zenon DEF EarlyExchange
  <2>3. out2 \in Seq(Frames) /\ Count(out2, "settings") = Count(out, "settings") + 1
    <3>1. Settings(x) \in Frames /\ Settings(x).kind = "settings"
      BY Kinds, Zenon
    <3> QED
      BY <3>1, OneMore, Zenon
  <2>4. \A id \in Ids :
          /\ At(x, id) = {} => Upcoming(out2, seen, id) = Upcoming(out, seen, id)
          /\ At(x, id) # {} => Upcoming(out2, seen, id) = Clamped(id, Overwrite(InitialLocal, x)[id])
    BY SettingsMore, Zenon
  <2>5. ASSUME NEW id \in Ids
        PROVE  /\ At(x, id) = {} => InitialLocal[id] = Parameters[id].default
               /\ At(x, id) # {} => Overwrite(InitialLocal, x)[id] = InitialLocal[id]
    <3>1. Defaults \in [Ids -> Int] /\ InitialLocal \in [Ids -> Int]
      BY DefaultsClamped, Table
    <3>2. /\ At(x, id) = {} => Overwrite(Defaults, x)[id] = Defaults[id]
          /\ At(x, id) # {} => Overwrite(Defaults, x)[id] = x[Max(At(x, id))].value
      BY <3>1, OverwriteIs, ZenonT(60)
    <3>3. At(x, id) # {} => Overwrite(InitialLocal, x)[id] = x[Max(At(x, id))].value
      BY <3>1, OverwriteIs, ZenonT(60)
    <3>4. Defaults[id] = Parameters[id].default
      BY Zenon DEF Defaults
    <3> QED
      BY <1>1, <2>2, <3>2, <3>3, <3>4, Zenon
  <2> HIDE DEF out2
  <2>6. PICK m \in Nat : m = Count(out, "settings") + Count(back, "ack")
    <3>1. Count(out, "settings") \in Nat /\ Count(back, "ack") \in Nat
      BY LagsIs, Zenon
    <3> QED
      BY <3>1
  <2>7. m <= 1
    <3>1. m <= IF FALSE THEN 2 ELSE 1
      BY <2>1, <2>6, Zenon DEF EarlyExchange, Lags
    <3> QED
      BY <3>1
  <2>8. PICK n \in Nat : n = m + 1 /\ n = Count(out2, "settings") + Count(back, "ack")
    <3>1. Count(out, "settings") \in Nat /\ Count(back, "ack") \in Nat
      BY LagsIs, Zenon
    <3>2. m + 1 \in Nat /\ m + 1 = Count(out2, "settings") + Count(back, "ack")
      BY <2>3, <2>6, <3>1
    <3> QED
      BY <3>2, Zenon
  <2>9. n <= 2 /\ n >= 1
    BY <2>7, <2>8
  <2>10. Lags(out2, back, TRUE, refused, TRUE)
    BY <2>3, <2>8, <2>9, LagsIs, Zenon
  <2>11. ASSUME ~refused, NEW id \in Ids PROVE Upcoming(out2, seen, id) \in Expected(local, request, TRUE, id)
    <3>1. CASE At(x, id) # {}
      BY <2>4, <2>5, <3>1, Zenon DEF Expected
    <3>2. CASE At(x, id) = {}
      <4>1. Upcoming(out, seen, id) \in Expected(local, request, FALSE, id)
        BY <2>1, <2>11, Zenon DEF EarlyExchange
      <4> QED
        BY <2>4, <2>5, <3>2, <4>1, Zenon DEF Expected
    <3> QED
      BY <3>1, <3>2
  <2>12. EarlyExchange(out2, back, TRUE, request, local, seen, refused, TRUE)
    BY <2>10, <2>11, Zenon DEF EarlyExchange
  <2> QED
    BY <1>1, <1>4, <2>12, Zenon DEF Course, out2
<1> QED
  BY <1>3, <1>4

\* The frame that counts is taken off, and its answer may be sent.
LEMMA LagsMoves ==
  ASSUME NEW out \in Seq(Frames), NEW back \in Seq(Frames), NEW pending, NEW refused, NEW begun,
         Lags(out, back, pending, refused, begun)
  PROVE  /\ \A t \in Seq(Frames) :
              out # <<>> /\ Head(out).kind = "settings" /\ None(t, "ack") => Lags(Tail(out), back \o t, pending, TRUE, begun)
         /\ out # <<>> /\ Head(out).kind = "settings" => Lags(Tail(out), back \o <<Ack>>, pending, refused, begun)
         /\ begun /\ back # <<>> /\ Head(back).kind = "ack" => Lags(out, Tail(back), FALSE, refused, begun)
<1>1. PICK a \in Nat, b \in Nat : a = Count(out, "settings") /\ b = Count(back, "ack")
  BY LagsIs, Zenon
<1>2. PICK m \in Nat : m = a + b
  BY <1>1
<1>3. (m <= IF begun THEN 2 ELSE 1) /\ (m = 2 => pending) /\ (pending => m >= 1 \/ refused)
  BY <1>1, <1>2, Zenon DEF Lags
<1>5. ASSUME NEW t \in Seq(Frames), out # <<>>, Head(out).kind = "settings", None(t, "ack")
      PROVE  Lags(Tail(out), back \o t, pending, TRUE, begun)
  <2>1. PICK o \in Seq(Frames), k \in Seq(Frames) : o = Tail(out) /\ k = back \o t
    BY <1>5, Shrink, ConcatAt, Zenon
  <2>2. Count(o, "settings") = a - 1 /\ Count(k, "ack") = b
    <3>1. Count(o, "settings") = a - 1
      BY <1>1, <1>5, <2>1, CountsLess, Zenon
    <3>2. Count(k, "ack") = b
      <4>1. Count(back \o t, "ack") = Count(back, "ack")
        BY <1>5, KeepsWhat, Zenon DEF Keeps
      <4> QED
        BY <1>1, <2>1, <4>1
    <3> QED
      BY <3>1, <3>2
  <2>3. Count(o, "settings") \in Nat
    BY <2>1, LagsIs, Zenon
  <2>4. PICK n \in Nat : n = m - 1 /\ n = Count(o, "settings") + Count(k, "ack")
    <3>1. a - 1 \in Nat
      BY <2>2, <2>3, Zenon
    <3>2. m - 1 \in Nat /\ m - 1 = (a - 1) + b
      BY <1>2, <3>1
    <3>3. m - 1 \in Nat /\ m - 1 = Count(o, "settings") + Count(k, "ack")
      BY <2>2, <3>2, Zenon
    <3> QED
      BY <3>3, Zenon
  <2>5. n <= 1 /\ n # 2 /\ (begun => n <= 2)
    BY <1>3, <2>4
  <2>6. n <= IF begun THEN 2 ELSE 1
    BY <2>5, Zenon
  <2> QED
    BY <2>1, <2>4, <2>5, <2>6, LagsIs, Zenon
<1>6. ASSUME out # <<>>, Head(out).kind = "settings" PROVE Lags(Tail(out), back \o <<Ack>>, pending, refused, begun)
  <2>1. PICK o \in Seq(Frames), k \in Seq(Frames) : o = Tail(out) /\ k = back \o <<Ack>>
    <3>1. back \o <<Ack>> \in Seq(Frames)
      BY Kinds
    <3> QED
      BY <1>6, <3>1, Shrink, Zenon
  <2>2. Count(o, "settings") = a - 1 /\ Count(k, "ack") = b + 1
    <3>1. Count(o, "settings") = a - 1
      BY <1>1, <1>6, <2>1, CountsLess, Zenon
    <3>2. Count(k, "ack") = b + 1
      <4>1. Ack \in Frames /\ Ack.kind = "ack"
        BY Kinds
      <4>2. Count(back \o <<Ack>>, "ack") = Count(back, "ack") + 1
        BY <4>1, OneMore, Zenon
      <4> QED
        BY <1>1, <2>1, <4>2
    <3> QED
      BY <3>1, <3>2
  <2>3. m = Count(o, "settings") + Count(k, "ack")
    BY <1>1, <1>2, <2>2
  <2>4. Lags(o, k, pending, refused, begun)
    BY <1>3, <2>3, Zenon DEF Lags
  <2> QED
    BY <2>1, <2>4, Zenon
<1>7. ASSUME begun, back # <<>>, Head(back).kind = "ack" PROVE Lags(out, Tail(back), FALSE, refused, begun)
  <2>1. PICK k \in Seq(Frames) : k = Tail(back)
    BY <1>7, Shrink, Zenon
  <2>2. Count(k, "ack") = b - 1
    BY <1>1, <1>7, <2>1, CountsLess, Zenon
  <2>3. Count(k, "ack") \in Nat
    BY <2>1, LagsIs, Zenon
  <2>4. PICK n \in Nat : n = m - 1 /\ n = Count(out, "settings") + Count(k, "ack")
    <3>1. b - 1 \in Nat
      BY <2>2, <2>3, Zenon
    <3>2. m - 1 \in Nat /\ m - 1 = a + (b - 1)
      BY <1>2, <3>1
    <3>3. m - 1 \in Nat /\ m - 1 = Count(out, "settings") + Count(k, "ack")
      BY <1>1, <2>2, <3>2, Zenon
    <3> QED
      BY <3>3, Zenon
  <2>5. n <= 2 /\ n # 2
    BY <1>3, <1>7, <2>4
  <2> QED
    BY <1>7, <2>1, <2>4, <2>5, LagsIs, Zenon
<1> QED
  BY <1>5, <1>6, <1>7, Zenon

\* received_settings applies and acknowledges.
LEMMA CourseApplies ==
  ASSUME NEW out \in Seq(Frames), NEW back \in Seq(Frames), NEW pending, NEW request \in Seq(Entry),
         NEW local \in [Ids -> Int], NEW seen \in [Ids -> Int], NEW refused, NEW begun, NEW ahead,
         out # <<>>, Head(out).kind = "settings",
         \A i \in DOMAIN Head(out).entries : ~Refused(Head(out).entries[i]),
         Course(out, back, pending, request, local, seen, refused, begun, ahead)
  PROVE  Course(Tail(out), back \o <<Ack>>, pending, request, local,
                Overwrite(seen, Accepted(Head(out).entries)), refused, begun, ahead)
<1>1. CASE ~ahead
  BY <1>1, ExchangeApplies, Zenon DEF Course
<1>2. CASE ahead
  <2>1. EarlyExchange(out, back, pending, request, local, seen, refused, begun)
    BY <1>2, Zenon DEF Course
  <2>2. Lags(Tail(out), back \o <<Ack>>, pending, refused, begun)
    BY <2>1, LagsMoves, Zenon DEF EarlyExchange
  <2>3. \A id \in Ids : Upcoming(Tail(out), Overwrite(seen, Accepted(Head(out).entries)), id) = Upcoming(out, seen, id)
    BY UpcomingLess, Zenon
  <2> QED
    BY <1>2, <2>1, <2>2, <2>3, Zenon DEF Course, EarlyExchange
<1> QED
  BY <1>1, <1>2

\* received_settings refuses.
LEMMA CourseRefused ==
  ASSUME NEW out \in Seq(Frames), NEW back \in Seq(Frames), NEW pending, NEW request, NEW local,
         NEW seen, NEW seen2, NEW refused, NEW begun, NEW ahead, NEW t \in Seq(Frames), None(t, "ack"),
         out # <<>>, Head(out).kind = "settings",
         Course(out, back, pending, request, local, seen, refused, begun, ahead)
  PROVE  Course(Tail(out), back \o t, pending, request, local, seen2, TRUE, begun, ahead)
<1>1. CASE ~ahead
  BY <1>1, ExchangeRefused, Zenon DEF Course
<1>2. CASE ahead
  <2>1. EarlyExchange(out, back, pending, request, local, seen, refused, begun)
    BY <1>2, Zenon DEF Course
  <2>2. Lags(Tail(out), back \o t, pending, TRUE, begun)
    BY <2>1, LagsMoves, Zenon DEF EarlyExchange
  <2> QED
    BY <1>2, <2>1, <2>2, Zenon DEF Course, EarlyExchange
<1> QED
  BY <1>1, <1>2

\* received_settings with ACK.
LEMMA CourseAcked ==
  ASSUME NEW out \in Seq(Frames), NEW back \in Seq(Frames), NEW pending, NEW request \in Seq(Entry),
         NEW local \in [Ids -> Int], NEW seen, NEW refused, NEW begun, NEW ahead,
         ahead => begun, back # <<>>, Head(back).kind = "ack",
         Course(out, back, pending, request, local, seen, refused, begun, ahead)
  PROVE  Course(out, Tail(back), FALSE, <<>>, Overwrite(local, request), seen, refused, begun, ahead)
<1>1. CASE ~ahead
  BY <1>1, ExchangeAcked, Zenon DEF Course
<1>2. CASE ahead
  <2>1. EarlyExchange(out, back, pending, request, local, seen, refused, begun)
    BY <1>2, Zenon DEF Course
  <2>2. Lags(out, Tail(back), FALSE, refused, begun)
    BY <1>2, <2>1, LagsMoves, Zenon DEF EarlyExchange
  <2>3. Overwrite(Overwrite(local, request), <<>>) = Overwrite(local, request)
    <3>1. Overwrite(local, request) \in [Ids -> Int]
      BY OverwriteIs, Zenon
    <3> QED
      BY <3>1, OverwriteNothing, Zenon
  <2>4. \A id \in Ids : Expected(Overwrite(local, request), <<>>, begun, id) = Expected(local, request, begun, id)
    BY <2>3, Zenon DEF Expected
  <2> QED
    BY <1>2, <2>1, <2>2, <2>4, Zenon DEF Course, EarlyExchange
<1> QED
  BY <1>1, <1>2

-----------------------------------------------------------------------------
(***************************************************************************)
(* The invariant.                                                          *)
(***************************************************************************)

\* The initial SETTINGS of e are sent.
Begun(e) == IF e = "client" THEN prefaceSent ELSE verified

\* A request of e has gone out before.
Ahead(e) == e = "server" /\ early

\* A server enforces its initial settings until then.
Fresh == ~verified => localSettings["server"] = InitialLocal

SettingsOf(e) ==
  Course(channel[e], channel[Other(e)], settingsPending[e], requestSettings[e], localSettings[e],
           remoteSettings[Other(e)], goaway[Other(e)], Begun(e), Ahead(e))

PingsOf(e) == PingExchange(channel[e], channel[Other(e)], pingPending[e])

GivenUp == closed["server"] => goaway["server"] /\ ~verified

SettingsInv ==
  /\ TypeOK
  /\ channel \in [Ends -> Seq(Frames)]
  /\ GivenUp
  /\ Fresh
  /\ ~closed["server"] => \A e \in Ends : SettingsOf(e) /\ PingsOf(e)

\* There are two ends.
LEMMA TwoEnds ==
  ASSUME NEW e \in Ends
  PROVE  /\ Other(e) \in Ends /\ Other(e) # e /\ Other(Other(e)) = e
         /\ \A d \in Ends : d = e \/ d = Other(e)
         /\ e = "client" \/ e = "server"
BY DEF Ends, Other

\* The types of what an exchange is about.
LEMMA Typed ==
  ASSUME SettingsInv, NEW e \in Ends
  PROVE  /\ channel[e] \in Seq(Frames) /\ localSettings[e] \in [Ids -> Int]
         /\ remoteSettings[e] \in [Ids -> Int] /\ requestSettings[e] \in Seq(Entry)
         /\ settingsPending[e] \in BOOLEAN /\ pingPending[e] \in BOOLEAN
         /\ Begun(e) \in BOOLEAN /\ NeedsPreface(e) \in BOOLEAN
<1>1. channel[e] \in Seq(Frames)
  BY DEF SettingsInv
<1>2. localSettings[e] \in [Ids -> Int] /\ remoteSettings[e] \in [Ids -> Int]
  BY DEF SettingsInv, TypeOK
<1>3. requestSettings[e] \in Seq(Entry)
  <2>1. requestSettings[e] \in Requests \cup {<<>>} /\ Requests \subseteq Seq(Entry)
    BY SettingsAssumption DEF SettingsInv, TypeOK, Entries, Entry
  <2>2. <<>> \in Seq(Entry)
    OBVIOUS
  <2> QED
    BY <2>1, <2>2, Zenon
<1>4. settingsPending[e] \in BOOLEAN /\ pingPending[e] \in BOOLEAN
  BY DEF SettingsInv, TypeOK
<1>5. Begun(e) \in BOOLEAN
  BY DEF Begun, SettingsInv, TypeOK
<1>6. NeedsPreface(e) \in BOOLEAN
  BY Zenon DEF NeedsPreface
<1> QED
  BY <1>1, <1>2, <1>3, <1>4, <1>5, <1>6, Zenon

\* What ensure_preface_sent sends.
LEMMA PrefaceIs ==
  ASSUME SettingsInv, NEW e \in Ends
  PROVE  /\ PrefaceFrames(e) \in Seq(Frames)
         /\ None(PrefaceFrames(e), "ack") /\ None(PrefaceFrames(e), "ping")
         /\ None(PrefaceFrames(e), "pong")
         /\ ~NeedsPreface(e) => None(PrefaceFrames(e), "settings")
         /\ NeedsPreface(e) => Only(PrefaceFrames(e), Settings(NonDefault(localSettings[e])))
<1>1. CASE ~NeedsPreface(e)
  <2>1. PrefaceFrames(e) = <<>>
    BY <1>1, Zenon DEF PrefaceFrames
  <2>2. <<>> \in Seq(Frames)
    OBVIOUS
  <2> QED
    BY <1>1, <2>1, <2>2, Single, Zenon
<1>2. CASE NeedsPreface(e)
  <2>1. PICK f \in Frames : f = Settings(NonDefault(localSettings[e])) /\ f.kind = "settings"
    <3>1. localSettings[e] \in [Ids -> Int]
      BY Typed
    <3> QED
      BY <3>1, InitialIs, Kinds, Zenon
  <2>2. PrefaceFrames(e) = <<Preface, f>> /\ Preface \in Frames /\ Preface.kind = "preface"
    BY <1>2, <2>1, Kinds, Zenon DEF PrefaceFrames
  <2>3. PICK p \in Seq(Frames) : p = <<Preface, f>>
    <3>1. <<Preface, f>> \in Seq(Frames)
      BY <2>2
    <3> QED
      BY <3>1, Zenon
  <2>4. Len(p) = 2 /\ p[1] = Preface /\ p[2] = f
    BY <2>3
  <2>5. \A i \in 1..2 : i = 1 \/ i = 2
    OBVIOUS
  <2>6. 2 \in 1..2 /\ 1 # 2
    OBVIOUS
  <2>7. None(p, "ack") /\ None(p, "ping") /\ None(p, "pong")
    BY <2>1, <2>2, <2>4, <2>5 DEF None
  <2>8. Only(p, f)
    BY <2>1, <2>2, <2>4, <2>5, <2>6 DEF Only
  <2> QED
    BY <1>2, <2>1, <2>2, <2>3, <2>7, <2>8, Zenon
<1> QED
  BY <1>1, <1>2

Prefaced(e) == channel[e] \o PrefaceFrames(e)

\* ensure_preface_sent begins the exchange of a client that has not begun it.
LEMMA PrefaceStep ==
  ASSUME SettingsInv, ~closed["server"], NEW e \in Ends
  PROVE  /\ Prefaced(e) \in Seq(Frames)
         /\ Course(Prefaced(e), channel[Other(e)], NeedsPreface(e) \/ settingsPending[e],
                     requestSettings[e], localSettings[e], remoteSettings[Other(e)],
                     goaway[Other(e)], e = "client" \/ Begun(e), Ahead(e))
         /\ Course(channel[Other(e)], Prefaced(e), settingsPending[Other(e)],
                     requestSettings[Other(e)], localSettings[Other(e)], remoteSettings[e],
                     goaway[e], Begun(Other(e)), Ahead(Other(e)))
         /\ PingExchange(Prefaced(e), channel[Other(e)], pingPending[e])
         /\ PingExchange(channel[Other(e)], Prefaced(e), pingPending[Other(e)])
<1>1. PICK p \in Seq(Frames) : p = PrefaceFrames(e)
  BY PrefaceIs, Zenon
<1>2. /\ None(p, "ack") /\ None(p, "ping") /\ None(p, "pong")
      /\ ~NeedsPreface(e) => None(p, "settings")
      /\ NeedsPreface(e) => Only(p, Settings(NonDefault(localSettings[e])))
  BY <1>1, PrefaceIs, Zenon
<1>3. PICK c \in Seq(Frames), d \in Seq(Frames) : c = channel[e] /\ d = channel[Other(e)]
  BY Typed, TwoEnds, Zenon
<1>4. Prefaced(e) = c \o p /\ c \o p \in Seq(Frames)
  BY <1>1, <1>3, ConcatAt, Zenon DEF Prefaced
<1>5. /\ Keeps(c, c \o p, "ack") /\ Keeps(c, c \o p, "ping") /\ Keeps(c, c \o p, "pong")
      /\ ~NeedsPreface(e) => Keeps(c, c \o p, "settings")
      /\ Keeps(d, d, "settings") /\ Keeps(d, d, "ack") /\ Keeps(d, d, "ping") /\ Keeps(d, d, "pong")
  BY <1>2, KeepsWhat, Zenon
<1>6. SettingsOf(e) /\ SettingsOf(Other(e)) /\ PingsOf(e) /\ PingsOf(Other(e)) /\ Other(Other(e)) = e
  BY TwoEnds, Zenon DEF SettingsInv
<1>7. Course(d, c \o p, settingsPending[Other(e)], requestSettings[Other(e)],
               localSettings[Other(e)], remoteSettings[e], goaway[e], Begun(Other(e)), Ahead(Other(e)))
  BY <1>3, <1>5, <1>6, CourseKeeps, Zenon DEF SettingsOf
<1>8. PingExchange(c \o p, d, pingPending[e]) /\ PingExchange(d, c \o p, pingPending[Other(e)])
  BY <1>3, <1>5, <1>6, PingKeeps, Zenon DEF PingsOf
<1>9. CASE ~NeedsPreface(e)
  <2>1. (NeedsPreface(e) \/ settingsPending[e]) = settingsPending[e]
    BY <1>9, Typed, Zenon
  <2>2. (e = "client" \/ Begun(e)) = Begun(e)
    BY <1>9, Typed, Zenon DEF NeedsPreface, Begun
  <2>3. Course(c \o p, d, settingsPending[e], requestSettings[e], localSettings[e],
                 remoteSettings[Other(e)], goaway[Other(e)], Begun(e), Ahead(e))
    BY <1>3, <1>5, <1>6, <1>9, CourseKeeps, Zenon DEF SettingsOf
  <2> QED
    BY <1>3, <1>4, <1>7, <1>8, <2>1, <2>2, <2>3, Zenon
<1>10. CASE NeedsPreface(e)
  <2>1. e = "client" /\ Begun(e) = FALSE /\ ~Ahead(e)
    <3>1. "client" # "server"
      OBVIOUS
    <3> QED
      BY <1>10, <3>1, Typed, Zenon DEF NeedsPreface, Begun, Ahead
  <2>2. (NeedsPreface(e) \/ settingsPending[e]) = TRUE /\ (e = "client" \/ Begun(e)) = TRUE
    BY <1>10, <2>1, Zenon
  <2>3. Exchange(c, d, settingsPending[e], requestSettings[e], localSettings[e],
                 remoteSettings[Other(e)], goaway[Other(e)], FALSE)
    BY <1>3, <1>6, <2>1, Zenon DEF SettingsOf, Course
  <2>4. Exchange(c \o p, d, TRUE, requestSettings[e], localSettings[e],
                 remoteSettings[Other(e)], goaway[Other(e)], TRUE)
    BY <1>2, <1>10, <2>3, ExchangeBegins, Zenon
  <2>5. Course(c \o p, d, TRUE, requestSettings[e], localSettings[e],
               remoteSettings[Other(e)], goaway[Other(e)], TRUE, Ahead(e))
    BY <2>1, <2>4, Zenon DEF Course
  <2> QED
    BY <1>3, <1>4, <1>7, <1>8, <2>2, <2>5, Zenon
<1> QED
  BY <1>9, <1>10

-----------------------------------------------------------------------------
(***************************************************************************)
(* The steps.                                                              *)
(***************************************************************************)

\* A call that sends behind the preface.
LEMMA Sends ==
  ASSUME SettingsInv, NEW e \in Ends, NEW frames \in Seq(Frames), NEW pending \in BOOLEAN,
         SendWithPreface(e, frames, pending), verified' = verified
  PROVE  /\ channel' \in [Ends -> Seq(Frames)]
         /\ channel'[e] = Prefaced(e) \o frames /\ channel'[Other(e)] = channel[Other(e)]
         /\ prefaceSent' \in BOOLEAN
         /\ Begun(e)' = (e = "client" \/ Begun(e)) /\ Begun(Other(e))' = Begun(Other(e))
         /\ settingsPending' \in [Ends -> BOOLEAN]
         /\ settingsPending'[e] = (NeedsPreface(e) \/ pending)
         /\ settingsPending'[Other(e)] = settingsPending[Other(e)]
<1>1. PICK c \in Seq(Frames), p \in Seq(Frames) : c = channel[e] /\ p = PrefaceFrames(e)
  BY Typed, PrefaceIs, Zenon
<1>2. PICK x \in Seq(Frames) : x = (c \o p) \o frames
  BY ConcatAt, Zenon
<1>3. channel' = [channel EXCEPT ![e] = x]
  BY <1>1, <1>2, Zenon DEF SendWithPreface
<1>4. channel \in [Ends -> Seq(Frames)] /\ Other(e) \in Ends /\ Other(e) # e
  BY TwoEnds, Zenon DEF SettingsInv
<1>5. channel' \in [Ends -> Seq(Frames)] /\ channel'[e] = x /\ channel'[Other(e)] = channel[Other(e)]
  BY <1>3, <1>4, Zenon
<1>6. prefaceSent' = (prefaceSent \/ e = "client")
  BY Zenon DEF SendWithPreface
<1>7. prefaceSent \in BOOLEAN /\ verified \in BOOLEAN /\ settingsPending \in [Ends -> BOOLEAN]
  BY Zenon DEF SettingsInv, TypeOK
<1>8. Begun(e)' = (e = "client" \/ Begun(e)) /\ Begun(Other(e))' = Begun(Other(e))
  <2>1. CASE e = "client"
    <3>1. Other(e) # "client"
      BY <2>1, Zenon DEF Other
    <3> QED
      BY <1>6, <2>1, <3>1, Zenon DEF Begun
  <2>2. CASE e # "client"
    <3>1. prefaceSent' = prefaceSent
      BY <1>6, <1>7, <2>2, Zenon
    <3> QED
      BY <1>7, <2>2, <3>1, Zenon DEF Begun
  <2> QED
    BY <2>1, <2>2, Zenon
<1>9. settingsPending' = [settingsPending EXCEPT ![e] = NeedsPreface(e) \/ pending]
  BY Zenon DEF SendWithPreface
<1>10. (NeedsPreface(e) \/ pending) \in BOOLEAN /\ (prefaceSent \/ e = "client") \in BOOLEAN
  BY Zenon
<1>11. /\ settingsPending' \in [Ends -> BOOLEAN]
       /\ settingsPending'[e] = (NeedsPreface(e) \/ pending)
       /\ settingsPending'[Other(e)] = settingsPending[Other(e)]
  BY <1>4, <1>7, <1>9, <1>10, Zenon
<1> QED
  BY <1>1, <1>2, <1>5, <1>6, <1>8, <1>10, <1>11, Zenon DEF Prefaced

\* A frame is received, and answered.
LEMMA Answers ==
  ASSUME SettingsInv, NEW e \in Ends, NEW frames \in Seq(Frames), channel[Other(e)] # <<>>,
         Answer(e, frames)
  PROVE  /\ channel' \in [Ends -> Seq(Frames)]
         /\ channel'[e] = channel[e] \o frames /\ channel'[Other(e)] = Tail(channel[Other(e)])
<1>1. PICK c \in Seq(Frames), d \in Seq(Frames) : c = channel[e] /\ d = channel[Other(e)]
  BY Typed, TwoEnds, Zenon
<1>2. PICK x \in Seq(Frames) : x = c \o frames
  BY ConcatAt, Zenon
<1>3. PICK y \in Seq(Frames) : y = Tail(d)
  BY <1>1, Shrink, Zenon
<1>4. channel \in [Ends -> Seq(Frames)] /\ Other(e) \in Ends /\ Other(e) # e
  BY TwoEnds, Zenon DEF SettingsInv
<1>5. channel' = [channel EXCEPT ![Other(e)] = y, ![e] = x]
  <2>1. channel' = [channel EXCEPT ![Other(e)] = Tail(@), ![e] = @ \o frames]
    BY Zenon DEF Answer
  <2>2. [channel EXCEPT ![Other(e)] = Tail(@)][e] = channel[e]
    BY <1>4, Zenon
  <2> QED
    BY <1>1, <1>2, <1>3, <1>4, <2>1, <2>2
<1> QED
  BY <1>1, <1>2, <1>3, <1>4, <1>5, Zenon

\* SendSettings.
LEMMA SendSettingsStep ==
  ASSUME SettingsInv, NEW e \in Ends, NEW request \in Requests,
         SendSettings(e, request)
  PROVE  SettingsInv'
<1> DEFINE granted == request # <<>> /\ ~settingsPending[e] /\ ~NeedsPreface(e)
           frames  == IF granted THEN <<Settings(request)>> ELSE <<>>
           pending == settingsPending[e] \/ granted
<1>1. /\ ~closed[e] /\ requests[e] < MaxRequests
      /\ SendWithPreface(e, frames, pending)
      /\ requestSettings' = [requestSettings EXCEPT ![e] = IF granted THEN request ELSE @]
      /\ requests' = [requests EXCEPT ![e] = @ + 1]
      /\ early' = (early \/ (granted /\ e = "server" /\ ~verified))
      /\ UNCHANGED <<verified, localSettings, remoteSettings, pingPending, closed, goaway, pings>>
  BY DEF SendSettings
<1>2. request \in Seq(Entry)
  BY SettingsAssumption DEF Entries, Entry
<1>3. frames \in Seq(Frames) /\ pending \in BOOLEAN
  <2>1. Settings(request) \in Frames
    BY <1>2, Kinds, Zenon
  <2>2. <<Settings(request)>> \in Seq(Frames) /\ <<>> \in Seq(Frames)
    BY <2>1
  <2> QED
    BY <2>2, Zenon
<1> HIDE DEF frames, pending
<1>4. /\ channel' \in [Ends -> Seq(Frames)]
      /\ channel'[e] = Prefaced(e) \o frames /\ channel'[Other(e)] = channel[Other(e)]
      /\ prefaceSent' \in BOOLEAN
      /\ Begun(e)' = (e = "client" \/ Begun(e)) /\ Begun(Other(e))' = Begun(Other(e))
      /\ settingsPending' \in [Ends -> BOOLEAN]
      /\ settingsPending'[e] = (NeedsPreface(e) \/ pending)
      /\ settingsPending'[Other(e)] = settingsPending[Other(e)]
  BY <1>1, <1>3, Sends, Zenon
<1>5. TypeOK'
  <2>1. TypeOK
    BY DEF SettingsInv
  <2>2. requestSettings' \in [Ends -> Requests \cup {<<>>}]
    BY <1>1, <2>1, Zenon DEF TypeOK
  <2>3. requests' \in [Ends -> 0..MaxRequests]
    BY <1>1, <2>1, SettingsAssumption DEF TypeOK
  <2>4. early' \in BOOLEAN
    BY <1>1, Zenon
  <2> QED
    BY <1>1, <1>4, <2>1, <2>2, <2>3, <2>4, Zenon DEF TypeOK
<1>6. GivenUp' /\ Fresh'
  BY <1>1, Zenon DEF GivenUp, Fresh, SettingsInv
<1>7. ASSUME ~closed["server"] PROVE \A d \in Ends : SettingsOf(d)' /\ PingsOf(d)'
  <2>1. PICK c \in Seq(Frames), d \in Seq(Frames) : c = Prefaced(e) /\ d = channel[Other(e)]
    BY <1>7, PrefaceStep, Typed, TwoEnds, Zenon
  <2>2. /\ Course(c, d, NeedsPreface(e) \/ settingsPending[e], requestSettings[e], localSettings[e],
                    remoteSettings[Other(e)], goaway[Other(e)], e = "client" \/ Begun(e), Ahead(e))
        /\ Course(d, c, settingsPending[Other(e)], requestSettings[Other(e)],
                    localSettings[Other(e)], remoteSettings[e], goaway[e], Begun(Other(e)), Ahead(Other(e)))
        /\ PingExchange(c, d, pingPending[e]) /\ PingExchange(d, c, pingPending[Other(e)])
    BY <1>7, <2>1, PrefaceStep, Zenon
  <2>3. None(frames, "ack") /\ None(frames, "ping") /\ None(frames, "pong")
        /\ (~granted => None(frames, "settings"))
    <3>1. CASE granted
      <4>1. frames = <<Settings(request)>> /\ Settings(request).kind = "settings"
        BY <3>1, Kinds, Zenon DEF frames
      <4>2. "settings" # "ack" /\ "settings" # "ping" /\ "settings" # "pong"
        OBVIOUS
      <4> QED
        BY <3>1, <4>1, <4>2, Single, Zenon
    <3>2. CASE ~granted
      <4>1. frames = <<>>
        BY <3>2, Zenon DEF frames
      <4> QED
        BY <4>1, Single, Zenon
    <3> QED
      BY <3>1, <3>2, Zenon
  <2>4. /\ Keeps(c, c \o frames, "ack") /\ Keeps(c, c \o frames, "ping") /\ Keeps(c, c \o frames, "pong")
        /\ ~granted => Keeps(c, c \o frames, "settings")
        /\ Keeps(d, d, "settings") /\ Keeps(d, d, "ack") /\ Keeps(d, d, "ping") /\ Keeps(d, d, "pong")
    BY <1>3, <2>3, KeepsWhat, Zenon
  <2>5. Other(e) \in Ends /\ Other(e) # e /\ Other(Other(e)) = e /\ \A f \in Ends : f = e \/ f = Other(e)
    BY TwoEnds, Zenon
  <2>6. requestSettings'[Other(e)] = requestSettings[Other(e)]
        /\ requestSettings'[e] = IF granted THEN request ELSE requestSettings[e]
    BY <1>1, <2>5, Zenon DEF SettingsInv, TypeOK
  <2>7. SettingsOf(Other(e))'
    <3>1. Course(d, c \o frames, settingsPending[Other(e)], requestSettings[Other(e)],
                   localSettings[Other(e)], remoteSettings[e], goaway[e], Begun(Other(e)), Ahead(Other(e)))
      BY <2>2, <2>4, CourseKeeps, Zenon
    <3>2. Ahead(Other(e))' = Ahead(Other(e))
      <4>1. CASE Other(e) # "server"
        BY <4>1, Zenon DEF Ahead
      <4>2. CASE Other(e) = "server"
        <5>1. e # "server" /\ early \in BOOLEAN
          BY <2>5, <4>2, Zenon DEF SettingsInv, TypeOK
        <5>2. early' = early
          BY <1>1, <5>1, Zenon
        <5> QED
          BY <5>2, Zenon DEF Ahead
      <4> QED
        BY <4>1, <4>2
    <3> QED
      BY <1>1, <1>4, <2>1, <2>5, <2>6, <3>1, <3>2, Zenon DEF SettingsOf
  <2>8. PingsOf(e)' /\ PingsOf(Other(e))'
    <3>1. PingExchange(c \o frames, d, pingPending[e]) /\ PingExchange(d, c \o frames, pingPending[Other(e)])
      BY <2>2, <2>4, PingKeeps, Zenon
    <3> QED
      BY <1>1, <1>4, <2>1, <2>5, <3>1, Zenon DEF PingsOf
  <2>9. SettingsOf(e)'
    <3>1. CASE granted
      <4>1. (NeedsPreface(e) \/ settingsPending[e]) = FALSE /\ (NeedsPreface(e) \/ pending) = TRUE
        BY <3>1, Zenon DEF pending
      <4>2. PICK begun \in BOOLEAN, ahead \in BOOLEAN :
              begun = (e = "client" \/ Begun(e)) /\ ahead = Ahead(e)
        BY Zenon DEF Ahead
      <4>3. frames = <<Settings(request)>> /\ request # <<>> /\ requestSettings'[e] = request
        BY <2>6, <3>1, Zenon DEF frames
      <4>4. Course(c, d, FALSE, requestSettings[e], localSettings[e], remoteSettings[Other(e)],
                   goaway[Other(e)], begun, ahead)
        BY <2>2, <4>1, <4>2, Zenon
      <4>5. begun \/ localSettings[e] = InitialLocal
        <5>1. CASE e = "client"
          BY <4>2, <5>1, Zenon
        <5>2. CASE e = "server"
          <6>1. "server" # "client"
            OBVIOUS
          <6> QED
            BY <4>2, <5>2, <6>1, Zenon DEF SettingsInv, Fresh, Begun
        <5> QED
          BY <5>1, <5>2, TwoEnds, Zenon
      <4>6. Ahead(e)' = (ahead \/ ~begun)
        <5>1. CASE e = "client"
          <6>1. e # "server" /\ begun
            BY <4>2, <5>1
          <6> QED
            BY <4>2, <6>1, Zenon DEF Ahead
        <5>2. CASE e = "server"
          <6>1. e # "client"
            BY <5>2
          <6>2. begun = verified /\ verified \in BOOLEAN
            BY <4>2, <6>1, Zenon DEF Begun, SettingsInv, TypeOK
          <6> QED
            BY <1>1, <3>1, <4>2, <5>2, <6>2, Zenon DEF Ahead
        <5> QED
          BY <5>1, <5>2, TwoEnds, Zenon
      <4>7. localSettings[e] \in [Ids -> Int]
        BY Typed, Zenon
      <4>8. Course(c \o frames, d, TRUE, request, localSettings[e], remoteSettings[Other(e)],
                   goaway[Other(e)], begun, ahead \/ ~begun)
        <5>1. PICK l \in [Ids -> Int], r \in Seq(Entry) : l = localSettings[e] /\ r = request
          BY <1>2, <4>7, Zenon
        <5>2. r # <<>> /\ (begun \/ l = InitialLocal)
          BY <4>3, <4>5, <5>1, Zenon
        <5>3. Course(c, d, FALSE, requestSettings[e], l, remoteSettings[Other(e)], goaway[Other(e)], begun, ahead)
          BY <4>4, <5>1, Zenon
        <5>4. Course(c \o <<Settings(r)>>, d, TRUE, r, l, remoteSettings[Other(e)], goaway[Other(e)], begun,
                     ahead \/ ~begun)
          BY <5>2, <5>3, CourseAsks, Zenon
        <5> QED
          BY <4>3, <5>1, <5>4, Zenon
      <4> QED
        BY <1>1, <1>4, <2>1, <4>1, <4>2, <4>3, <4>6, <4>8, Zenon DEF SettingsOf
    <3>2. CASE ~granted
      <4>1. (NeedsPreface(e) \/ pending) = (NeedsPreface(e) \/ settingsPending[e])
        BY <3>2, Zenon DEF pending
      <4>2. Course(c \o frames, d, NeedsPreface(e) \/ settingsPending[e], requestSettings[e],
                     localSettings[e], remoteSettings[Other(e)], goaway[Other(e)], e = "client" \/ Begun(e), Ahead(e))
        BY <2>2, <2>4, <3>2, CourseKeeps, Zenon
      <4>3. Ahead(e)' = Ahead(e)
        <5>1. early \in BOOLEAN
          BY Zenon DEF SettingsInv, TypeOK
        <5>2. early' = early
          BY <1>1, <3>2, <5>1, Zenon
        <5> QED
          BY <5>2, Zenon DEF Ahead
      <4> QED
        BY <1>1, <1>4, <2>1, <2>6, <3>2, <4>1, <4>2, <4>3, Zenon DEF SettingsOf
    <3> QED
      BY <3>1, <3>2
  <2> QED
    BY <2>5, <2>7, <2>8, <2>9, Zenon
<1> QED
  BY <1>1, <1>4, <1>5, <1>6, <1>7, Zenon DEF SettingsInv

\* SendPing.
LEMMA SendPingStep ==
  ASSUME SettingsInv, NEW e \in Ends, SendPing(e)
  PROVE  SettingsInv'
<1> DEFINE frames == IF pingPending[e] THEN <<>> ELSE <<Ping>>
<1>1. /\ ~closed[e] /\ pings[e] < MaxPings
      /\ SendWithPreface(e, frames, settingsPending[e])
      /\ pingPending' = [pingPending EXCEPT ![e] = TRUE]
      /\ pings' = [pings EXCEPT ![e] = @ + 1]
      /\ UNCHANGED <<verified, requestSettings, localSettings, remoteSettings, closed, goaway, requests, early>>
  BY DEF SendPing
<1>2. frames \in Seq(Frames) /\ settingsPending[e] \in BOOLEAN
  <2>1. <<Ping>> \in Seq(Frames) /\ <<>> \in Seq(Frames)
    BY Kinds
  <2> QED
    BY <2>1, Typed, Zenon
<1> HIDE DEF frames
<1>3. /\ channel' \in [Ends -> Seq(Frames)]
      /\ channel'[e] = Prefaced(e) \o frames /\ channel'[Other(e)] = channel[Other(e)]
      /\ prefaceSent' \in BOOLEAN
      /\ Begun(e)' = (e = "client" \/ Begun(e)) /\ Begun(Other(e))' = Begun(Other(e))
      /\ settingsPending' \in [Ends -> BOOLEAN]
      /\ settingsPending'[e] = (NeedsPreface(e) \/ settingsPending[e])
      /\ settingsPending'[Other(e)] = settingsPending[Other(e)]
  BY <1>1, <1>2, Sends, Zenon
<1>4. TypeOK'
  <2>1. TypeOK
    BY DEF SettingsInv
  <2>2. pingPending' \in [Ends -> BOOLEAN]
    BY <1>1, <2>1, Zenon DEF TypeOK
  <2>3. pings' \in [Ends -> 0..MaxPings]
    BY <1>1, <2>1, SettingsAssumption DEF TypeOK
  <2> QED
    BY <1>1, <1>3, <2>1, <2>2, <2>3, Zenon DEF TypeOK
<1>5. GivenUp' /\ Fresh'
  BY <1>1, Zenon DEF GivenUp, Fresh, SettingsInv
<1>6. ASSUME ~closed["server"] PROVE \A d \in Ends : SettingsOf(d)' /\ PingsOf(d)'
  <2>1. PICK c \in Seq(Frames), d \in Seq(Frames) : c = Prefaced(e) /\ d = channel[Other(e)]
    BY <1>6, PrefaceStep, Typed, TwoEnds, Zenon
  <2>2. /\ Course(c, d, NeedsPreface(e) \/ settingsPending[e], requestSettings[e], localSettings[e],
                    remoteSettings[Other(e)], goaway[Other(e)], e = "client" \/ Begun(e), Ahead(e))
        /\ Course(d, c, settingsPending[Other(e)], requestSettings[Other(e)],
                    localSettings[Other(e)], remoteSettings[e], goaway[e], Begun(Other(e)), Ahead(Other(e)))
        /\ PingExchange(c, d, pingPending[e]) /\ PingExchange(d, c, pingPending[Other(e)])
    BY <1>6, <2>1, PrefaceStep, Zenon
  <2>3. None(frames, "ack") /\ None(frames, "settings") /\ None(frames, "pong")
        /\ (pingPending[e] => None(frames, "ping"))
    <3>1. CASE ~pingPending[e]
      <4>1. frames = <<Ping>> /\ Ping.kind = "ping"
        BY <3>1, Kinds, Zenon DEF frames
      <4>2. "ping" # "ack" /\ "ping" # "settings" /\ "ping" # "pong"
        OBVIOUS
      <4> QED
        BY <3>1, <4>1, <4>2, Single, Zenon
    <3>2. CASE pingPending[e]
      <4>1. frames = <<>>
        BY <3>2, Zenon DEF frames
      <4> QED
        BY <4>1, Single, Zenon
    <3> QED
      BY <3>1, <3>2, Zenon
  <2>4. /\ Keeps(c, c \o frames, "ack") /\ Keeps(c, c \o frames, "settings") /\ Keeps(c, c \o frames, "pong")
        /\ pingPending[e] => Keeps(c, c \o frames, "ping")
        /\ Keeps(d, d, "settings") /\ Keeps(d, d, "ack") /\ Keeps(d, d, "ping") /\ Keeps(d, d, "pong")
    BY <1>2, <2>3, KeepsWhat, Zenon
  <2>5. Other(e) \in Ends /\ Other(e) # e /\ Other(Other(e)) = e /\ \A f \in Ends : f = e \/ f = Other(e)
    BY TwoEnds, Zenon
  <2>6. pingPending'[Other(e)] = pingPending[Other(e)] /\ pingPending'[e] = TRUE
    BY <1>1, <2>5, Zenon DEF SettingsInv, TypeOK
  <2>7. SettingsOf(Other(e))'
    <3>1. Course(d, c \o frames, settingsPending[Other(e)], requestSettings[Other(e)],
                   localSettings[Other(e)], remoteSettings[e], goaway[e], Begun(Other(e)), Ahead(Other(e)))
      BY <2>2, <2>4, CourseKeeps, Zenon
    <3> QED
      BY <1>1, <1>3, <2>1, <2>5, <3>1, Zenon DEF SettingsOf, Ahead
  <2>8. SettingsOf(e)'
    <3>1. Course(c \o frames, d, NeedsPreface(e) \/ settingsPending[e], requestSettings[e],
                   localSettings[e], remoteSettings[Other(e)], goaway[Other(e)], e = "client" \/ Begun(e), Ahead(e))
      BY <2>2, <2>4, CourseKeeps, Zenon
    <3> QED
      BY <1>1, <1>3, <2>1, <3>1, Zenon DEF SettingsOf, Ahead
  <2>9. PingsOf(Other(e))'
    <3>1. PingExchange(d, c \o frames, pingPending[Other(e)])
      BY <2>2, <2>4, PingKeeps, Zenon
    <3> QED
      BY <1>3, <2>1, <2>5, <2>6, <3>1, Zenon DEF PingsOf
  <2>10. PingsOf(e)'
    <3>1. CASE pingPending[e]
      <4>1. PingExchange(c \o frames, d, pingPending[e])
        BY <2>2, <2>4, <3>1, PingKeeps, Zenon
      <4>2. pingPending[e] = TRUE
        BY <3>1, Typed, Zenon
      <4> QED
        BY <1>3, <2>1, <2>6, <4>1, <4>2, Zenon DEF PingsOf
    <3>2. CASE ~pingPending[e]
      <4>1. frames = <<Ping>>
        BY <3>2, Zenon DEF frames
      <4>2. PingExchange(c, d, FALSE)
        <5>1. pingPending[e] = FALSE
          BY <3>2, Typed, Zenon
        <5> QED
          BY <2>2, <5>1, Zenon
      <4>3. ~FALSE => PingExchange(c \o <<Ping>>, d, TRUE)
        BY <4>2, PingMoves, Zenon
      <4> QED
        BY <1>3, <2>1, <2>6, <4>1, <4>3, Zenon DEF PingsOf
    <3> QED
      BY <3>1, <3>2
  <2> QED
    BY <2>5, <2>7, <2>8, <2>9, <2>10, Zenon
<1> QED
  BY <1>1, <1>3, <1>4, <1>5, <1>6, Zenon DEF SettingsInv

\* A received frame only concerns the exchange it belongs to.
LEMMA Unconcerned ==
  ASSUME SettingsInv, ~closed["server"], NEW e \in Ends, NEW frames \in Seq(Frames), NEW kind,
         channel[Other(e)] # <<>>, Head(channel[Other(e)]).kind = kind, Answer(e, frames)
  PROVE  /\ kind # "ack" /\ None(frames, "settings") =>
              Course(channel'[e], channel'[Other(e)], settingsPending[e], requestSettings[e],
                       localSettings[e], remoteSettings[Other(e)], goaway[Other(e)], Begun(e), Ahead(e))
         /\ kind # "settings" /\ None(frames, "ack") =>
              Course(channel'[Other(e)], channel'[e], settingsPending[Other(e)],
                       requestSettings[Other(e)], localSettings[Other(e)], remoteSettings[e],
                       goaway[e], Begun(Other(e)), Ahead(Other(e)))
         /\ kind # "pong" /\ None(frames, "ping") =>
              PingExchange(channel'[e], channel'[Other(e)], pingPending[e])
         /\ kind # "ping" /\ None(frames, "pong") =>
              PingExchange(channel'[Other(e)], channel'[e], pingPending[Other(e)])
<1>1. PICK c \in Seq(Frames), d \in Seq(Frames) : c = channel[e] /\ d = channel[Other(e)]
  BY Typed, TwoEnds, Zenon
<1>2. channel'[e] = c \o frames /\ channel'[Other(e)] = Tail(d)
  BY <1>1, Answers, Zenon
<1>3. /\ \A k : None(frames, k) => Keeps(c, c \o frames, k)
      /\ \A k : kind # k => Keeps(d, Tail(d), k)
  BY <1>1, KeepsWhat, Zenon
<1>4. SettingsOf(e) /\ SettingsOf(Other(e)) /\ PingsOf(e) /\ PingsOf(Other(e)) /\ Other(Other(e)) = e
  BY TwoEnds, Zenon DEF SettingsInv
<1>5. ASSUME kind # "ack", None(frames, "settings")
      PROVE  Course(c \o frames, Tail(d), settingsPending[e], requestSettings[e],
                      localSettings[e], remoteSettings[Other(e)], goaway[Other(e)], Begun(e), Ahead(e))
  <2>1. Keeps(c, c \o frames, "settings") /\ Keeps(d, Tail(d), "ack")
    BY <1>3, <1>5, Zenon
  <2> QED
    BY <1>1, <1>4, <2>1, CourseKeeps, Zenon DEF SettingsOf
<1>6. ASSUME kind # "settings", None(frames, "ack")
      PROVE  Course(Tail(d), c \o frames, settingsPending[Other(e)], requestSettings[Other(e)],
                      localSettings[Other(e)], remoteSettings[e], goaway[e], Begun(Other(e)), Ahead(Other(e)))
  <2>1. Keeps(c, c \o frames, "ack") /\ Keeps(d, Tail(d), "settings")
    BY <1>3, <1>6, Zenon
  <2> QED
    BY <1>1, <1>4, <2>1, CourseKeeps, Zenon DEF SettingsOf
<1>7. ASSUME kind # "pong", None(frames, "ping") PROVE PingExchange(c \o frames, Tail(d), pingPending[e])
  <2>1. Keeps(c, c \o frames, "ping") /\ Keeps(d, Tail(d), "pong")
    BY <1>3, <1>7, Zenon
  <2> QED
    BY <1>1, <1>4, <2>1, PingKeeps, Zenon DEF PingsOf
<1>8. ASSUME kind # "ping", None(frames, "pong")
      PROVE  PingExchange(Tail(d), c \o frames, pingPending[Other(e)])
  <2>1. Keeps(c, c \o frames, "pong") /\ Keeps(d, Tail(d), "ping")
    BY <1>3, <1>8, Zenon
  <2> QED
    BY <1>1, <1>4, <2>1, PingKeeps, Zenon DEF PingsOf
<1> QED
  BY <1>2, <1>5, <1>6, <1>7, <1>8, Zenon

\* The kinds differ.
LEMMA KindsDiffer ==
  /\ "settings" # "ack" /\ "settings" # "ping" /\ "settings" # "pong" /\ "ack" # "ping"
  /\ "ack" # "pong" /\ "ping" # "pong" /\ "goaway" # "settings" /\ "goaway" # "ack"
  /\ "goaway" # "ping" /\ "goaway" # "pong"
OBVIOUS

\* ReceivePing, ReceivePong and ReceiveGoAway.
LEMMA ReceivePingStep ==
  ASSUME SettingsInv, NEW e \in Ends, ReceivePing(e) \/ ReceivePong(e) \/ ReceiveGoAway(e)
  PROVE  SettingsInv'
<1> DEFINE o == Other(e)
<1>1. o \in Ends /\ o # e /\ Other(o) = e /\ \A f \in Ends : f = e \/ f = o
  BY TwoEnds, Zenon
<1>2. PICK c \in Seq(Frames), d \in Seq(Frames) : c = channel[e] /\ d = channel[o]
  BY <1>1, Typed, Zenon
<1>3. UNCHANGED <<prefaceSent, verified, settingsPending, requestSettings, localSettings,
                  remoteSettings, closed, goaway, requests, pings, early>>
  BY DEF ReceivePing, ReceivePong, ReceiveGoAway
<1>4. Begun(e)' = Begun(e) /\ Begun(o)' = Begun(o) /\ Ahead(e)' = Ahead(e) /\ Ahead(o)' = Ahead(o)
  BY <1>3 DEF Begun, Ahead
<1>5. d # <<>>
  BY <1>2, Zenon DEF ReceivePing, ReceivePong, ReceiveGoAway, Receives
<1>6. PICK z \in Seq(Frames), p \in Seq(Frames) : z = <<>> /\ p = <<Pong>>
  <2>1. <<Pong>> \in Seq(Frames) /\ <<>> \in Seq(Frames)
    BY Kinds
  <2> QED
    BY <2>1, Zenon
<1>7. /\ None(p, "settings") /\ None(p, "ack") /\ None(p, "ping")
      /\ None(z, "settings") /\ None(z, "ack") /\ None(z, "ping") /\ None(z, "pong")
  BY <1>6, Kinds, KindsDiffer, Single, Zenon
<1>8. (Answer(e, z) \/ Answer(e, p)) /\ pingPending' \in [Ends -> BOOLEAN]
  <2>1. pingPending \in [Ends -> BOOLEAN]
    BY Zenon DEF SettingsInv, TypeOK
  <2> QED
    BY <1>6, <2>1, Zenon DEF ReceivePing, ReceivePong, ReceiveGoAway
<1>9. channel' \in [Ends -> Seq(Frames)]
  BY <1>2, <1>5, <1>8, Answers, Zenon
<1>10. TypeOK' /\ GivenUp' /\ Fresh'
  BY <1>3, <1>8, Zenon DEF TypeOK, GivenUp, Fresh, SettingsInv
<1>11. ASSUME ~closed["server"] PROVE \A f \in Ends : SettingsOf(f)' /\ PingsOf(f)'
  <2>1. SettingsOf(e)' /\ SettingsOf(o)'
    <3>1. PICK k : (k = "ping" \/ k = "pong" \/ k = "goaway") /\ Head(d).kind = k
      BY <1>2, Zenon DEF ReceivePing, ReceivePong, ReceiveGoAway, Receives
    <3>2. PICK t \in Seq(Frames) : None(t, "settings") /\ None(t, "ack") /\ Answer(e, t)
      BY <1>7, <1>8, Zenon
    <3>3. k # "settings" /\ k # "ack"
      BY <3>1
    <3>4. /\ Course(channel'[e], channel'[o], settingsPending[e], requestSettings[e],
                      localSettings[e], remoteSettings[o], goaway[o], Begun(e), Ahead(e))
          /\ Course(channel'[o], channel'[e], settingsPending[o], requestSettings[o],
                      localSettings[o], remoteSettings[e], goaway[e], Begun(o), Ahead(o))
      BY <1>2, <1>5, <1>11, <3>1, <3>2, <3>3, Unconcerned, Zenon
    <3> QED
      BY <1>1, <1>3, <1>4, <3>4, Zenon DEF SettingsOf
  <2>2. PingExchange(c, d, pingPending[e]) /\ PingExchange(d, c, pingPending[o])
    BY <1>1, <1>2, <1>11, Zenon DEF SettingsInv, PingsOf
  <2>3. CASE ReceivePing(e)
    <3>1. Head(d).kind = "ping" /\ Answer(e, p) /\ pingPending' = pingPending
      BY <1>2, <1>6, <2>3, Zenon DEF ReceivePing, Receives
    <3>2. PingExchange(channel'[e], channel'[o], pingPending[e])
      BY <1>2, <1>5, <1>7, <1>11, <3>1, KindsDiffer, Unconcerned, Zenon
    <3>3. channel'[e] = c \o p /\ channel'[o] = Tail(d)
      BY <1>2, <1>5, <3>1, Answers, Zenon
    <3>4. PingExchange(Tail(d), c \o <<Pong>>, pingPending[o])
      BY <1>5, <2>2, <3>1, PingMoves, Zenon
    <3>5. PingExchange(channel'[o], channel'[e], pingPending[o])
      BY <1>6, <3>3, <3>4, Zenon
    <3> QED
      BY <1>1, <2>1, <3>1, <3>2, <3>5, Zenon DEF PingsOf
  <2>4. CASE ReceivePong(e)
    <3>1. Head(d).kind = "pong" /\ Answer(e, z) /\ pingPending' = [pingPending EXCEPT ![e] = FALSE]
      BY <1>2, <1>6, <2>4, Zenon DEF ReceivePong, Receives
    <3>2. PingExchange(channel'[o], channel'[e], pingPending[o])
      BY <1>2, <1>5, <1>7, <1>11, <3>1, KindsDiffer, Unconcerned, Zenon
    <3>3. channel'[e] = c \o z /\ channel'[o] = Tail(d)
      BY <1>2, <1>5, <3>1, Answers, Zenon
    <3>4. PingExchange(c, Tail(d), FALSE) /\ Tail(d) \in Seq(Frames)
      BY <1>5, <2>2, <3>1, PingMoves, Shrink, Zenon
    <3>5. Keeps(c, c \o z, "ping") /\ Keeps(Tail(d), Tail(d), "pong")
      BY <1>7, <3>4, KeepsWhat, Zenon
    <3>6. PingExchange(channel'[e], channel'[o], FALSE)
      BY <3>3, <3>4, <3>5, PingKeeps, Zenon
    <3>7. pingPending'[e] = FALSE /\ pingPending'[o] = pingPending[o]
      BY <1>1, <3>1, Zenon DEF SettingsInv, TypeOK
    <3> QED
      BY <1>1, <2>1, <3>2, <3>6, <3>7, Zenon DEF PingsOf
  <2>5. CASE ReceiveGoAway(e)
    <3>1. Head(d).kind = "goaway" /\ Answer(e, z) /\ pingPending' = pingPending
      BY <1>2, <1>6, <2>5, Zenon DEF ReceiveGoAway, Receives
    <3>2. PingExchange(channel'[e], channel'[o], pingPending[e]) /\ PingExchange(channel'[o], channel'[e], pingPending[o])
      BY <1>2, <1>5, <1>7, <1>11, <3>1, KindsDiffer, Unconcerned, Zenon
    <3> QED
      BY <1>1, <2>1, <3>1, <3>2, Zenon DEF PingsOf
  <2> QED
    BY <2>3, <2>4, <2>5
<1> QED
  BY <1>3, <1>9, <1>10, <1>11, Zenon DEF SettingsInv

\* ReceiveSettings.
LEMMA ReceiveSettingsStep ==
  ASSUME SettingsInv, NEW e \in Ends, ReceiveSettings(e)
  PROVE  SettingsInv'
<1> DEFINE o == Other(e)
<1>1. o \in Ends /\ o # e /\ Other(o) = e /\ \A f \in Ends : f = e \/ f = o
  BY TwoEnds, Zenon
<1>2. PICK c \in Seq(Frames), d \in Seq(Frames) : c = channel[e] /\ d = channel[o]
  BY <1>1, Typed, Zenon
<1>3. /\ d # <<>> /\ Head(d).kind = "settings"
      /\ \A i \in DOMAIN Head(d).entries : ~Refused(Head(d).entries[i])
      /\ remoteSettings' = [remoteSettings EXCEPT ![e] = Overwrite(@, Accepted(Head(d).entries))]
      /\ Answer(e, <<Ack>>)
      /\ UNCHANGED <<prefaceSent, verified, settingsPending, requestSettings, localSettings,
                     pingPending, closed, goaway, requests, pings, early>>
  BY <1>2, Zenon DEF ReceiveSettings, Receives
<1>4. Begun(e)' = Begun(e) /\ Begun(o)' = Begun(o) /\ Ahead(e)' = Ahead(e) /\ Ahead(o)' = Ahead(o)
  BY <1>3 DEF Begun, Ahead
<1>5. PICK a \in Seq(Frames) : a = <<Ack>>
  <2>1. <<Ack>> \in Seq(Frames)
    BY Kinds
  <2> QED
    BY <2>1, Zenon
<1>6. None(a, "settings") /\ None(a, "ping") /\ None(a, "pong")
  BY <1>5, Kinds, KindsDiffer, Single, Zenon
<1>7. Answer(e, a)
  BY <1>3, <1>5, Zenon
<1>8. channel' \in [Ends -> Seq(Frames)] /\ channel'[e] = c \o <<Ack>> /\ channel'[o] = Tail(d)
  <2>1. channel' \in [Ends -> Seq(Frames)] /\ channel'[e] = c \o a /\ channel'[o] = Tail(d)
    BY <1>2, <1>3, <1>7, Answers, Zenon
  <2> QED
    BY <1>5, <2>1, Zenon
<1>9. Overwrite(remoteSettings[e], Accepted(Head(d).entries)) \in [Ids -> Int]
  <2>1. Head(d) \in Frames
    BY <1>3, Shrink, Zenon
  <2>2. Head(d).entries \in Seq(Entry)
    BY <1>3, <2>1 DEF Frames
  <2>3. Accepted(Head(d).entries) \in Seq(Entry)
    BY <2>2, AcceptedIs, Zenon
  <2>4. remoteSettings[e] \in [Ids -> Int]
    BY Typed, Zenon
  <2> QED
    BY <2>3, <2>4, OverwriteIs, Zenon
<1>10. /\ remoteSettings' \in [Ends -> [Ids -> Int]] /\ remoteSettings'[o] = remoteSettings[o]
       /\ remoteSettings'[e] = Overwrite(remoteSettings[e], Accepted(Head(d).entries))
  <2>1. remoteSettings \in [Ends -> [Ids -> Int]]
    BY Zenon DEF SettingsInv, TypeOK
  <2> QED
    BY <1>1, <1>3, <1>9, <2>1, Zenon
<1>11. TypeOK' /\ GivenUp' /\ Fresh'
  BY <1>3, <1>10, Zenon DEF TypeOK, GivenUp, Fresh, SettingsInv
<1>12. ASSUME ~closed["server"] PROVE \A f \in Ends : SettingsOf(f)' /\ PingsOf(f)'
  <2>1. /\ Course(channel'[e], channel'[o], settingsPending[e], requestSettings[e],
                    localSettings[e], remoteSettings[o], goaway[o], Begun(e), Ahead(e))
        /\ PingExchange(channel'[e], channel'[o], pingPending[e])
        /\ PingExchange(channel'[o], channel'[e], pingPending[o])
    BY <1>2, <1>3, <1>6, <1>7, <1>12, KindsDiffer, Unconcerned, Zenon
  <2>2. Course(d, c, settingsPending[o], requestSettings[o], localSettings[o], remoteSettings[e],
                 goaway[e], Begun(o), Ahead(o))
    BY <1>1, <1>2, <1>12, Zenon DEF SettingsInv, SettingsOf
  <2>3. PICK r \in Seq(Entry), l \in [Ids -> Int], v \in [Ids -> Int] :
          r = requestSettings[o] /\ l = localSettings[o] /\ v = remoteSettings[e]
    BY <1>1, Typed, Zenon
  <2>4. Course(Tail(d), c \o <<Ack>>, settingsPending[o], requestSettings[o], localSettings[o],
                 Overwrite(remoteSettings[e], Accepted(Head(d).entries)), goaway[e], Begun(o), Ahead(o))
    <3>1. Course(d, c, settingsPending[o], r, l, v, goaway[e], Begun(o), Ahead(o))
      BY <2>2, <2>3, Zenon
    <3>2. Course(Tail(d), c \o <<Ack>>, settingsPending[o], r, l, Overwrite(v, Accepted(Head(d).entries)),
                 goaway[e], Begun(o), Ahead(o))
      BY <1>3, <3>1, CourseApplies, Zenon
    <3> QED
      BY <2>3, <3>2, Zenon
  <2>5. SettingsOf(e)'
    BY <1>3, <1>4, <1>10, <2>1, Zenon DEF SettingsOf
  <2>6. SettingsOf(o)'
    BY <1>1, <1>3, <1>4, <1>8, <1>10, <2>4, Zenon DEF SettingsOf
  <2> QED
    BY <1>1, <1>3, <2>1, <2>5, <2>6, Zenon DEF PingsOf
<1> QED
  BY <1>3, <1>8, <1>11, <1>12, Zenon DEF SettingsInv

\* ReceiveAck.
LEMMA ReceiveAckStep ==
  ASSUME SettingsInv, NEW e \in Ends, ReceiveAck(e)
  PROVE  SettingsInv'
<1> DEFINE o == Other(e)
<1>1. o \in Ends /\ o # e /\ Other(o) = e /\ \A f \in Ends : f = e \/ f = o
  BY TwoEnds, Zenon
<1>2. PICK c \in Seq(Frames), d \in Seq(Frames) : c = channel[e] /\ d = channel[o]
  BY <1>1, Typed, Zenon
<1>3. /\ d # <<>> /\ Head(d).kind = "ack"
      /\ localSettings' = [localSettings EXCEPT ![e] = Overwrite(@, requestSettings[e])]
      /\ settingsPending' = [settingsPending EXCEPT ![e] = FALSE]
      /\ requestSettings' = [requestSettings EXCEPT ![e] = <<>>]
      /\ Answer(e, <<>>)
      /\ UNCHANGED <<prefaceSent, verified, remoteSettings, pingPending, closed, goaway, requests, pings, early>>
  BY <1>2, Zenon DEF ReceiveAck, Receives
<1>4. Begun(e)' = Begun(e) /\ Begun(o)' = Begun(o) /\ Ahead(e)' = Ahead(e) /\ Ahead(o)' = Ahead(o)
  BY <1>3 DEF Begun, Ahead
<1>5. PICK z \in Seq(Frames) : z = <<>>
  <2>1. <<>> \in Seq(Frames)
    OBVIOUS
  <2> QED
    BY <2>1, Zenon
<1>6. None(z, "settings") /\ None(z, "ack") /\ None(z, "ping") /\ None(z, "pong")
  BY <1>5, Single, Zenon
<1>7. Answer(e, z)
  BY <1>3, <1>5, Zenon
<1>8. channel' \in [Ends -> Seq(Frames)] /\ channel'[e] = c \o z /\ channel'[o] = Tail(d)
  BY <1>2, <1>3, <1>7, Answers, Zenon
<1>9. Overwrite(localSettings[e], requestSettings[e]) \in [Ids -> Int]
  BY Typed, OverwriteIs, Zenon
<1>10. /\ localSettings' \in [Ends -> [Ids -> Int]] /\ localSettings'[o] = localSettings[o]
       /\ localSettings'[e] = Overwrite(localSettings[e], requestSettings[e])
       /\ settingsPending' \in [Ends -> BOOLEAN] /\ settingsPending'[e] = FALSE
       /\ settingsPending'[o] = settingsPending[o]
       /\ requestSettings' \in [Ends -> Requests \cup {<<>>}] /\ requestSettings'[e] = <<>>
       /\ requestSettings'[o] = requestSettings[o]
  <2>1. /\ localSettings \in [Ends -> [Ids -> Int]] /\ settingsPending \in [Ends -> BOOLEAN]
        /\ requestSettings \in [Ends -> Requests \cup {<<>>}]
    BY Zenon DEF SettingsInv, TypeOK
  <2>2. localSettings' \in [Ends -> [Ids -> Int]] /\ localSettings'[o] = localSettings[o]
        /\ localSettings'[e] = Overwrite(localSettings[e], requestSettings[e])
    BY <1>1, <1>3, <1>9, <2>1, Zenon
  <2>3. settingsPending' \in [Ends -> BOOLEAN] /\ settingsPending'[e] = FALSE
        /\ settingsPending'[o] = settingsPending[o]
    BY <1>1, <1>3, <2>1, Zenon
  <2>4. requestSettings' \in [Ends -> Requests \cup {<<>>}] /\ requestSettings'[e] = <<>>
        /\ requestSettings'[o] = requestSettings[o]
    BY <1>1, <1>3, <2>1, Zenon
  <2> QED
    BY <2>2, <2>3, <2>4, Zenon
<1>11. TypeOK' /\ GivenUp' /\ Fresh'
  <2>1. TypeOK' /\ GivenUp'
    BY <1>3, <1>10, Zenon DEF TypeOK, GivenUp, SettingsInv
  <2>2. CASE e = "server"
    <3>1. verified
      BY <2>2, Zenon DEF ReceiveAck, Receives
    <3> QED
      BY <1>3, <2>1, <3>1, Zenon DEF Fresh
  <2>3. CASE e # "server"
    <3>1. o = "server"
      BY <2>3, TwoEnds, Zenon DEF Other
    <3> QED
      BY <1>3, <1>10, <2>1, <3>1, Zenon DEF Fresh, SettingsInv
  <2> QED
    BY <2>2, <2>3
<1>12. ASSUME ~closed["server"] PROVE \A f \in Ends : SettingsOf(f)' /\ PingsOf(f)'
  <2>1. /\ Course(channel'[o], channel'[e], settingsPending[o], requestSettings[o],
                    localSettings[o], remoteSettings[e], goaway[e], Begun(o), Ahead(o))
        /\ PingExchange(channel'[e], channel'[o], pingPending[e])
        /\ PingExchange(channel'[o], channel'[e], pingPending[o])
    BY <1>2, <1>3, <1>6, <1>7, <1>12, KindsDiffer, Unconcerned, Zenon
  <2>2. Course(c, d, settingsPending[e], requestSettings[e], localSettings[e], remoteSettings[o],
                 goaway[o], Begun(e), Ahead(e))
    BY <1>1, <1>2, <1>12, Zenon DEF SettingsInv, SettingsOf
  <2>3. Course(c, Tail(d), FALSE, <<>>, Overwrite(localSettings[e], requestSettings[e]),
                 remoteSettings[o], goaway[o], Begun(e), Ahead(e))
    <3>1. PICK l \in [Ids -> Int], r \in Seq(Entry) : l = localSettings[e] /\ r = requestSettings[e]
      BY Typed, Zenon
    <3>2. Ahead(e) => Begun(e)
      <4>1. "server" # "client"
        OBVIOUS
      <4> QED
        BY <4>1, Zenon DEF Ahead, Begun, ReceiveAck, Receives
    <3>3. Course(c, d, settingsPending[e], r, l, remoteSettings[o], goaway[o], Begun(e), Ahead(e))
      BY <2>2, <3>1, Zenon
    <3>4. Course(c, Tail(d), FALSE, <<>>, Overwrite(l, r), remoteSettings[o], goaway[o], Begun(e), Ahead(e))
      BY <1>3, <3>2, <3>3, CourseAcked, Zenon
    <3> QED
      BY <3>1, <3>4, Zenon
  <2>4. Tail(d) \in Seq(Frames)
    BY <1>3, Shrink, Zenon
  <2>5. Keeps(c, c \o z, "settings") /\ Keeps(Tail(d), Tail(d), "ack")
    BY <1>6, <2>4, KeepsWhat, Zenon
  <2>6. Course(c \o z, Tail(d), FALSE, <<>>, Overwrite(localSettings[e], requestSettings[e]),
                 remoteSettings[o], goaway[o], Begun(e), Ahead(e))
    BY <2>3, <2>5, CourseKeeps, Zenon
  <2>7. SettingsOf(e)'
    BY <1>3, <1>4, <1>8, <1>10, <2>6, Zenon DEF SettingsOf
  <2>8. SettingsOf(o)'
    BY <1>1, <1>3, <1>4, <1>10, <2>1, Zenon DEF SettingsOf
  <2> QED
    BY <1>1, <1>3, <2>1, <2>7, <2>8, Zenon DEF PingsOf
<1> QED
  BY <1>3, <1>8, <1>11, <1>12, Zenon DEF SettingsInv

\* RefuseSettings.
LEMMA RefuseSettingsStep ==
  ASSUME SettingsInv, NEW e \in Ends, RefuseSettings(e)
  PROVE  SettingsInv'
<1> DEFINE o == Other(e)
<1>1. o \in Ends /\ o # e /\ Other(o) = e /\ \A f \in Ends : f = e \/ f = o
  BY TwoEnds, Zenon
<1>2. PICK c \in Seq(Frames), d \in Seq(Frames), p \in Seq(Frames) :
        c = channel[e] /\ d = channel[o] /\ p = PrefaceFrames(e)
  BY <1>1, Typed, PrefaceIs, Zenon
<1>3. /\ d # <<>> /\ Head(d).kind = "settings"
      /\ remoteSettings' = [remoteSettings EXCEPT ![e] = Overwrite(@, Accepted(Head(d).entries))]
      /\ Answer(e, p \o <<GoAway>>)
      /\ prefaceSent' = (prefaceSent \/ e = "client")
      /\ settingsPending' = [settingsPending EXCEPT ![e] = @ \/ NeedsPreface(e)]
      /\ goaway' = [goaway EXCEPT ![e] = TRUE]
      /\ UNCHANGED <<verified, requestSettings, localSettings, pingPending, closed, requests, pings, early>>
  BY <1>2, Zenon DEF RefuseSettings, Receives
<1>4. PICK g \in Seq(Frames) : g = <<GoAway>>
  <2>1. <<GoAway>> \in Seq(Frames)
    BY Kinds
  <2> QED
    BY <2>1, Zenon
<1>5. None(g, "settings") /\ None(g, "ack") /\ None(g, "ping") /\ None(g, "pong")
  BY <1>4, Kinds, KindsDiffer, Single, Zenon
<1>6. PICK t \in Seq(Frames) : t = p \o g /\ Answer(e, t)
  BY <1>3, <1>4, ConcatAt, Zenon
<1>7. channel' \in [Ends -> Seq(Frames)] /\ channel'[e] = c \o t /\ channel'[o] = Tail(d)
  BY <1>2, <1>3, <1>6, Answers, Zenon
<1>8. c \o t = (c \o p) \o g
  <2>1. (c \o p) \o g = c \o (p \o g)
    BY Regrouped, ZenonT(60)
  <2> QED
    BY <1>6, <2>1, Zenon
<1>9. /\ prefaceSent' \in BOOLEAN /\ settingsPending' \in [Ends -> BOOLEAN]
      /\ settingsPending'[e] = (NeedsPreface(e) \/ settingsPending[e])
      /\ settingsPending'[o] = settingsPending[o]
      /\ Begun(e)' = (e = "client" \/ Begun(e)) /\ Begun(o)' = Begun(o)
      /\ Ahead(e)' = Ahead(e) /\ Ahead(o)' = Ahead(o)
  <2>1. prefaceSent \in BOOLEAN /\ verified \in BOOLEAN /\ settingsPending \in [Ends -> BOOLEAN]
    BY Zenon DEF SettingsInv, TypeOK
  <2>2. PICK b \in BOOLEAN : b = (settingsPending[e] \/ NeedsPreface(e))
    BY Zenon
  <2>3. settingsPending' = [settingsPending EXCEPT ![e] = b]
    BY <1>3, <2>2, Zenon
  <2>4. settingsPending' \in [Ends -> BOOLEAN] /\ settingsPending'[e] = b
        /\ settingsPending'[o] = settingsPending[o]
    BY <1>1, <2>1, <2>3, Zenon
  <2>5. b = (NeedsPreface(e) \/ settingsPending[e])
    BY <2>2, Zenon
  <2>6. prefaceSent' \in BOOLEAN
    BY <1>3, Zenon
  <2>7. Begun(e)' = (e = "client" \/ Begun(e)) /\ Begun(o)' = Begun(o)
    <3>1. CASE e = "client"
      <4>1. o # "client"
        BY <3>1, Zenon DEF Other
      <4> QED
        BY <1>3, <3>1, <4>1, Zenon DEF Begun
    <3>2. CASE e # "client"
      <4>1. prefaceSent' = prefaceSent
        BY <1>3, <2>1, <3>2, Zenon
      <4> QED
        BY <1>3, <2>1, <3>2, <4>1, Zenon DEF Begun
    <3> QED
      BY <3>1, <3>2, Zenon
  <2>8. Ahead(e)' = Ahead(e) /\ Ahead(o)' = Ahead(o)
    BY <1>3, Zenon DEF Ahead
  <2> QED
    BY <2>4, <2>5, <2>6, <2>7, <2>8, Zenon
<1>10. Overwrite(remoteSettings[e], Accepted(Head(d).entries)) \in [Ids -> Int]
  <2>1. Head(d) \in Frames
    BY <1>3, Shrink, Zenon
  <2>2. Head(d).entries \in Seq(Entry)
    BY <1>3, <2>1 DEF Frames
  <2>3. Accepted(Head(d).entries) \in Seq(Entry)
    BY <2>2, AcceptedIs, Zenon
  <2>4. remoteSettings[e] \in [Ids -> Int]
    BY Typed, Zenon
  <2> QED
    BY <2>3, <2>4, OverwriteIs, Zenon
<1>11. /\ remoteSettings' \in [Ends -> [Ids -> Int]] /\ remoteSettings'[o] = remoteSettings[o]
       /\ goaway' \in [Ends -> BOOLEAN] /\ goaway'[e] = TRUE /\ goaway'[o] = goaway[o]
  <2>1. remoteSettings \in [Ends -> [Ids -> Int]] /\ goaway \in [Ends -> BOOLEAN]
    BY Zenon DEF SettingsInv, TypeOK
  <2>2. remoteSettings' \in [Ends -> [Ids -> Int]] /\ remoteSettings'[o] = remoteSettings[o]
    BY <1>1, <1>3, <1>10, <2>1, Zenon
  <2>3. goaway' \in [Ends -> BOOLEAN] /\ goaway'[e] = TRUE /\ goaway'[o] = goaway[o]
    BY <1>1, <1>3, <2>1, Zenon
  <2> QED
    BY <2>2, <2>3, Zenon
<1>12. TypeOK'
  BY <1>3, <1>9, <1>11, Zenon DEF TypeOK, SettingsInv
<1>13. GivenUp' /\ Fresh'
  <2>1. GivenUp /\ "server" \in Ends
    BY Zenon DEF SettingsInv, Ends
  <2>2. goaway["server"] => goaway'["server"]
    BY <1>1, <1>11, <2>1, Zenon
  <2> QED
    BY <1>3, <2>1, <2>2, Zenon DEF GivenUp, Fresh, SettingsInv
<1>14. ASSUME ~closed["server"] PROVE \A f \in Ends : SettingsOf(f)' /\ PingsOf(f)'
  <2>1. PICK q \in Seq(Frames) : q = c \o p /\ q = Prefaced(e)
    BY <1>2, ConcatAt, Zenon DEF Prefaced
  <2>2. /\ Course(q, d, NeedsPreface(e) \/ settingsPending[e], requestSettings[e], localSettings[e],
                    remoteSettings[o], goaway[o], e = "client" \/ Begun(e), Ahead(e))
        /\ Course(d, q, settingsPending[o], requestSettings[o], localSettings[o],
                    remoteSettings[e], goaway[e], Begun(o), Ahead(o))
        /\ PingExchange(q, d, pingPending[e]) /\ PingExchange(d, q, pingPending[o])
    BY <1>2, <1>14, <2>1, PrefaceStep, Zenon
  <2>3. /\ Keeps(q, q \o g, "settings") /\ Keeps(q, q \o g, "ping") /\ Keeps(q, q \o g, "pong")
        /\ Keeps(d, Tail(d), "ack") /\ Keeps(d, Tail(d), "ping") /\ Keeps(d, Tail(d), "pong")
    BY <1>3, <1>5, KindsDiffer, KeepsWhat, Zenon
  <2>4. /\ Course(q \o g, Tail(d), NeedsPreface(e) \/ settingsPending[e], requestSettings[e],
                    localSettings[e], remoteSettings[o], goaway[o], e = "client" \/ Begun(e), Ahead(e))
        /\ PingExchange(q \o g, Tail(d), pingPending[e]) /\ PingExchange(Tail(d), q \o g, pingPending[o])
    BY <2>2, <2>3, CourseKeeps, PingKeeps, Zenon
  <2>5. \A seen2 : Course(Tail(d), q \o g, settingsPending[o], requestSettings[o], localSettings[o],
                            seen2, TRUE, Begun(o), Ahead(o))
    BY <1>3, <1>5, <2>2, CourseRefused, Zenon
  <2>6. channel'[e] = q \o g /\ channel'[o] = Tail(d)
    BY <1>7, <1>8, <2>1, Zenon
  <2>7. SettingsOf(e)'
    BY <1>3, <1>9, <1>11, <2>4, <2>6, Zenon DEF SettingsOf
  <2>8. SettingsOf(o)'
    <3>1. Course(channel'[o], channel'[e], settingsPending'[o], requestSettings'[o], localSettings'[o],
                   remoteSettings'[e], goaway'[e], Begun(o)', Ahead(o)')
      <4>1. Course(Tail(d), q \o g, settingsPending[o], requestSettings[o], localSettings[o],
                     remoteSettings'[e], TRUE, Begun(o), Ahead(o))
        BY <2>5, Zenon
      <4> QED
        BY <1>3, <1>9, <1>11, <2>6, <4>1, Zenon
    <3> QED
      BY <1>1, <3>1, Zenon DEF SettingsOf
  <2>9. PingsOf(e)' /\ PingsOf(o)'
    BY <1>1, <1>3, <2>4, <2>6, Zenon DEF PingsOf
  <2> QED
    BY <1>1, <2>7, <2>8, <2>9, Zenon
<1> QED
  BY <1>3, <1>7, <1>12, <1>13, <1>14, Zenon DEF SettingsInv

\* ReceivePreface: the server begins its exchange.
LEMMA ReceivePrefaceStep ==
  ASSUME SettingsInv, ReceivePreface
  PROVE  SettingsInv'
<1> DEFINE e == "server"
           o == "client"
<1>1. e \in Ends /\ o \in Ends /\ o # e /\ Other(o) = e /\ Other(e) = o /\ \A f \in Ends : f = e \/ f = o
  BY DEF Ends, Other
<1>2. PICK c \in Seq(Frames), d \in Seq(Frames) : c = channel[e] /\ d = channel[o]
  BY <1>1, Typed, Zenon
<1>3. PICK f \in Frames : f = Settings(NonDefault(localSettings[e])) /\ f.kind = "settings"
  <2>1. localSettings[e] \in [Ids -> Int]
    BY <1>1, Typed, Zenon
  <2> QED
    BY <2>1, InitialIs, Kinds, Zenon
<1>4. PICK t \in Seq(Frames) : t = <<f>>
  <2>1. <<f>> \in Seq(Frames)
    OBVIOUS
  <2> QED
    BY <2>1, Zenon
<1>5. /\ ~verified /\ ~closed[e] /\ d # <<>> /\ Head(d) = Preface
      /\ verified' = TRUE /\ Answer(e, t)
      /\ settingsPending' = [settingsPending EXCEPT ![e] = TRUE]
      /\ UNCHANGED <<prefaceSent, requestSettings, localSettings, remoteSettings, pingPending,
                     closed, goaway, requests, pings, early>>
  BY <1>2, <1>3, <1>4, Zenon DEF ReceivePreface
<1>6. None(t, "ack") /\ None(t, "ping") /\ None(t, "pong") /\ Only(t, Settings(NonDefault(localSettings[e])))
  BY <1>3, <1>4, KindsDiffer, Single, Zenon
<1>7. channel' \in [Ends -> Seq(Frames)] /\ channel'[e] = c \o t /\ channel'[o] = Tail(d)
  BY <1>1, <1>2, <1>5, Answers, Zenon
<1>8. settingsPending' \in [Ends -> BOOLEAN] /\ settingsPending'[e] = TRUE
      /\ settingsPending'[o] = settingsPending[o]
  <2>1. settingsPending \in [Ends -> BOOLEAN]
    BY Zenon DEF SettingsInv, TypeOK
  <2> QED
    BY <1>1, <1>5, <2>1, Zenon
<1>9. TypeOK' /\ GivenUp' /\ Fresh'
  BY <1>5, <1>8, Zenon DEF TypeOK, GivenUp, Fresh, SettingsInv
<1>10. Begun(e) = FALSE /\ Begun(e)' = TRUE /\ Begun(o)' = Begun(o)
       /\ Ahead(e)' = Ahead(e) /\ Ahead(o)' = Ahead(o)
  <2>1. verified = FALSE
    BY <1>5, Zenon DEF SettingsInv, TypeOK
  <2> QED
    BY <1>1, <1>5, <2>1, Zenon DEF Begun, Ahead
<1>11. Head(d).kind = "preface" /\ "preface" # "settings" /\ "preface" # "ack" /\ "preface" # "ping"
       /\ "preface" # "pong"
  BY <1>5, Kinds
<1>12. /\ Course(channel'[o], channel'[e], settingsPending[o], requestSettings[o],
                   localSettings[o], remoteSettings[e], goaway[e], Begun(o), Ahead(o))
       /\ PingExchange(channel'[e], channel'[o], pingPending[e])
       /\ PingExchange(channel'[o], channel'[e], pingPending[o])
  <2>1. channel[Other(e)] # <<>> /\ Head(channel[Other(e)]).kind = "preface"
    BY <1>1, <1>2, <1>5, <1>11, Zenon
  <2>2. /\ Course(channel'[Other(e)], channel'[e], settingsPending[Other(e)],
                    requestSettings[Other(e)], localSettings[Other(e)], remoteSettings[e],
                    goaway[e], Begun(Other(e)), Ahead(Other(e)))
        /\ PingExchange(channel'[e], channel'[Other(e)], pingPending[e])
        /\ PingExchange(channel'[Other(e)], channel'[e], pingPending[Other(e)])
    BY <1>1, <1>5, <1>6, <1>11, <2>1, Unconcerned, Zenon
  <2> QED
    BY <1>1, <2>2, Zenon
<1>13. Course(c \o t, Tail(d), TRUE, requestSettings[e], localSettings[e], remoteSettings[o],
                goaway[o], TRUE, Ahead(e))
  <2>1. Course(c, d, settingsPending[e], requestSettings[e], localSettings[e], remoteSettings[o],
                 goaway[o], FALSE, Ahead(e))
    BY <1>1, <1>2, <1>5, <1>10, Zenon DEF SettingsInv, SettingsOf
  <2>2. Keeps(c, c, "settings") /\ Keeps(d, Tail(d), "ack")
    BY <1>5, <1>11, KeepsWhat, Zenon
  <2>3. Course(c, Tail(d), settingsPending[e], requestSettings[e], localSettings[e],
                 remoteSettings[o], goaway[o], FALSE, Ahead(e))
    BY <2>1, <2>2, CourseKeeps, Zenon
  <2>4. PICK l \in [Ids -> Int], k \in Seq(Frames) : l = localSettings[e] /\ k = Tail(d)
    BY <1>1, <1>5, Typed, Shrink, Zenon
  <2>5. Course(c, k, settingsPending[e], requestSettings[e], l, remoteSettings[o], goaway[o], FALSE, Ahead(e))
    BY <2>3, <2>4, Zenon
  <2>6. Course(c \o <<Settings(NonDefault(l))>>, k, TRUE, requestSettings[e], l, remoteSettings[o],
               goaway[o], TRUE, Ahead(e))
    BY <2>5, CourseBegins, Zenon
  <2> QED
    BY <1>3, <1>4, <2>4, <2>6, Zenon
<1>14. SettingsOf(e)' /\ SettingsOf(o)' /\ PingsOf(e)' /\ PingsOf(o)'
  <2>1. SettingsOf(e)'
    BY <1>1, <1>5, <1>7, <1>8, <1>10, <1>13, Zenon DEF SettingsOf
  <2>2. SettingsOf(o)'
    BY <1>1, <1>5, <1>8, <1>10, <1>12, Zenon DEF SettingsOf
  <2>3. PingsOf(e)' /\ PingsOf(o)'
    BY <1>1, <1>5, <1>12, Zenon DEF PingsOf
  <2> QED
    BY <2>1, <2>2, <2>3
<1> QED
  BY <1>1, <1>7, <1>9, <1>14, Zenon DEF SettingsInv

\* ReceiveNoPreface: the server gives the connection up.
LEMMA ReceiveNoPrefaceStep ==
  ASSUME SettingsInv, ReceiveNoPreface
  PROVE  SettingsInv'
<1>1. "server" \in Ends /\ Other("server") = "client"
  BY DEF Ends, Other
<1>2. /\ ~verified /\ channel["client"] # <<>> /\ Answer("server", <<GoAway>>)
      /\ closed' = [closed EXCEPT !["server"] = TRUE] /\ goaway' = [goaway EXCEPT !["server"] = TRUE]
      /\ UNCHANGED <<prefaceSent, verified, settingsPending, requestSettings, localSettings,
                     remoteSettings, pingPending, requests, pings, early>>
  BY DEF ReceiveNoPreface
<1>3. <<GoAway>> \in Seq(Frames)
  BY Kinds
<1>4. channel' \in [Ends -> Seq(Frames)]
  BY <1>1, <1>2, <1>3, Answers, Zenon
<1>5. /\ closed' \in [Ends -> BOOLEAN] /\ closed'["server"] = TRUE
      /\ goaway' \in [Ends -> BOOLEAN] /\ goaway'["server"] = TRUE
  <2>1. closed \in [Ends -> BOOLEAN] /\ goaway \in [Ends -> BOOLEAN]
    BY Zenon DEF SettingsInv, TypeOK
  <2> QED
    BY <1>1, <1>2, <2>1, Zenon
<1>6. TypeOK'
  BY <1>2, <1>5, Zenon DEF TypeOK, SettingsInv
<1>7. GivenUp' /\ Fresh'
  BY <1>2, <1>5, Zenon DEF GivenUp, Fresh, SettingsInv
<1> QED
  BY <1>4, <1>5, <1>6, <1>7, Zenon DEF SettingsInv

-----------------------------------------------------------------------------
(***************************************************************************)
(* The theorems.                                                           *)
(***************************************************************************)

\* At the start nothing is under way.
LEMMA InitHolds == Init => SettingsInv
<1> SUFFICES ASSUME Init PROVE SettingsInv
  OBVIOUS
<1>1. TypeOK
  <2>1. Defaults \in [Ids -> Int] /\ InitialLocal \in [Ids -> Int]
    BY DefaultsClamped, Table, Zenon
  <2>2. localSettings \in [Ends -> [Ids -> Int]] /\ remoteSettings \in [Ends -> [Ids -> Int]]
    BY <2>1, Zenon DEF Init
  <2>3. requestSettings \in [Ends -> Requests \cup {<<>>}]
    BY Zenon DEF Init
  <2>4. requests \in [Ends -> 0..MaxRequests] /\ pings \in [Ends -> 0..MaxPings]
    BY SettingsAssumption DEF Init
  <2> QED
    BY <2>2, <2>3, <2>4 DEF TypeOK, Init
<1>2. channel \in [Ends -> Seq(Frames)]
  BY DEF Init
<1>3. GivenUp /\ Fresh
  BY DEF Init, GivenUp, Fresh, Ends
<1>4. ASSUME NEW e \in Ends PROVE SettingsOf(e) /\ PingsOf(e)
  <2>1. Other(e) \in Ends
    BY TwoEnds
  <2>2. /\ channel[e] = <<>> /\ channel[Other(e)] = <<>> /\ ~settingsPending[e] /\ ~pingPending[e]
        /\ requestSettings[e] = <<>> /\ remoteSettings[Other(e)] = Defaults /\ ~Begun(e) /\ ~Ahead(e)
    BY <2>1, Zenon DEF Init, Begun, Ahead
  <2>3. None(<<>>, "settings") /\ None(<<>>, "ack") /\ None(<<>>, "ping") /\ None(<<>>, "pong")
    BY Single, Zenon
  <2> QED
    BY <2>2, <2>3, Zenon DEF SettingsOf, PingsOf, Course, Exchange, Quiet, PingExchange
<1> QED
  BY <1>1, <1>2, <1>3, <1>4, Zenon DEF SettingsInv

\* Every step keeps the invariant.
LEMMA NextHolds ==
  ASSUME SettingsInv, [Next]_vars
  PROVE  SettingsInv'
<1>1. ASSUME NEW e \in Ends, NEW request \in Requests, SendSettings(e, request) PROVE SettingsInv'
  BY <1>1, SendSettingsStep, Zenon
<1>2. ASSUME NEW e \in Ends, SendPing(e) PROVE SettingsInv'
  BY <1>2, SendPingStep, Zenon
<1>3. ASSUME NEW e \in Ends, Receive(e) PROVE SettingsInv'
  BY <1>3, ReceiveSettingsStep, RefuseSettingsStep, ReceiveAckStep, ReceivePingStep, Zenon DEF Receive
<1>4. CASE ReceivePreface
  BY <1>4, ReceivePrefaceStep
<1>5. CASE ReceiveNoPreface
  BY <1>5, ReceiveNoPrefaceStep
<1>6. CASE UNCHANGED vars
  BY <1>6, Zenon DEF vars, SettingsInv, TypeOK, GivenUp, Fresh, SettingsOf, PingsOf, Begun, Ahead
<1> QED
  BY <1>1, <1>2, <1>3, <1>4, <1>5, <1>6, Zenon DEF Next

\* SETTINGS and PING exchanges are always in one of their states, whatever the
\* two applications call and however the frames of connection.cc interleave.
THEOREM SettingsInvariant ==
  Spec => []SettingsInv
<1>1. SettingsInv /\ [Next]_vars => SettingsInv'
  BY NextHolds
<1> QED
  BY <1>1, InitHolds, PTL DEF Spec

\* What the states say of the flags.
LEMMA CourseCounts ==
  ASSUME SettingsInv, ~closed["server"], NEW e \in Ends
  PROVE  /\ Outstanding(e) <= 1 + Behind(e)
         /\ Outstanding(e) > Behind(e) => settingsPending[e]
         /\ settingsPending[e] => Outstanding(e) >= 1 \/ goaway[Other(e)]
         /\ pingPending[e] <=> Count(channel[e], "ping") + Count(channel[Other(e)], "pong") = 1
<1>1. PICK c \in Seq(Frames), d \in Seq(Frames) : c = channel[e] /\ d = channel[Other(e)]
  BY Typed, TwoEnds, Zenon
<1>2. PICK b \in BOOLEAN, p \in BOOLEAN : b = settingsPending[e] /\ p = pingPending[e]
  BY Typed, Zenon
<1>3. /\ \A k : None(c, k) => Count(c, k) = 0
      /\ \A k : None(d, k) => Count(d, k) = 0
      /\ \A f : Only(c, f) => Count(c, f.kind) = 1
      /\ \A f : Only(d, f) => Count(d, f.kind) = 1
  BY Counts, Zenon
<1>4. PICK q : q = Outstanding(e) /\ q = Count(c, "settings") + Count(d, "ack")
  BY <1>1, Zenon DEF Outstanding
<1>5. SettingsOf(e) /\ PingsOf(e)
  BY Zenon DEF SettingsInv
<1>6. PICK r, l, s, g, n : Course(c, d, b, r, l, s, g, n, Ahead(e)) /\ g = goaway[Other(e)]
  BY <1>1, <1>2, <1>5, Zenon DEF SettingsOf
<1>7. ASSUME ~Ahead(e)
      PROVE  /\ q <= 1 + Behind(e)
             /\ q > Behind(e) => b
             /\ b => q >= 1 \/ g
  <2>1. Exchange(c, d, b, r, l, s, g, n)
    BY <1>6, <1>7, Zenon DEF Course
  <2>2. \/ (~b /\ Count(c, "settings") = 0 /\ Count(d, "ack") = 0)
        \/ (b /\ Count(c, "settings") = 1 /\ Count(d, "ack") = 0)
        \/ (b /\ Count(c, "settings") = 0 /\ Count(d, "ack") = 1)
        \/ (b /\ Count(c, "settings") = 0 /\ Count(d, "ack") = 0 /\ g)
    <3>1. /\ \A x : Only(c, Settings(x)) => Count(c, "settings") = 1
          /\ Only(d, Ack) => Count(d, "ack") = 1
      BY <1>3, Kinds, ZenonT(60)
    <3>2. CASE Quiet(c, d, b, r, l, s, n)
      BY <1>3, <3>2, Zenon DEF Quiet
    <3>3. CASE Asked(c, d, b, r, l, s, n)
      BY <1>3, <3>1, <3>3, Zenon DEF Asked
    <3>4. CASE Answered(c, d, b, r, l, s, n)
      BY <1>3, <3>1, <3>4, Zenon DEF Answered
    <3>5. CASE RefusedBy(c, d, b, g, n)
      BY <1>3, <3>5, Zenon DEF RefusedBy
    <3> QED
      BY <2>1, <3>2, <3>3, <3>4, <3>5, Zenon DEF Exchange
  <2>3. \/ (~b /\ q = 0)
        \/ (b /\ q = 1)
        \/ (b /\ q = 0 /\ g)
    BY <1>4, <2>2
  <2>4. Behind(e) = 0
    BY <1>7, Zenon DEF Behind, Ahead
  <2>5. q <= 1 + 0 /\ ~(0 > 0) /\ 1 >= 1 /\ (q = 0 \/ q = 1)
    BY <2>3
  <2> QED
    BY <2>3, <2>4, <2>5, Zenon
<1>8. ASSUME Ahead(e)
      PROVE  /\ q <= 1 + Behind(e)
             /\ q > Behind(e) => b
             /\ b => q >= 1 \/ g
  <2>1. Lags(c, d, b, g, n)
    BY <1>6, <1>8, Zenon DEF Course, EarlyExchange
  <2>2. (q <= IF n THEN 2 ELSE 1) /\ (q = 2 => b) /\ (b => q >= 1 \/ g)
    BY <1>4, <2>1, Zenon DEF Lags
  <2>3. q \in Nat
    <3>1. Count(c, "settings") \in Nat /\ Count(d, "ack") \in Nat
      BY LagsIs, Zenon
    <3> QED
      BY <1>4, <3>1
  <2>4. Behind(e) = 1
    BY <1>8, Zenon DEF Behind, Ahead
  <2>5. q <= 1 + 1 /\ (q > 1 => q = 2)
    BY <2>2, <2>3
  <2> QED
    BY <2>2, <2>4, <2>5, Zenon
<1>9. \/ (~p /\ Count(c, "ping") = 0 /\ Count(d, "pong") = 0)
      \/ (p /\ Count(c, "ping") = 1 /\ Count(d, "pong") = 0)
      \/ (p /\ Count(c, "ping") = 0 /\ Count(d, "pong") = 1)
  BY <1>1, <1>2, <1>3, <1>5, Kinds, ZenonT(60) DEF PingsOf, PingExchange
<1>10. p <=> Count(c, "ping") + Count(d, "pong") = 1
  BY <1>9
<1> QED
  BY <1>1, <1>2, <1>4, <1>6, <1>7, <1>8, <1>10, Zenon

\* _settings_pending and _ping_pending are exact for a client and for a server that
\* waits for the preface: send_settings and SendPing never have two requests
\* outstanding, and an ACK is the ACK of the pending one.  A server that does not
\* wait has at most one SETTINGS more outstanding, and no ACK is lost.
THEOREM PendingStaysExact ==
  Spec => []PendingIsExact
<1>1. SettingsInv => PendingIsExact
  BY CourseCounts, Zenon DEF PendingIsExact, SettingsInv
<1> QED
  BY <1>1, SettingsInvariant, PTL

\* The settings an end enforces and those its peer goes by agree, as
\* received_settings applies and acknowledges them; for a server that has called
\* SendSettings before the preface, the peer comes to what the server asks for or
\* started with, id by id.
THEOREM EndsStayInAgreement ==
  Spec => []EndsAgree
<1>1. SettingsInv => EndsAgree
  <2> SUFFICES ASSUME SettingsInv PROVE EndsAgree
    OBVIOUS
  <2>1. ASSUME NEW e \in Ends, Begun(e), ~goaway[Other(e)]
        PROVE  IF Ahead(e)
               THEN \A id \in Ids : Upcoming(channel[e], remoteSettings[Other(e)], id)
                      \in {Clamped(id, Overwrite(localSettings[e], requestSettings[e])[id]),
                           Clamped(id, InitialLocal[id])}
               ELSE \/ remoteSettings[Other(e)] = ClampedAll(localSettings[e])
                    \/ /\ settingsPending[e]
                       /\ remoteSettings[Other(e)] =
                            ClampedAll(Overwrite(localSettings[e], requestSettings[e]))
                    \/ /\ settingsPending[e] /\ requestSettings[e] = <<>>
                       /\ remoteSettings[Other(e)] = Defaults
    <3>1. ~closed["server"]
      <4> SUFFICES ASSUME closed["server"] PROVE FALSE
        OBVIOUS
      <4>1. goaway["server"] /\ ~verified
        BY Zenon DEF SettingsInv, GivenUp
      <4>2. CASE e = "client"
        BY <2>1, <4>1, <4>2 DEF Other
      <4>3. CASE e = "server"
        BY <2>1, <4>1, <4>3 DEF Begun
      <4> QED
        BY <4>2, <4>3, TwoEnds
    <3>2. SettingsOf(e)
      BY <3>1, Zenon DEF SettingsInv
    <3>3. CASE ~Ahead(e)
      BY <2>1, <3>2, <3>3, Zenon DEF SettingsOf, Course, Exchange, Quiet, Asked, Answered, RefusedBy
    <3>4. CASE Ahead(e)
      BY <2>1, <3>2, <3>4, Zenon DEF SettingsOf, Course, EarlyExchange, Expected
    <3> QED
      BY <3>3, <3>4
  <2> QED
    BY <2>1, Zenon DEF EndsAgree, Begun, Ahead
<1> QED
  BY <1>1, SettingsInvariant, PTL

=============================================================================
