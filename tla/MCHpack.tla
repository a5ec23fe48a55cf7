------------------------------ MODULE MCHpack ------------------------------
(***************************************************************************)
(* Hpack between two endpoints of this library, and the receiver alone     *)
(* against other encoders (foreign = TRUE): every kind of representation   *)
(* with the indices around the ends of both tables, and size updates       *)
(* around the limit.                                                       *)
(*                                                                         *)
(* The names "a", "b" and "e" are in the static table (a name outside it   *)
(* is never indexed) and compete for two slots of the hash table, so that  *)
(* entries lose their slot while they are live and are inserted again.     *)
(* "x-bin" is not, and is one of the names the compressor counts one octet *)
(* more for.                                                               *)
(***************************************************************************)
EXTENDS Hpack

MCKeySize == [k \in {"a", "b", "e", "x-bin"} |-> 1]
MCValueSize == [v \in {"s", "m", "l", "x"} |->
                  CASE v = "s" -> 1 [] v = "m" -> 3 [] v \in {"l", "x"} -> 20]
MCBinaryKeys == {"x-bin"}

F(k, v) == [key |-> k, value |-> v]

MCStaticTable == <<F("a", "l"), F("b", "l"), F("e", "l")>>
MCFirstSlot == [k \in DOMAIN MCKeySize |-> IF k = "b" THEN 1 ELSE 0]
MCSecondSlot == [k \in DOMAIN MCKeySize |-> IF k = "a" THEN 1 ELSE 0]

\* Small and medium fields, one larger than the table, an entry of the static
\* table, a name outside it, and lists of two fields.
MCHeaderLists ==
  {<<F("a", "s")>>, <<F("a", "m")>>, <<F("b", "m")>>, <<F("e", "s")>>,
   <<F("a", "l"), F("x-bin", "m")>>, <<F("a", "s"), F("b", "x")>>}

\* Indices of the static table, of the dynamic one and beyond; an oversized value
\* only by an overrun.
MCRepresentations ==
  {Representation("indexed", i, "", "") : i \in {0, 1, 4, 5, 7, 8}}
  \cup {Representation(kind, i, "", v) :
          kind \in {"incremental", "literal"}, i \in {1, 2, 5, 8}, v \in {"s", "m"}}
  \cup {Representation("incremental", 0, "x-bin", v) : v \in {"s", "m"}}
  \cup {Representation("update", size, "", "") : size \in {0, 5, 12, 18, 19}}

-----------------------------------------------------------------------------
VARIABLE foreign    \* whether the peer's encoder is another, chosen once

MCInit == Init /\ foreign \in BOOLEAN

ForeignFrame == ReceiverNext /\ UNCHANGED <<c, wire>>

MCNext ==
  \/ foreign /\ ForeignFrame /\ UNCHANGED foreign
  \/ ~foreign /\ Next /\ UNCHANGED foreign

MCSpec == MCInit /\ [][MCNext]_<<vars, foreign>>
=============================================================================
