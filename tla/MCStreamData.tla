---------------------------- MODULE MCStreamData ----------------------------
(***************************************************************************)
(* A stream with two blocks of memory, two slices of the caller and        *)
(* payloads whose bytes can be told apart.                                 *)
(***************************************************************************)
EXTENDS StreamData

MCStaticBytes == <<1>>
MCPayloads == {<<1, 2>>}

\* call and got are written and never read: two states that differ in them
\* only have the same future, and every step is compared with the abstract one.
MCView == <<heap, obj, buf, peeked>>
MCSymmetry == Permutations(Blocks) \cup Permutations(Objects)
=============================================================================
