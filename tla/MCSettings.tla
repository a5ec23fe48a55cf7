----------------------------- MODULE MCSettings -----------------------------
(***************************************************************************)
(* Two parameters, one refused out of its range and one clamped, and an id *)
(* that is unknown.                                                        *)
(***************************************************************************)
EXTENDS SettingsExchange

MCParameters ==
  [id \in 1..2 |->
     IF id = 1 THEN [default |-> 1, min |-> 1, max |-> 3, disconnect |-> TRUE]    \* MAX_FRAME_SIZE
               ELSE [default |-> 2, min |-> 0, max |-> 2, disconnect |-> FALSE]]  \* MAX_HEADER_LIST_SIZE

MCInitialLocal == [id \in 1..2 |-> 1]   \* MAX_HEADER_LIST_SIZE is not the default

Entry(id, value) == [id |-> id, value |-> value]

MCRequests ==
  {<<>>, <<Entry(1, 3)>>, <<Entry(2, 3), Entry(9, 1)>>, <<Entry(2, 0), Entry(1, 0)>>,
   <<Entry(1, 2), Entry(1, 3)>>}
=============================================================================
