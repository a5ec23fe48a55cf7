----------------------------- MODULE MCSendPath -----------------------------
(***************************************************************************)
(* SendPath for model checking: a behaviour has failing sends or streams   *)
(* that the server resets, not both; the proofs have them together.        *)
(***************************************************************************)
EXTENDS SendPath

VARIABLE failing   \* which of the two

MCInit == Init /\ failing \in BOOLEAN

MCNext ==
  /\ Next
  /\ IF failing THEN resets' = 0 ELSE ~broken'
  /\ UNCHANGED failing

MCSpec == MCInit /\ [][MCNext]_<<vars, failing>> /\ Fairness
=============================================================================
