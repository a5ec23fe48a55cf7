------------------------------- MODULE Totals -------------------------------
(***************************************************************************)
(* What the numbers of a sequence add up to, as a function of how far the  *)
(* addition has come.  The lemmas are in TotalsProofs.                     *)
(***************************************************************************)
EXTENDS Integers, Sequences

Total(w) ==
  LET upto[i \in 0..Len(w)] == IF i = 0 THEN 0 ELSE upto[i - 1] + w[i]
  IN  upto[Len(w)]
=============================================================================
