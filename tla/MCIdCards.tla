----------------------------- MODULE MCIdCards -----------------------------
(***************************************************************************)
(* IdCards on small sets.                                                  *)
(***************************************************************************)
EXTENDS IdCards, TLC

Symmetry == Permutations(Cards) \cup Permutations(Requests)

=============================================================================
