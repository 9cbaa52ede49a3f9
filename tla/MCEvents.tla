------------------------------ MODULE MCEvents ------------------------------
(***************************************************************************)
(* Events on small sets.                                                   *)
(***************************************************************************)
EXTENDS Events, TLC

Symmetry == Permutations(Requests) \cup Permutations(Bodies) \cup Permutations(EventIds)

=============================================================================
