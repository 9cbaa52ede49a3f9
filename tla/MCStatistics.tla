---------------------------- MODULE MCStatistics ----------------------------
(***************************************************************************)
(* The statistics of one member with two views at once: one problem whose  *)
(* difficulty is the lower bound of a band and one without a difficulty,   *)
(* two contests two seconds apart, one for each rating, and a table of one *)
(* row.                                                                    *)
(***************************************************************************)
EXTENDS Statistics, TLC

CONSTANTS p, q

MCDifficulty == p :> 400
MCBands == <<[low |-> 0, high |-> 399], [low |-> 400, high |-> 9999]>>
MCWindows == <<0, 1>>
MCAttempts == {<<p, TRUE>>, <<q, TRUE>>, <<p, FALSE>>}
MCOpen == 0 :> {1} @@ 2 :> {2}

Symmetry == Permutations(Views)

=============================================================================
