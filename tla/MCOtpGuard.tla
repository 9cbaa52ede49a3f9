----------------------------- MODULE MCOtpGuard -----------------------------
(***************************************************************************)
(* OtpGuard with a few interchangeable codes and requests.                 *)
(***************************************************************************)
EXTENDS OtpGuard, TLC

Symmetry == Permutations(Codes) \cup Permutations(Requests)

=============================================================================
