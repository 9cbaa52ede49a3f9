----------------------------- MODULE MCAccounts -----------------------------
(***************************************************************************)
(* Accounts with a student address and an ordinary one.                    *)
(***************************************************************************)
EXTENDS Accounts, TLC

Symmetry == Permutations(Users) \cup Permutations(Requests)

=============================================================================
