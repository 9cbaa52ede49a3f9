----------------------------- MODULE MCSessions -----------------------------
(* Small instances of Sessions for TLC.                                    *)
EXTENDS Sessions, TLC

\* Enough to make an admin and to unmake one.
MCFewBodies ==
    {[admin |-> "grant", manager |-> "keep"], [admin |-> "revoke", manager |-> "grant"]}

\* Slots are interchangeable, and so are the accounts that start with no role.
Symmetry == Permutations(Requests) \cup Permutations(Users \ Founders)

=============================================================================
