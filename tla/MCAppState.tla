----------------------------- MODULE MCAppState -----------------------------
(***************************************************************************)
(* AppState on two keys, one of them an address that analyses contests.    *)
(***************************************************************************)
EXTENDS AppState, TLC

CONSTANTS login, analyze

\* Two calls per window of a tick for the analyses, one per two ticks for the login.
OwnLimit == [k \in Keys |-> IF k = analyze THEN 2 ELSE 1]
OwnWindow == [k \in Keys |-> IF k = analyze THEN 1 ELSE 2]

=============================================================================
