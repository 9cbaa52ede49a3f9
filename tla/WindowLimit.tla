---------------------------- MODULE WindowLimit ----------------------------
(***************************************************************************)
(* What the rate limiter promises: docs/api.md:36-46 as a machine that     *)
(* prunes nothing.  log keeps every call it let through since the key was  *)
(* last cleared.  One thing the document does not say: beyond MaxTracked   *)
(* keys a call may make it forget keys with a longer window than its own.  *)
(*                                                                         *)
(* A caller takes its instant before it takes the limiter's lock, so its   *)
(* instant may lie behind the clock by up to MaxLag.                       *)
(***************************************************************************)
EXTENDS Integers, FiniteSets

CONSTANTS
    Keys,     \* "login:a@b.com", "analyze:10.0.0.1", ...
    Limit,    \* calls let through per window, for each key
    Window,   \* length of the window, for each key
    MaxLag,   \* how far behind the clock a caller's instant may be
    MaxTracked  \* how many keys it remembers whatever their windows

VARIABLES
    log,      \* for each key the calls let through since it was cleared
    answer,   \* the last call and its outcome
    calls,    \* number of calls let through so far: tells hits apart
    now       \* the clock

abstractVars == <<log, answer, calls, now>>

\* A recorded call.  Two calls may carry the same instant.
Hit == [at : Nat, id : Nat]

Outcome == [key : Keys, at : Nat, ok : BOOLEAN]
NoAnswer == [ok |-> TRUE]   \* before the first call

\* The instants a caller may carry.
Instants == {at \in 0..now : now <= at + MaxLag}

\* duration_since(t) < window; a hit later than the caller's instant has age 0.
InWindow(hits, at, window) == {h \in hits : at - h.at < window}

Crowded == ~(IsFiniteSet(Keys) /\ Cardinality(Keys) <= MaxTracked)

\* The keys a call may make the limiter forget.
Forgettable(k) == IF Crowded THEN {j \in Keys : Window[k] < Window[j]} ELSE {}

Forgetting(S) == [j \in Keys |-> IF j \in S THEN {} ELSE log[j]]

LogInit ==
    /\ log = [k \in Keys |-> {}]
    /\ answer = NoAnswer
    /\ calls = 0
    /\ now = 0

\* A call is let through only if fewer than the limit lie in the window that
\* ends now, and refused only if the limit lie in the caller's own window.
\* The keys of S are forgotten on the way.
LogCheck(k, at, S) ==
    \/ /\ Cardinality(InWindow(log[k], now, Window[k])) < Limit[k]
       /\ log' = [Forgetting(S) EXCEPT ![k] = @ \cup {[at |-> at, id |-> calls]}]
       /\ calls' = calls + 1
       /\ answer' = [key |-> k, at |-> at, ok |-> TRUE]
       /\ UNCHANGED now
    \/ /\ Cardinality(InWindow(log[k], at, Window[k])) >= Limit[k]
       /\ log' = Forgetting(S)
       /\ answer' = [key |-> k, at |-> at, ok |-> FALSE]
       /\ UNCHANGED <<calls, now>>

LogClear(S) ==
    /\ log' = Forgetting(S)
    /\ UNCHANGED <<answer, calls, now>>

LogTick ==
    /\ now' = now + 1
    /\ UNCHANGED <<log, answer, calls>>

LogNext ==
    \/ \E k \in Keys, at \in Instants : \E S \in SUBSET Forgettable(k) :
           LogCheck(k, at, S)
    \/ \E S \in SUBSET Keys : LogClear(S)
    \/ LogTick

LogSpec == LogInit /\ [][LogNext]_abstractVars

=============================================================================
