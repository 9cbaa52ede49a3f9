---------------------------- MODULE RateLimiter ----------------------------
(***************************************************************************)
(* The sliding-window limiter of utils/rate_limit.rs: a map from keys to   *)
(* instants behind a mutex.  Every call holds the lock for its whole body, *)
(* so check, count and reset are one action each; the caller's instant is  *)
(* taken before the lock.  The map is lost when the server restarts.       *)
(*                                                                         *)
(* The keys of all endpoints are in one map, with windows of 5, 15 and 60  *)
(* minutes; a sweep measures every key by the window of whoever called.    *)
(***************************************************************************)
EXTENDS Integers, FiniteSets

CONSTANTS
    Keys, Limit, Window, MaxLag,  \* as in WindowLimit
    MaxTracked,  \* MAX_TRACKED_KEYS: above it a check sweeps the map first
    MaxTime,     \* bound on the clock
    MaxCalls     \* bound on the calls let through

VARIABLES
    hits,     \* for each key the instants the map holds
    tracked,  \* the keys of the map
    log, answer, calls, now,  \* history and clock of WindowLimit
    granted  \* history: for each key the calls let through since the key was
             \* reset, as docs/api.md counts them

vars == <<hits, tracked, log, answer, calls, now, granted>>

Promise == INSTANCE WindowLimit

ASSUME LimiterAssumption ==
    /\ Limit \in [Keys -> Nat \ {0}]
    /\ Window \in [Keys -> Nat \ {0}]
    /\ MaxLag \in Nat /\ MaxTracked \in Nat /\ MaxTime \in Nat /\ MaxCalls \in Nat

Hit == Promise!Hit
InWindow(S, at, window) == Promise!InWindow(S, at, window)
Instants == Promise!Instants

\* No instant of the map lies ahead of the clock.
TypeOK ==
    /\ hits \in [Keys -> SUBSET Hit]
    /\ \A k \in Keys : \A h \in hits[k] : h.at <= now /\ h.id < calls
    /\ tracked \subseteq Keys
    /\ log \in [Keys -> SUBSET Hit]
    /\ granted \in [Keys -> SUBSET Hit]
    /\ answer \in Promise!Outcome \cup {Promise!NoAnswer}
    /\ calls \in Nat
    /\ now \in Nat

Init ==
    /\ hits = [k \in Keys |-> {}]
    /\ tracked = {}
    /\ granted = [k \in Keys |-> {}]
    /\ Promise!LogInit

Overfull == Cardinality(tracked) > MaxTracked

\* Faulty variant: the sweep keeps a key if all its hits are in the window.
SurvivesAll(j, at, window) == InWindow(hits[j], at, window) = hits[j]

\* The sweep keeps a key with a hit in the window OF THE CALLING KEY.
Survives(j, at, window) == InWindow(hits[j], at, window) # {}

\* The map a check works on.
Kept(k, at) ==
    IF Overfull THEN {j \in tracked : Survives(j, at, Window[k])} ELSE tracked

\* times.retain(|t| now.duration_since(*t) < window)
Fresh(S, at, k) == InWindow(S, at, Window[k])

\* Faulty variant: one call too many.
HasRoomForOneMore(S, k) == Cardinality(S) <= Limit[k]

HasRoom(S, k) == Cardinality(S) < Limit[k]

\* Faulty variant: the instant the hit expires instead of the one it was made.
ExpiryStamp(k, at) == [at |-> at + Window[k], id |-> calls]

\* times.push(now)
Stamp(k, at) == [at |-> at, id |-> calls]

\* The hits a check finds for its key.
Found(k, at) == IF k \in Kept(k, at) THEN Fresh(hits[k], at, k) ELSE {}

\* The map after it: the calling key holds what was found and the new hit.
Held(k, at, new) ==
    [j \in Keys |-> IF j = k THEN Found(k, at) \cup new
                   ELSE IF j \in Kept(k, at) THEN hits[j] ELSE {}]

\* History: the keys whose hits a sweep drops while they still count.
Forgotten(k, at) ==
    {j \in tracked \ Kept(k, at) : InWindow(hits[j], now, Window[j]) # {}}

Check(k, at) ==
    /\ tracked' = Kept(k, at) \cup {k}
    /\ \/ /\ HasRoom(Found(k, at), k)
          /\ calls < MaxCalls
          /\ hits' = Held(k, at, {Stamp(k, at)})
          /\ log' = [Promise!Forgetting(Forgotten(k, at)) EXCEPT
                        ![k] = @ \cup {[at |-> at, id |-> calls]}]
          /\ granted' = [granted EXCEPT ![k] = @ \cup {[at |-> at, id |-> calls]}]
          /\ calls' = calls + 1
       \/ /\ ~HasRoom(Found(k, at), k)
          /\ hits' = Held(k, at, {})
          /\ log' = Promise!Forgetting(Forgotten(k, at))
          /\ UNCHANGED <<calls, granted>>
    /\ answer' = [key |-> k, at |-> at, ok |-> HasRoom(Found(k, at), k)]
    /\ UNCHANGED now

\* How many hits lie in the window: prunes, but never drops the key.
Count(k, at) ==
    /\ k \in tracked
    /\ hits' = [hits EXCEPT ![k] = Fresh(@, at, k)]
    /\ UNCHANGED <<tracked, log, answer, calls, now, granted>>

Reset(k) ==
    /\ hits' = [hits EXCEPT ![k] = {}]
    /\ tracked' = tracked \ {k}
    /\ log' = [log EXCEPT ![k] = {}]
    /\ granted' = [granted EXCEPT ![k] = {}]
    /\ UNCHANGED <<answer, calls, now>>

Restart ==
    /\ hits' = [k \in Keys |-> {}]
    /\ tracked' = {}
    /\ log' = [k \in Keys |-> {}]
    /\ granted' = [k \in Keys |-> {}]
    /\ UNCHANGED <<answer, calls, now>>

Tick ==
    /\ now < MaxTime
    /\ now' = now + 1
    /\ UNCHANGED <<hits, tracked, log, answer, calls, granted>>

Next ==
    \/ \E k \in Keys, at \in Instants : Check(k, at) \/ Count(k, at)
    \/ \E k \in Keys : Reset(k)
    \/ Restart
    \/ Tick

Spec == Init /\ [][Next]_vars

-----------------------------------------------------------------------------
(* Properties.                                                             *)

\* No key gets more calls through than its limit in its window, whatever order
\* the callers took the lock in, if no sweep can lose it: its window is the
\* shortest, or there are never more keys than the map sweeps at
\* (rate_limit.rs:57-85, docs/api.md:39-44).
SafeFromSweeps(k) == ~Promise!Crowded \/ \A j \in Keys : Window[k] <= Window[j]

SafeKeysAreLimited ==
    \A k \in Keys : SafeFromSweeps(k) =>
        Cardinality(InWindow(granted[k], now, Window[k])) <= Limit[k]

\* Pruning, sweeping and the order of the callers show in the answers only in
\* that a sweep may lose keys with a longer window than the caller's: otherwise
\* the limiter is WindowLimit (rate_limit.rs:57-104).
KeepsPromise == Promise!LogSpec

-----------------------------------------------------------------------------
(* What the proofs carry along.                                            *)

\* Of the calls not forgotten no more than the limit lie in the window.
LogLimited ==
    \A k \in Keys : Cardinality(InWindow(log[k], now, Window[k])) <= Limit[k]

\* The map holds all hits still in their window, and only hits of the log.
MapInv ==
    \A k \in Keys :
        /\ InWindow(log[k], now, Window[k]) \subseteq hits[k]
        /\ hits[k] \subseteq log[k]
        /\ IsFiniteSet(log[k])
        /\ \A h \in log[k] : h.at <= now /\ h.id < calls
        /\ hits[k] # {} => k \in tracked

\* A key no sweep can lose is never forgotten.
GrantedInv == \A k \in Keys : SafeFromSweeps(k) => granted[k] = log[k]

LimiterInv == TypeOK /\ MapInv /\ LogLimited /\ GrantedInv

=============================================================================
