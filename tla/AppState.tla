------------------------------ MODULE AppState ------------------------------
(***************************************************************************)
(* What the process keeps in memory (app_state.rs): the rate limiter and,  *)
(* beside it, the results of the ranker, kept for a PDF to be made of      *)
(* them.  analyze (ranker_handler.rs) goes through both: a call the        *)
(* limiter lets through works for a while and then stores its result under *)
(* a fresh id.  Both maps are lost when the server restarts.               *)
(***************************************************************************)
EXTENDS RateLimiter, Sequences

CONSTANTS
    Analyzers,    \* the keys "analyze:<ip>"
    ResultLife,   \* SESSION_TTL
    MaxResults,   \* MAX_SESSIONS
    MaxRunning    \* bound on the analyses under way at once

VARIABLES
    running,  \* number of analyses let through and still at work
    born,     \* the instants at which results were stored; a result is known
              \* by its place in this history
    kept      \* the results in the cache

appVars ==
    <<hits, tracked, log, answer, calls, now, granted, running, born, kept>>

ASSUME ResultAssumption ==
    /\ Analyzers \subseteq Keys
    /\ ResultLife \in Nat \ {0}
    /\ MaxResults \in Nat \ {0}
    /\ MaxRunning \in Nat

Results == DOMAIN born

\* No result carries an instant ahead of the clock.
AppTypeOK ==
    /\ TypeOK
    /\ running \in Nat
    /\ born \in Seq(Nat)
    /\ \A r \in Results : born[r] <= now
    /\ kept \subseteq Results

AppInit ==
    /\ Init
    /\ running = 0
    /\ born = <<>>
    /\ kept = {}

\* now.duration_since(stored_at) < SESSION_TTL
Alive(r) == now - born[r] < ResultLife

\* Faulty variant: the newest results make room.
SparesOldest(stay, live) ==
    /\ Cardinality(stay) = IF Cardinality(live) < MaxResults
                           THEN Cardinality(live) ELSE MaxResults - 1
    /\ \A r \in stay, s \in live \ stay : born[r] <= born[s]

\* Faulty variant: room is made only once there are too many.
MakesRoomLate(stay, live) ==
    /\ Cardinality(stay) = IF Cardinality(live) <= MaxResults
                           THEN Cardinality(live) ELSE MaxResults - 1
    /\ \A r \in stay, s \in live \ stay : born[s] <= born[r]

\* Of the live results the oldest make room for one more, if need be.
MakesRoom(stay, live) ==
    /\ Cardinality(stay) = IF Cardinality(live) < MaxResults
                           THEN Cardinality(live) ELSE MaxResults - 1
    /\ \A r \in stay, s \in live \ stay : born[s] <= born[r]

\* analyze, up to its first await: one check of the caller's address.
Analyze(k, at) ==
    /\ running < MaxRunning
    /\ Check(k, at)
    /\ running' = IF answer'.ok THEN running + 1 ELSE running
    /\ UNCHANGED <<born, kept>>

\* A request with no title or contests, a contest that cannot be fetched, a
\* client that goes away: nothing is stored, and the call stays counted.
AnalysisFails ==
    /\ running > 0
    /\ running' = running - 1
    /\ UNCHANGED <<vars, born, kept>>

\* store_result
StoreResult ==
    /\ running > 0
    /\ running' = running - 1
    /\ born' = Append(born, now)
    /\ \E stay \in SUBSET kept :
          /\ MakesRoom(stay, {r \in kept : Alive(r)})
          /\ stay \subseteq {r \in kept : Alive(r)}
          /\ kept' = stay \cup {Len(born) + 1}
    /\ UNCHANGED vars

\* get_result: a result past its life is dropped by whoever asks for it.
GetResult(r) ==
    /\ r \in kept /\ ~Alive(r)
    /\ kept' = kept \ {r}
    /\ UNCHANGED <<vars, running, born>>

\* The other endpoints use the limiter under keys of their own.
OtherCheck(k, at) ==
    /\ Check(k, at) \/ Count(k, at)
    /\ UNCHANGED <<running, born, kept>>

OtherReset(k) ==
    /\ Reset(k)
    /\ UNCHANGED <<running, born, kept>>

\* Requests under way, counters and results all go.
AppRestart ==
    /\ Restart
    /\ running' = 0
    /\ born' = <<>>
    /\ kept' = {}

AppTick ==
    /\ Tick
    /\ UNCHANGED <<running, born, kept>>

AppNext ==
    \/ \E k \in Analyzers, at \in Instants : Analyze(k, at)
    \/ AnalysisFails
    \/ StoreResult
    \/ \E r \in Results : GetResult(r)
    \/ \E k \in Keys \ Analyzers, at \in Instants : OtherCheck(k, at)
    \/ \E k \in Keys \ Analyzers : OtherReset(k)
    \/ AppRestart
    \/ AppTick

AppSpec == AppInit /\ [][AppNext]_appVars

-----------------------------------------------------------------------------
(* Properties.                                                             *)

\* A result can be downloaded for its whole life, unless the server restarts or
\* as many results as the cache holds are stored no earlier than it: what makes
\* room is never a result younger than those that stay (app_state.rs:44-64,
\* docs/api.md:1310-1312 names only the restart).
LostOnlyToNewer ==
    \A r \in Results :
        Alive(r) /\ r \notin kept =>
            Cardinality({s \in Results : s # r /\ born[s] >= born[r]})
                >= MaxResults

\* The cache never holds more than its cap, expired results included
\* (app_state.rs:12, 51-63).
CacheIsBounded == Cardinality(kept) <= MaxResults

-----------------------------------------------------------------------------
(* What the proofs carry along.                                            *)

CacheInv == AppTypeOK /\ LostOnlyToNewer /\ CacheIsBounded

=============================================================================
