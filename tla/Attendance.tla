----------------------------- MODULE Attendance -----------------------------
(***************************************************************************)
(* The attendance table of a profile: the contests a member entered, those *)
(* missed, and those closed to a rating like theirs.  It pairs two things  *)
(* of different age: the list of contests, which all views share for six   *)
(* hours (fetch_contest_list of services/codeforces.rs and atcoder.rs),    *)
(* and the member's results, asked for at once on Codeforces and stored by *)
(* the background sync on AtCoder (build_attendance in                     *)
(* services/codeforces.rs and handlers/atcoder_handler.rs).                *)
(*                                                                         *)
(* A contest is known by the second it starts, a list by the second it was *)
(* made, a member's history by the number of results in it.                *)
(***************************************************************************)
EXTENDS Integers, Sequences, FiniteSetsExt

CONSTANTS
    Contests,    \* their starts
    Ratings,
    Open,        \* the ratings each contest is open to; unrated ones to none
    Slack,       \* 86_400: how long before the first result a row may start
    MaxRows,     \* MAX_ATTENDANCE_ROWS
    ListLife,    \* CONTEST_LIST_TTL
    Patience,    \* the timeout of an HTTP client
    Views,       \* slots for views in flight; a bound, the code has none
    None,
    MaxNow       \* bound on the clock

ASSUME AttendanceAssumption ==
    /\ Contests \subseteq Nat /\ IsFiniteSet(Contests) /\ Ratings \subseteq Nat
    /\ Open \in [Contests -> SUBSET Ratings]
    /\ Slack \in Nat /\ MaxRows \in Nat /\ ListLife \in Nat \ {0} /\ Patience \in Nat

VARIABLES
    platform,  \* whose views these are; the two platforms share nothing
    now,       \* the clock
    results,   \* what the platform has published of the member, in order
    list,      \* the cached list: when it was made and when it was received
    stored,    \* results in platform_rating_history, and behind the stored rating
    sync,      \* results fetched by the sync under way
    views

attendanceVars == <<platform, now, results, list, stored, sync, views>>

\* The results a view has and when it got its list; known is history: results it
\* cannot miss; refused says that the platform did not answer the question for them.
NoView == [step |-> "idle", rating |-> 0, results |-> None, list |-> None,
           since |-> 0, known |-> 0, refused |-> FALSE]

AttendanceInit ==
    /\ platform \in {"codeforces", "atcoder"}
    /\ now = 0
    /\ results = <<>>
    /\ list = None
    /\ stored = None
    /\ sync = None
    /\ views = [v \in Views |-> NoView]

-----------------------------------------------------------------------------
(* The table.                                                              *)

\* The contests of a list: started, and on AtCoder rated.
Listed(made) == {c \in Contests : c <= made /\ (platform = "atcoder" => Open[c] # {})}

\* joined_at, of a view with a result
FirstAt(view) == Min({results[i].at : i \in 1 .. view.results})

\* Faulty variant: nothing before the first result is listed.
FromFirstResult(view) == {c \in Listed(view.list) : c >= FirstAt(view)}

\* From a day before the first result; without a result there is no table.
Since(view) == {c \in Listed(view.list) : c >= FirstAt(view) - Slack}

\* The newest of them.
Rows(view) ==
    IF view.results = 0 THEN {}
    ELSE {c \in Since(view) : Cardinality({d \in Since(view) : d > c}) < MaxRows}

Entered(view) == {results[i].contest : i \in 1 .. view.results}

\* rating_at: after the last result before the contest, else what the first one
\* found, which is the lowest rating.
RatingAt(n, moment) ==
    LET before == {i \in 1 .. n : results[i].at <= moment}
    IN IF before = {} THEN CHOOSE r \in Ratings : \A s \in Ratings : r <= s
       ELSE results[Cardinality(before)].rating

\* Codeforces asks for the rating of the day, AtCoder for the stored one.
MayEnter(view, c) ==
    IF platform = "codeforces" THEN RatingAt(view.results, c) \in Open[c]
    ELSE view.rating = 0 \/ results[view.rating].rating \in Open[c]

\* Faulty variant: the band decides, even about those who were there.
BandDecides(view, c) == MayEnter(view, c)

\* Turning up proves it, whatever the band says.
Eligible(view, c) == c \in Entered(view) \/ MayEnter(view, c)

\* The summary, in unsigned numbers: the subtraction must not wrap.
Participated(view) == Cardinality(Rows(view) \cap Entered(view))
Ineligible(view) == Cardinality({c \in Rows(view) : ~Eligible(view, c)})
Missed(view) == Cardinality(Rows(view)) - Participated(view) - Ineligible(view)

-----------------------------------------------------------------------------
(* The list of contests.                                                   *)

InView(v, step) == views[v].step = step

\* at.elapsed() < CONTEST_LIST_TTL
Fresh == list # None /\ now - list.at < ListLife

\* Faulty variant: every view that finds a list keeps it alive.
KeptAlive == [list EXCEPT !.at = now]

\* A view that finds the list in time leaves it as it is.
Found == list

\* With the lock released before the request, several views may ask at once; each
\* stores what it got, the last one to be answered last.
ListArrives(v) ==
    /\ InView(v, "waiting") /\ views[v].list = None
    /\ \E made \in views[v].since .. now :
           /\ list' = [made |-> made, at |-> now]
           /\ views' = [views EXCEPT ![v].list = made]
    /\ UNCHANGED <<platform, now, results, stored, sync>>

\* What a view that begins to wait has of the list.
Cached == IF Fresh THEN list.made ELSE None
Touched == IF Fresh THEN Found ELSE list

-----------------------------------------------------------------------------
(* Codeforces: four calls at once, of which two matter here.               *)

AskCodeforces(v) ==
    /\ platform = "codeforces" /\ InView(v, "idle")
    /\ views' = [views EXCEPT ![v] =
                    [NoView EXCEPT !.step = "waiting", !.list = Cached,
                                   !.since = now, !.known = Len(results)]]
    /\ list' = Touched
    /\ UNCHANGED <<platform, now, results, stored, sync>>

\* A refusal comes as an answer without a result, and is read as no results.
ResultsArrive(v) ==
    /\ InView(v, "waiting") /\ views[v].results = None
    /\ \/ views' = [views EXCEPT ![v].results = Len(results)]
       \/ views' = [views EXCEPT ![v].results = 0, ![v].refused = TRUE]
    /\ UNCHANGED <<platform, now, results, list, stored, sync>>

-----------------------------------------------------------------------------
(* AtCoder: two statements, then the list.                                 *)

ReadProfile(v) ==
    /\ platform = "atcoder" /\ InView(v, "idle") /\ stored # None
    /\ views' = [views EXCEPT ![v] = [NoView EXCEPT !.step = "reading", !.rating = stored]]
    /\ UNCHANGED <<platform, now, results, list, stored, sync>>

ReadHistory(v) ==
    /\ InView(v, "reading")
    /\ views' = [views EXCEPT ![v].step = "waiting", ![v].results = stored,
                              ![v].known = stored, ![v].list = Cached, ![v].since = now]
    /\ list' = Touched
    /\ UNCHANGED <<platform, now, results, stored, sync>>

\* sync_one: the history is fetched, the rest of the sync takes its time, and rating
\* and history are replaced in one transaction.
SyncFetches ==
    /\ platform = "atcoder" /\ sync = None
    /\ sync' = Len(results)
    /\ UNCHANGED <<platform, now, results, list, stored, views>>

SyncStores ==
    /\ sync # None
    /\ stored' = sync /\ sync' = None
    /\ UNCHANGED <<platform, now, results, list, views>>

SyncFails ==
    /\ sync # None
    /\ sync' = None
    /\ UNCHANGED <<platform, now, results, list, stored, views>>

-----------------------------------------------------------------------------

\* Both are there: the table is made and the view is over.
Answered(v) == InView(v, "waiting") /\ views[v].list # None /\ views[v].results # None

\* The answer is sent, a call failed (Codeforces answers with the stored row, AtCoder
\* without a table), or the client is gone.
Leave(v) ==
    /\ ~InView(v, "idle")
    /\ views' = [views EXCEPT ![v] = NoView]
    /\ UNCHANGED <<platform, now, results, list, stored, sync>>

\* A result carries the second of the rating change, on AtCoder that of the contest's end.
Publish(c, r) ==
    /\ c <= now /\ \A i \in DOMAIN results : results[i].contest # c
    /\ \E at \in IF platform = "codeforces" THEN {now} ELSE c .. now :
           results' = Append(results, [contest |-> c, at |-> at, rating |-> r])
    /\ UNCHANGED <<platform, now, list, stored, sync, views>>

\* No call outlasts the timeout of its client.
ClockTicks ==
    /\ now < MaxNow
    /\ \A v \in Views : InView(v, "waiting") => now < views[v].since + Patience
    /\ now' = now + 1
    /\ UNCHANGED <<platform, results, list, stored, sync, views>>

ServerRestarts ==
    /\ list' = None /\ sync' = None
    /\ views' = [v \in Views |-> NoView]
    /\ UNCHANGED <<platform, now, results, stored>>

AttendanceNext ==
    \/ \E v \in Views : \/ AskCodeforces(v) \/ ResultsArrive(v)
                        \/ ReadProfile(v) \/ ReadHistory(v)
                        \/ ListArrives(v) \/ Leave(v)
    \/ SyncFetches \/ SyncStores \/ SyncFails
    \/ \E c \in Contests, r \in Ratings : Publish(c, r)
    \/ ClockTicks
    \/ ServerRestarts

AttendanceSpec == AttendanceInit /\ [][AttendanceNext]_attendanceVars

-----------------------------------------------------------------------------
(* Properties.                                                             *)

\* The three numbers add up to the rows, and what is subtracted is never more than
\* there is: a round is missed if it was open to the member and not entered, even when
\* rating and history come from two syncs (codeforces.rs:353-361,
\* atcoder_handler.rs:210-218).
SummaryAddsUp ==
    \A v \in Views : Answered(v) =>
        Missed(views[v]) = Cardinality({c \in Rows(views[v]) :
            Eligible(views[v], c) /\ c \notin Entered(views[v])})

\* A table is made from a list no older than its life and the time of two calls, though
\* views that ask at once may store an older list over a newer one
\* (codeforces.rs:171-215, atcoder.rs:126-168).
ListIsRecent ==
    \A v \in Views : Answered(v) =>
        now - views[v].list < ListLife + 2 * Patience

\* A contest whose result was out when Codeforces was asked, or when the last sync that
\* was stored asked AtCoder, is shown as entered; unless the list does not have it
\* yet, its result took more than a day, newer ones fill the table, or Codeforces
\* refused to say (codeforces.rs:318-345, atcoder_handler.rs:171-183).
EntriesAreShown ==
    \A v \in Views : (Answered(v) /\ ~views[v].refused) =>
        \A i \in 1 .. views[v].known :
            LET c == results[i].contest IN
            \/ c \in Rows(views[v]) \cap Entered(views[v])
            \/ c \notin Listed(views[v].list)
            \/ results[i].at > c + Slack
            \/ Cardinality({d \in Contests : d > c}) >= MaxRows

-----------------------------------------------------------------------------
(* The inductive invariant of the proofs.                                  *)

View == [step : {"idle", "reading", "waiting"}, rating : Nat, results : Nat \cup {None},
         list : Nat \cup {None}, since : Nat, known : Nat, refused : BOOLEAN]

AttendanceTypes ==
    /\ platform \in {"codeforces", "atcoder"}
    /\ now \in Nat
    /\ results \in Seq([contest : Contests, at : Nat, rating : Ratings])
    /\ list = None \/ list \in [made : Nat, at : Nat]
    /\ \A n \in {stored, sync} : n = None \/ n \in 0 .. Len(results)
    /\ views \in [Views -> View]
    /\ \A v \in Views : InView(v, "reading") => stored # None

\* A list took one call to arrive, and a view that found one waits for another.
CallsAreInTime ==
    /\ list = None \/ (list.at <= now /\ list.at <= list.made + Patience)
    /\ \A v \in Views : InView(v, "waiting") =>
           /\ views[v].since <= now /\ now <= views[v].since + Patience
           /\ \/ views[v].list = None
              \/ views[v].since < views[v].list + ListLife + Patience

\* A view has results that are out, and none fewer than it cannot miss.
ResultsAreOut ==
    \A v \in Views :
        /\ views[v].known <= Len(results)
        /\ \/ views[v].results = None
           \/ /\ views[v].results <= Len(results)
              /\ views[v].refused = TRUE \/ views[v].known <= views[v].results

AttendanceInv == AttendanceTypes /\ CallsAreInTime /\ ResultsAreOut

=============================================================================
