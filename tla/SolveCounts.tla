---------------------------- MODULE SolveCounts ----------------------------
(***************************************************************************)
(* The solve charts of a profile: the submissions of a year, and the       *)
(* problems solved in three windows of it, by difficulty.  AtCoder         *)
(* Problems hands the submissions out page by page, oldest first, while    *)
(* the member goes on submitting (fetch_submissions_since of               *)
(* services/atcoder.rs, build_solve_counts of services/platform_sync.rs);  *)
(* Codeforces hands them out at once, newest first                         *)
(* (services/codeforces.rs).  Both are counted by one rule.                *)
(***************************************************************************)
EXTENDS Integers, Sequences, SequencesExt, FiniteSetsExt

CONSTANTS
    Difficulty,   \* of the problems that have one
    Bands,        \* DIFFICULTY_BUCKETS: the bounds of each, in order
    Windows,      \* the lengths of the windows, the longest last
    Attempts,     \* what the member may submit: problem and verdict
    PageSize, MaxPages,   \* PAGE, MAX_PAGES
    MaxSubmissions, MaxSecond  \* bounds on the submissions and the clock

\* The bands have no difficulty in common.
ASSUME CountsAssumption ==
    /\ IsFiniteSet(DOMAIN Difficulty) /\ \A p \in DOMAIN Difficulty : Difficulty[p] \in Int
    /\ Bands \in Seq([low : Int, high : Int])
    /\ \A b, c \in DOMAIN Bands : b < c => Bands[b].high < Bands[c].low
    /\ Windows \in Seq(Nat) /\ Windows # <<>>
    /\ \A attempt \in Attempts : attempt[2] \in BOOLEAN
    /\ PageSize \in Nat \ {0} /\ MaxPages \in Nat \ {0}

VARIABLES
    judge,      \* the member's submissions, oldest first
    second,     \* the clock
    counting,   \* "idle", "paging" or "counted"
    from,       \* where the longest window starts
    cursor,     \* from_second of the next page
    pageCount,  \* pages fetched
    got,        \* the submissions fetched, by their place in judge
    listed,     \* history: how many there were at the last page
    charts      \* for each window the problems in each band

countVars == <<judge, second, counting, from, cursor, pageCount, got, listed, charts>>

CountInit ==
    /\ judge = <<>>
    /\ second = 0
    /\ counting = "idle"
    /\ from = 0 /\ cursor = 0 /\ pageCount = 0
    /\ got = <<>> /\ listed = 0
    /\ charts = <<>>

Submit(attempt) ==
    /\ Len(judge) < MaxSubmissions
    /\ judge' = Append(judge, [at |-> second, problem |-> attempt[1],
                               accepted |-> attempt[2]])
    /\ UNCHANGED <<second, counting, from, cursor, pageCount, got, listed, charts>>

SecondPasses ==
    /\ second < MaxSecond
    /\ second' = second + 1
    /\ UNCHANGED <<judge, counting, from, cursor, pageCount, got, listed, charts>>

-----------------------------------------------------------------------------
(* Counting.                                                               *)

\* The band of a problem with a difficulty; the loop stops at the first that fits.
BandOf(p) ==
    LET fits == {b \in DOMAIN Bands : Bands[b].low <= Difficulty[p]
                                      /\ Difficulty[p] <= Bands[b].high}
    IN IF fits = {} THEN 0 ELSE Min(fits)

\* One more problem in its band, if it has one.
Raised(bars, p) ==
    IF p \in DOMAIN Difficulty /\ BandOf(p) # 0
    THEN [bars EXCEPT ![BandOf(p)] = @ + 1] ELSE bars

\* Faulty variant: a solution before the window uses up its problem.
SeenBeforeWindow(chart, s, after) ==
    IF ~s.accepted \/ s.problem \in chart.seen THEN chart
    ELSE [seen |-> chart.seen \cup {s.problem},
          bars |-> IF s.at < after THEN chart.bars ELSE Raised(chart.bars, s.problem)]

\* One turn of the loop: a problem solved twice in a window counts once.
Counted(chart, s, after) ==
    IF ~s.accepted \/ s.at < after \/ s.problem \in chart.seen THEN chart
    ELSE [seen |-> chart.seen \cup {s.problem}, bars |-> Raised(chart.bars, s.problem)]

NoChart == [seen |-> {}, bars |-> [b \in DOMAIN Bands |-> 0]]

\* The chart after each submission of a list, in the order they come.
Turns(places, after) ==
    LET chart[n \in 0 .. Len(places)] ==
            IF n = 0 THEN NoChart
            ELSE Counted(chart[n - 1], judge[places[n]], after)
    IN chart

Chart(places, after) == Turns(places, after)[Len(places)].bars

Year == Last(Windows)

Charts(places, clock) == [w \in DOMAIN Windows |-> Chart(places, clock - Windows[w])]

-----------------------------------------------------------------------------
(* Fetching.                                                               *)

\* What AtCoder Problems answers: the oldest submissions since the cursor.  They are
\* listed by their seconds: from the first of them on, the rest follow.
Page ==
    LET since == {i \in DOMAIN judge : judge[i].at >= cursor}
        size == Min({Cardinality(since), PageSize})
    IN IF since = {} THEN <<>> ELSE [n \in 1 .. size |-> Min(since) + n - 1]

\* Faulty variant: the next page starts in the second the last one ended in.
SameSecond(page) == IF page = <<>> THEN cursor ELSE judge[Last(page)].at

\* cursor = last.epoch_second + 1
Advanced(page) == IF page = <<>> THEN cursor ELSE judge[Last(page)].at + 1

\* The clock is read once, before the first page.
StartPaging ==
    /\ counting # "paging"
    /\ counting' = "paging"
    /\ from' = second - Year /\ cursor' = second - Year
    /\ pageCount' = 0 /\ got' = <<>> /\ listed' = 0 /\ charts' = <<>>
    /\ UNCHANGED <<judge, second>>

FetchPage ==
    /\ counting = "paging"
    /\ got' = got \o Page
    /\ cursor' = Advanced(Page)
    /\ pageCount' = pageCount + 1
    /\ listed' = Len(judge)
    /\ IF Len(Page) < PageSize \/ pageCount' = MaxPages
       THEN counting' = "counted" /\ charts' = Charts(got', from + Year)
       ELSE UNCHANGED <<counting, charts>>
    /\ UNCHANGED <<judge, second, from>>

\* One page that fails fails all: the sync goes on and stores no charts.
FetchFails ==
    /\ counting = "paging"
    /\ counting' = "idle"
    /\ UNCHANGED <<judge, second, from, cursor, pageCount, got, listed, charts>>

\* Codeforces: all at once, newest first, and the clock is read afterwards.
FetchAll ==
    /\ counting # "paging"
    /\ counting' = "counted"
    /\ from' = second - Year /\ cursor' = second - Year
    /\ pageCount' = 0
    /\ got' = Reverse([i \in DOMAIN judge |-> i])
    /\ listed' = Len(judge)
    /\ charts' = Charts(got', second)
    /\ UNCHANGED <<judge, second>>

CountNext ==
    \/ \E attempt \in Attempts : Submit(attempt)
    \/ SecondPasses
    \/ StartPaging
    \/ FetchPage
    \/ FetchFails
    \/ FetchAll

CountSpec == CountInit /\ [][CountNext]_countVars

-----------------------------------------------------------------------------
(* Properties.                                                             *)

\* The pages follow each other without an overlap, and of the submissions of the year
\* that were there at the last page none is missing but those of a second in which a
\* full page ended, and those after the last page that is asked for
\* (atcoder.rs:283-325, whose comment names only the overlap).
OnlyTiesAreSkipped ==
    (counting = "counted" /\ pageCount > 0) =>
        /\ \A m, n \in DOMAIN got : m < n => got[m] < got[n]
        /\ \A i \in 1 .. listed :
               judge[i].at >= from /\ i \notin Range(got) =>
                   \/ \E j \in Range(got) : j < i /\ judge[j].at = judge[i].at
                   \/ pageCount = MaxPages /\ \A j \in Range(got) : j < i

\* The problems of a band with an accepted submission since then, in these places.
SolvedSince(submissions, places, after, b) ==
    {p \in DOMAIN Difficulty :
        /\ Bands[b].low <= Difficulty[p] /\ Difficulty[p] <= Bands[b].high
        /\ \E i \in Range(places) :
               /\ submissions[i].problem = p /\ submissions[i].accepted
               /\ submissions[i].at >= after}

\* The bar of a band counts each problem of the band that has an accepted submission in
\* the window, once, whichever way the submissions are listed and however often it
\* was solved before the window (platform_sync.rs:139-166, codeforces.rs:109-153).
ChartsCountProblems ==
    counting = "counted" =>
        \A w \in DOMAIN Windows, b \in DOMAIN Bands :
            charts[w][b] =
                Cardinality(SolvedSince(judge, got, from + Year - Windows[w], b))

-----------------------------------------------------------------------------
(* The inductive invariant of the proofs.                                  *)

Submission == [at : Nat, problem : {attempt[1] : attempt \in Attempts}, accepted : BOOLEAN]

CountTypes ==
    /\ judge \in Seq(Submission)
    /\ second \in Nat
    /\ counting \in {"idle", "paging", "counted"}
    /\ from \in Int /\ cursor \in Int /\ pageCount \in Nat
    /\ got \in Seq(DOMAIN judge)
    /\ listed \in 0 .. Len(judge)

\* The submissions are in the order of their seconds.
InOrderOfTime ==
    /\ \A i, j \in DOMAIN judge : i < j => judge[i].at <= judge[j].at
    /\ \A i \in DOMAIN judge : judge[i].at <= second

Ascending == \A m, n \in DOMAIN got : m < n => got[m] < got[n]

\* Since the pages began, nothing was passed over but ties with what was fetched.
PagesFollow ==
    counting = "paging" =>
        /\ Ascending
        /\ from <= second
        /\ IF got = <<>> THEN cursor = from ELSE cursor = judge[Last(got)].at + 1
        /\ \A i \in DOMAIN judge :
               (from <= judge[i].at /\ judge[i].at < cursor /\ i \notin Range(got)) =>
                   \E j \in Range(got) : j < i /\ judge[j].at = judge[i].at

CountInv ==
    /\ CountTypes /\ InOrderOfTime /\ PagesFollow
    /\ OnlyTiesAreSkipped /\ ChartsCountProblems

=============================================================================
