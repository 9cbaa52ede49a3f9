------------------------------- MODULE Ranker -------------------------------
(***************************************************************************)
(* The standings of POST /api/ranker/analyze (services/ranker.rs): each    *)
(* contest is judged submission by submission in the order of their times, *)
(* then the contests are added up per person and the rows are ranked.      *)
(*                                                                         *)
(* Handles are compared without regard to case, and VJudge gives each      *)
(* account one of its own.  Weights and titles, which no rank depends on,  *)
(* and the real names are left out.                                        *)
(***************************************************************************)
EXTENDS Naturals, FiniteSets, Sequences, Functions

CONSTANTS
    NumContests, Handles, Problems,
    Duration,       \* of every contest, in seconds
    Answers,        \* what VJudge may answer for the contests
    MergeLists,     \* merged_handles of the request
    Text,           \* handles joined by commas -> place in the order of the texts
    Details,        \* the values of include_details that PDFs are asked with
    PdfRows,        \* bound: how many rows the standings have that are printed
    FirstPage, LaterPage,  \* lines of a page of the PDF, its header row included
    NoPage          \* no page of the PDF is being filled

Contests == 1 .. NumContests
Submission == [handle : Handles, problem : Problems, accepted : BOOLEAN, time : Nat]
VjudgeContest == [participants : SUBSET Handles, submissions : Seq(Submission)]

ASSUME InputAssumption ==
    /\ NumContests \in Nat /\ Duration \in Nat
    /\ IsFiniteSet(Handles) /\ IsFiniteSet(Problems)
    /\ Answers \subseteq [Contests -> VjudgeContest]
    /\ MergeLists \subseteq Seq(Seq(Handles))
    /\ Details \subseteq BOOLEAN /\ FirstPage \in Nat /\ LaterPage \in Nat

\* The handles of a row: one, or those of a merge, which the code does not look at.
Texts == {<<h>> : h \in Handles} \cup UNION {Range(list) : list \in MergeLists}

\* Two handles have two texts.
ASSUME TextAssumption ==
    /\ Text \in [Texts -> Nat]
    /\ \A g, h \in Handles : Text[<<g>>] = Text[<<h>>] => g = h

VARIABLES
    feed, registered, merges,  \* the request, with what was fetched for it
    taken,                     \* contest -> submissions judged, by index
    attempts,                  \* contest -> handle -> problem -> ProblemAttempt
    participated,              \* contest -> handles with a submission in time
    rankings,
    pdf,                       \* generate_pdf: not called, at work or through
    withDetails,               \* include_details of the download
    pages,                     \* the pages of the PDF so far: first and last row
    page                       \* the page being filled: end_idx and rendered_rows

judging == <<feed, registered, merges, taken, attempts, participated>>

printing == <<pdf, withDetails, pages, page>>

vars == <<judging, rankings, printing>>

Attempt == [during : BOOLEAN, after : BOOLEAN, wrong : Nat, time : Nat]
NoAttempt == [during |-> FALSE, after |-> FALSE, wrong |-> 0, time |-> 0]

Init ==
    /\ \E answer \in Answers :
           /\ feed = [c \in Contests |-> answer[c].submissions]
           /\ registered = [c \in Contests |-> answer[c].participants]
    /\ merges \in MergeLists
    /\ taken = [c \in Contests |-> {}]
    /\ attempts = [c \in Contests |-> [h \in Handles |-> [p \in Problems |-> NoAttempt]]]
    /\ participated = [c \in Contests |-> {}]
    /\ rankings = <<>>
    /\ pdf = "none" /\ withDetails = FALSE
    /\ pages = <<>> /\ page = NoPage

-----------------------------------------------------------------------------
(* One contest.                                                            *)

InTime(s) == s.time <= Duration

\* Faulty variant: in the order of VJudge's list.
Listed(subs, i, j) == i <= j

\* sort_by_key is stable: of one second, the order of the list.
Earlier(subs, i, j) ==
    subs[i].time < subs[j].time \/ (subs[i].time = subs[j].time /\ i <= j)

\* Faulty variant: a problem that was solved is judged again.
JudgedAgain(a, s) ==
    [during |-> a.during \/ (InTime(s) /\ s.accepted),
     after  |-> a.after \/ (~InTime(s) /\ s.accepted),
     wrong  |-> IF InTime(s) /\ ~s.accepted THEN a.wrong + 1 ELSE a.wrong,
     time   |-> IF InTime(s) /\ s.accepted THEN s.time ELSE a.time]

\* Nothing counts after the problem is solved in the contest.
Judged(a, s) ==
    IF a.during THEN a
    ELSE [during |-> InTime(s) /\ s.accepted,
          after  |-> a.after \/ (~InTime(s) /\ s.accepted),
          wrong  |-> IF InTime(s) /\ ~s.accepted THEN a.wrong + 1 ELSE a.wrong,
          time   |-> IF InTime(s) /\ s.accepted THEN s.time ELSE a.time]

Complete(c) == taken[c] = DOMAIN feed[c]

Take(c) ==
    /\ \A d \in 1 .. (c - 1) : Complete(d)
    /\ \E i \in DOMAIN feed[c] \ taken[c] :
           LET s == feed[c][i] IN
           /\ \A j \in DOMAIN feed[c] \ taken[c] : Earlier(feed[c], i, j)
           /\ taken' = [taken EXCEPT ![c] = @ \cup {i}]
           /\ attempts' = [attempts EXCEPT ![c][s.handle][s.problem] = Judged(@, s)]
           /\ participated' = [participated EXCEPT
                                  ![c] = IF InTime(s) THEN @ \cup {s.handle} ELSE @]
    /\ UNCHANGED <<feed, registered, merges, rankings, printing>>

\* The score of a handle; without a submission in time every problem is an upsolve.
Result(c, h) ==
    LET a == attempts[c][h]
        during == IF h \in participated[c] THEN {p \in Problems : a[p].during} ELSE {}
        after == {p \in Problems : a[p].after \/ a[p].during} \ during
    IN [solved |-> Cardinality(during),
        upsolved |-> Cardinality(after),
        penalty |-> SumFunctionOnSet([p \in Problems |-> a[p].time], during) \div 60
                    + 20 * SumFunctionOnSet([p \in Problems |-> a[p].wrong], during)]

-----------------------------------------------------------------------------
(* The standings.                                                          *)

Merged == UNION {Range(merges[m]) : m \in DOMAIN merges}

\* Faulty variant: no row for who submitted nothing in time, whatever is solved later.
SubmittedInTime == (UNION Range(participated)) \ Merged

\* unique_handles
Unmerged == (UNION Range(registered)) \ Merged

\* A row adds up its handles where they are registered, each as often as it is listed.
\* It stands for a merge of the request, or for a handle by itself, where merge is 0.
Row(handles, merge) ==
    LET places == {ci \in Contests \X DOMAIN handles : handles[ci[2]] \in registered[ci[1]]}
        Total(field) == SumFunction([ci \in places |-> Result(ci[1], handles[ci[2]])[field]])
        present == {ci \in places : handles[ci[2]] \in participated[ci[1]]}
    IN [handle |-> handles, merge |-> merge,
        solved |-> Total("solved"), upsolved |-> Total("upsolved"),
        penalty |-> Total("penalty"),
        contests |-> Cardinality({ci[1] : ci \in present})]

Rows == {Row(<<h>>, 0) : h \in Unmerged} \cup {Row(merges[m], m) : m \in DOMAIN merges}

Better(r, q) ==
    \/ r.solved > q.solved
    \/ r.solved = q.solved /\ r.penalty < q.penalty
    \/ r.solved = q.solved /\ r.penalty = q.penalty /\ r.upsolved > q.upsolved

Tied(r, q) == ~Better(r, q) /\ ~Better(q, r)

\* standings_order looks at the texts; sort_by is stable, and the merges were pushed
\* in the order of the request, after the rest.
Before(r, q) ==
    \/ Better(r, q)
    \/ Tied(r, q) /\ Text[r.handle] < Text[q.handle]
    \/ Tied(r, q) /\ Text[r.handle] = Text[q.handle] /\ r.merge < q.merge

\* The rows come out of a HashMap, in any order, and are sorted.
Sorted(rows) ==
    {s \in [1 .. Cardinality(rows) -> rows] :
        /\ Range(s) = rows
        /\ \A i, j \in DOMAIN s : i < j => ~Before(s[j], s[i])}

\* Faulty variant: a tie does not use up the ranks after it.
DenseRanks(s) ==
    LET rank[i \in DOMAIN s] ==
            IF i = 1 THEN 1
            ELSE IF Tied(s[i], s[i - 1]) THEN rank[i - 1] ELSE rank[i - 1] + 1
    IN rank

Ranks(s) ==
    LET rank[i \in DOMAIN s] ==
            IF i > 1 /\ Tied(s[i], s[i - 1]) THEN rank[i - 1] ELSE i
    IN rank

Rank ==
    /\ \A c \in Contests : Complete(c)
    /\ rankings = <<>>
    /\ \E s \in Sorted(Rows) :
           rankings' = [i \in DOMAIN s |-> [rank |-> Ranks(s)[i], row |-> s[i]]]
    /\ UNCHANGED <<judging, printing>>

-----------------------------------------------------------------------------
(* The PDF of a result: generate_pdf breaks the table into pages itself.   *)

\* A row, and under it one of each contest if details are asked for.
Height == IF withDetails THEN 1 + NumContests ELSE 1

\* Faulty variant: a page goes on behind the row after the last.
PrintedPast == IF pages = <<>> THEN 0 ELSE pages[Len(pages)].last + 1

\* current_idx: the rows on the pages so far.
Printed == IF pages = <<>> THEN 0 ELSE pages[Len(pages)].last

\* max_rows
Capacity(n) == IF n = 1 THEN FirstPage ELSE LaterPage

\* Faulty variant: a row higher than the page is put on no page.
FitsOnly(lines) == lines + Height <= Capacity(Len(pages) + 1)

\* A page takes a row that fits below what it has, and one in any case.
Fits(lines) == lines + Height <= Capacity(Len(pages) + 1) \/ lines = 1

PageEnds == page.last < Len(rankings) => ~Fits(page.lines)

\* download_pdf, as often as it is asked for: downloads have nothing in common.
Download(details) ==
    /\ rankings # <<>> /\ pdf # "printing"
    /\ Len(rankings) \in PdfRows
    /\ pdf' = "printing"
    /\ withDetails' = details
    /\ pages' = <<>>
    /\ UNCHANGED <<judging, rankings, page>>

\* The header row is a line of the page.
StartPage ==
    /\ pdf = "printing" /\ page = NoPage /\ Printed < Len(rankings)
    /\ page' = [last |-> Printed, lines |-> 1]
    /\ UNCHANGED <<judging, rankings, pdf, withDetails, pages>>

AddRow ==
    /\ page # NoPage /\ page.last < Len(rankings) /\ Fits(page.lines)
    /\ page' = [last |-> page.last + 1, lines |-> page.lines + Height]
    /\ UNCHANGED <<judging, rankings, pdf, withDetails, pages>>

\* Faulty variant: current_idx stays where it was.
EndPageOnly ==
    /\ page # NoPage /\ PageEnds
    /\ page' = NoPage
    /\ UNCHANGED <<judging, rankings, pdf, withDetails, pages>>

EndPage ==
    /\ page # NoPage /\ PageEnds
    /\ pages' = Append(pages, [first |-> Printed + 1, last |-> page.last])
    /\ page' = NoPage
    /\ UNCHANGED <<judging, rankings, pdf, withDetails>>

\* The document is rendered once all rows are on pages.
Render ==
    /\ pdf = "printing" /\ page = NoPage /\ Printed >= Len(rankings)
    /\ pdf' = "done"
    /\ UNCHANGED <<judging, rankings, withDetails, pages, page>>

PrintStep == StartPage \/ AddRow \/ EndPage \/ Render

Next ==
    \/ \E c \in Contests : Take(c)
    \/ Rank
    \/ \E details \in Details : Download(details)
    \/ PrintStep

Spec == Init /\ [][Next]_vars

\* generate_pdf waits for nothing: once called it runs to its end.
FairSpec == Spec /\ WF_vars(PrintStep)

-----------------------------------------------------------------------------
(* Properties.                                                             *)

\* A row of the standings.
Standing ==
    [handle : Texts, merge : Nat, solved : Nat, upsolved : Nat, penalty : Nat,
     contests : Nat]

TypeOK ==
    /\ feed \in [Contests -> Seq(Submission)]
    /\ registered \in [Contests -> SUBSET Handles]
    /\ merges \in MergeLists
    /\ taken \in [Contests -> SUBSET Nat]
    /\ \A c \in Contests : taken[c] \subseteq DOMAIN feed[c]
    /\ attempts \in [Contests -> [Handles -> [Problems -> Attempt]]]
    /\ participated \in [Contests -> SUBSET Handles]
    /\ rankings \in Seq([rank : Nat, row : Standing])
    /\ pdf \in {"none", "printing", "done"} /\ withDetails \in BOOLEAN
    /\ pages \in Seq([first : Nat, last : Nat])
    /\ page \in [last : Nat, lines : Nat] \cup {NoPage}

\* The submissions of h on p in contest c, of those that were judged.
On(c, h, p) == {i \in taken[c] : feed[c][i].handle = h /\ feed[c][i].problem = p}

Hits(subs, on) == {i \in on : subs[i].accepted /\ InTime(subs[i])}

Misses(subs, on) == {i \in on : ~subs[i].accepted /\ InTime(subs[i])}

\* A solved problem keeps the time of its first hit, and the misses before it.
FirstHit(a, subs, on) ==
    \E i \in Hits(subs, on) :
        /\ \A j \in Hits(subs, on) : Earlier(subs, i, j)
        /\ a.time = subs[i].time
        /\ a.wrong = Cardinality({j \in Misses(subs, on) : Earlier(subs, j, i)})

Icpc(a, subs, on) ==
    /\ a.during <=> Hits(subs, on) # {}
    /\ a.during => FirstHit(a, subs, on)
    /\ ~a.during => a.wrong = Cardinality(Misses(subs, on))
    /\ (a.during \/ a.after) <=> \E i \in on : subs[i].accepted

\* What is kept of a problem is what the ICPC rules ask of the submissions on it,
\* whatever order they were listed in (ranker.rs:67-137).
AttemptIsIcpc ==
    \A c \in Contests, h \in Handles, p \in Problems :
        Icpc(attempts[c][h][p], feed[c], On(c, h, p))

\* The score of a handle is the ICPC one, worked out from the list: problems solved
\* in time, the seconds of their first accepted submissions added up before they are
\* cut to minutes, 20 for each wrong answer before one, and upsolved what was solved
\* only afterwards (ranker.rs:68-202, docs/api.md:1370-1377).
ScoreIsIcpc ==
    \A c \in Contests, h \in Handles :
        LET hits(p) == Hits(feed[c], On(c, h, p))
            solved == {p \in Problems : hits(p) # {}}
            First(p) == CHOOSE i \in hits(p) : \A j \in hits(p) : Earlier(feed[c], i, j)
            wrong == {i \in taken[c] :
                         LET s == feed[c][i] IN
                         /\ s.handle = h /\ ~s.accepted /\ s.problem \in solved
                         /\ Earlier(feed[c], i, First(s.problem))}
        IN Result(c, h) =
            [solved |-> Cardinality(solved),
             upsolved |-> Cardinality({p \in Problems \ solved :
                              \E i \in On(c, h, p) : feed[c][i].accepted}),
             penalty |-> SumFunction([p \in solved |-> feed[c][First(p)].time]) \div 60
                         + 20 * Cardinality(wrong)]

\* What registered handles solved, in a contest or after it.
SolvedProblems ==
    {chp \in Contests \X Handles \X Problems :
        /\ chp[2] \in registered[chp[1]]
        /\ \E i \in On(chp[1], chp[2], chp[3]) : feed[chp[1]][i].accepted}

\* Where the merges list a handle: twice in one or in two of them is not refused.
MergePlaces(h) ==
    UNION {{<<m, i>> : i \in {x \in DOMAIN merges[m] : merges[m][x] = h}} : m \in DOMAIN merges}

\* However handles are merged, the rows together count every problem a registered
\* handle solved: once if no merge lists the handle, and otherwise once for each time
\* one does, so that nothing is lost and only a handle listed twice counts twice
\* (ranker.rs:285-437).
ProblemsCountAsMerged ==
    rankings # <<>> =>
        SumFunction([i \in DOMAIN rankings |->
                        rankings[i].row.solved + rankings[i].row.upsolved])
        = SumFunction([chp \in SolvedProblems |->
              IF MergePlaces(chp[2]) = {} THEN 1 ELSE Cardinality(MergePlaces(chp[2]))])

\* A rank counts the rows that are better, ties stand by what is shown as their handle
\* and merges shown alike in the order of the request: the same data gives the same
\* list, in whatever order the rows are collected
\* (ranker.rs:213-222, 439-469, docs/api.md:1315-1316, 1370-1375).
StandingsAreFixed ==
    \A i \in DOMAIN rankings :
        LET row(j) == rankings[j].row IN
        /\ rankings[i].rank = 1 + Cardinality({j \in DOMAIN rankings : Better(row(j), row(i))})
        /\ \A j \in DOMAIN rankings :
               (i < j /\ rankings[i].rank = rankings[j].rank) =>
                   \/ Text[row(i).handle] < Text[row(j).handle]
                   \/ /\ Text[row(i).handle] = Text[row(j).handle]
                      /\ row(i).merge < row(j).merge

\* The lines a row really takes: a merged row has one for each of its handles.
Shown(i) ==
    LET handles == rankings[i].row.handle IN
    Height - 1 + (IF handles = <<>> THEN 1 ELSE Len(handles))

Page(n) == pages[n].first .. pages[n].last

\* Every page has a row, so that the loop comes to an end, and it runs over its last
\* line, where genpdf would break its borders, only with a single row or with merged
\* handles, which are counted as one line (ranker_handler.rs:216-239).
PagesHoldRankings ==
    \A n \in DOMAIN pages :
        /\ pages[n].first \in DOMAIN rankings /\ pages[n].last \in DOMAIN rankings
        /\ pages[n].first <= pages[n].last
        /\ \/ pages[n].first = pages[n].last
           \/ 1 + SumFunction([i \in Page(n) |-> Shown(i)]) <= Capacity(n)
           \/ \E i \in Page(n) : Len(rankings[i].row.handle) > 1

\* A PDF that is done shows every row on one page and on no other, the rows of an
\* earlier page ahead of those of a later one (ranker_handler.rs:195-312).
RowsAreShownOnce ==
    pdf = "done" =>
        /\ \A i \in DOMAIN rankings : \E n \in DOMAIN pages : i \in Page(n)
        /\ \A m, n \in DOMAIN pages : m < n => pages[m].last < pages[n].first

\* A download comes to its end, whatever the rows and the pages (ranker_handler.rs:195-312).
DownloadEnds == pdf = "printing" ~> pdf = "done"

-----------------------------------------------------------------------------
(* The inductive invariant of the proofs.                                  *)

\* Nothing that is still to be judged comes before what was.
InOrder ==
    \A c \in Contests : \A i \in taken[c], j \in DOMAIN feed[c] \ taken[c] :
        Earlier(feed[c], i, j)

\* Who took part is who submitted in time.
TookPart ==
    \A c \in Contests, h \in Handles :
        h \in participated[c] <=> \E i \in taken[c] : feed[c][i].handle = h /\ InTime(feed[c][i])

JudgeInv == TypeOK /\ InOrder /\ AttemptIsIcpc /\ TookPart

\* Nothing is ranked before everything is judged, and nothing printed before it is ranked.
InSteps ==
    /\ rankings # <<>> => \A c \in Contests : Complete(c)
    /\ rankings = <<>> => pdf = "none"
    /\ pdf = "none" => pages = <<>>
    /\ pdf # "printing" => page = NoPage

\* The page being filled goes on where the last one ended, and has room for all but
\* its first row.
PageIsOpen ==
    page # NoPage =>
        /\ Printed <= page.last /\ page.last <= Len(rankings)
        /\ page.lines = 1 + (page.last - Printed) * Height
        /\ page.last > Printed + 1 => page.lines <= Capacity(Len(pages) + 1)
        /\ Printed < Len(rankings)

\* The pages so far show the rows up to the last of them, in order.
PagesGoOn ==
    /\ \A i \in 1 .. Printed : \E n \in DOMAIN pages : i \in Page(n)
    /\ \A n \in DOMAIN pages : pages[n].last <= Printed
    /\ \A m, n \in DOMAIN pages : m < n => pages[m].last < pages[n].first
    /\ pdf = "done" => Printed = Len(rankings)

PdfInv == PageIsOpen /\ PagesGoOn /\ PagesHoldRankings

RankerInv ==
    JudgeInv /\ InSteps /\ StandingsAreFixed /\ ProblemsCountAsMerged /\ PdfInv

=============================================================================
