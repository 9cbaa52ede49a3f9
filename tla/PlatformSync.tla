---------------------------- MODULE PlatformSync ----------------------------
(***************************************************************************)
(* The profiles of the members on AtCoder and Codeforces, kept up to date  *)
(* in the background: services/platform_sync.rs, and update_me of          *)
(* handlers/user_handler.rs, which changes the handles.                    *)
(*                                                                         *)
(* A statement or a transaction is one action.  The scheduled pass, the    *)
(* tasks spawned for one member and the requests interleave between them.  *)
(* What upstream answers is a choice; numbers are known by whose they are. *)
(***************************************************************************)
EXTENDS Integers, FiniteSets

CONSTANTS
    Members,
    AtcoderHandles, CodeforcesHandles,  \* handles, up to their case
    NoHandle,
    Idle,         \* a slot in which nothing is under way
    Requests,     \* slots for update_me in flight
    Jobs,         \* slots for spawned tasks; a bound, the code has none
    Faults        \* what may go wrong, apart from a sync that fails as a whole

Platforms == {"atcoder", "codeforces"}
HandlesOn(p) == IF p = "atcoder" THEN AtcoderHandles ELSE CodeforcesHandles
Handles == AtcoderHandles \cup CodeforcesHandles

ASSUME HandleAssumption == NoHandle \notin Handles

\* A request is dropped, a statement fails, the server restarts, the call for
\* solved_count or those for solve_counts fail within a sync that has the ratings.
ASSUME FaultAssumption ==
    Faults \subseteq {"cutoff", "database", "restart", "solved", "charts"}

VARIABLES
    member,    \* whether the row of users is there
    handle,    \* its handle on each platform
    profiles,  \* platform_profiles: the last sync of each member
    history,   \* platform_rating_history: whose contests the rows are (AtCoder)
    reqs, jobs,
    pass       \* the scheduled pass and the targets it has left

vars == <<member, handle, profiles, history, reqs, jobs, pass>>

\* The handle of the last sync, and whose ratings and solve counts stand beside it:
\* solved_count and solve_counts are NULL on Codeforces, and where a call failed.
Owner == Handles \cup {NoHandle}
Row == [handle : Owner, numbers : Owner, solved : Owner, charts : Owner, failed : BOOLEAN]
NoRow == [handle |-> NoHandle, numbers |-> NoHandle, solved |-> NoHandle,
          charts |-> NoHandle, failed |-> FALSE]

\* The handles to write, and whether the task for AtCoder is spawned after it.
Update == [user : Members, atcoder : AtcoderHandles \cup {NoHandle},
           codeforces : CodeforcesHandles \cup {NoHandle}, changed : BOOLEAN]
Job == [phase : {"read", "profile", "history", "sync"}, user : Members,
        handle : AtcoderHandles \cup {NoHandle}]

Nobody == [u \in Members |-> NoHandle]
Pass == [phase : {"asleep", "codeforces", "atcoder"},
         todo : [Members -> Owner], outage : BOOLEAN]
Asleep == [phase |-> "asleep", todo |-> Nobody, outage |-> FALSE]

TypeOK ==
    /\ member \in [Members -> {"new", "member", "deleted"}]
    /\ DOMAIN handle = Platforms
    /\ \A p \in Platforms : handle[p] \in [Members -> HandlesOn(p) \cup {NoHandle}]
    /\ profiles \in [Platforms -> [Members -> Row]]
    /\ history \in [Members -> SUBSET AtcoderHandles]
    /\ reqs \in [Requests -> Update \cup {Idle}]
    /\ jobs \in [Jobs -> Job \cup {Idle}]
    /\ pass \in Pass

Init ==
    /\ member = [u \in Members |-> "new"]
    /\ handle = [p \in Platforms |-> Nobody]
    /\ profiles = [p \in Platforms |-> [u \in Members |-> NoRow]]
    /\ history = [u \in Members |-> {}]
    /\ reqs = [r \in Requests |-> Idle]
    /\ jobs = [j \in Jobs |-> Idle]
    /\ pass = Asleep

-----------------------------------------------------------------------------
(* What a sync writes about a member.                                      *)

IsMember(u) == member[u] = "member"

\* Faulty variant: the history of the previous handle stays beside the new one.
MergedHistory(u, h) == history[u] \cup {h}

\* DELETE and INSERT: replace rather than merge.
NewHistory(u, h) == {h}

\* Ratings and handle in one statement, which clears the error.
SyncedRow(row, h) == [row EXCEPT !.handle = h, !.numbers = h, !.failed = FALSE]

\* Codeforces: the solve counts are not among the columns.
StoreCodeforces(u, h) ==
    /\ IsMember(u)
    /\ profiles' = [profiles EXCEPT !["codeforces"][u] = SyncedRow(@, h)]
    /\ UNCHANGED history

\* What a call for solve counts of h comes back with, which may fail by itself.
CountsOf(h, fault) == {h} \cup (IF fault \in Faults THEN {NoHandle} ELSE {})

\* AtCoder: a call for the counts that fails writes NULL over what was stored, and
\* the sync is a success all the same.  The history is in the same transaction.
StoreAtcoder(u, h) ==
    /\ IsMember(u)
    /\ \E solved \in CountsOf(h, "solved"), charts \in CountsOf(h, "charts") :
           profiles' = [profiles EXCEPT !["atcoder"][u] =
                           [SyncedRow(@, h) EXCEPT !.solved = solved, !.charts = charts]]
    /\ history' = [history EXCEPT ![u] = NewHistory(u, h)]

\* Faulty variant: the figures are overwritten with nothing.
EmptyRow(row, h) == [NoRow EXCEPT !.handle = h, !.failed = TRUE]

\* The handle and the error, beside the figures as they were.
FailedRow(row, h) == [row EXCEPT !.handle = h, !.failed = TRUE]

RecordFailure(p, u, h) ==
    /\ IsMember(u)
    /\ profiles' = [profiles EXCEPT ![p][u] = FailedRow(@, h)]
    /\ UNCHANGED history

\* Nothing is written: the database failed, or the member is gone.
NothingWritten(u) ==
    /\ "database" \in Faults \/ ~IsMember(u)
    /\ UNCHANGED <<profiles, history>>

-----------------------------------------------------------------------------
(* A task for one member, spawned by register and update_me.               *)

Spawn(u) ==
    \E j \in Jobs :
        /\ jobs[j] = Idle
        /\ jobs' = [jobs EXCEPT ![j] = [phase |-> "read", user |-> u, handle |-> NoHandle]]

JobGoes(j, phase, h) ==
    jobs' = [jobs EXCEPT ![j] = [@ EXCEPT !.phase = phase, !.handle = h]]
JobEnds(j) == jobs' = [jobs EXCEPT ![j] = Idle]

In(j, phase) == jobs[j] # Idle /\ jobs[j].phase = phase

\* No handle, no member, or a SELECT that failed: all end in the deletes.
JobRead(j) ==
    LET h == handle["atcoder"][jobs[j].user] IN
    /\ In(j, "read")
    /\ \/ h # NoHandle /\ JobGoes(j, "sync", h)
       \/ h = NoHandle /\ JobGoes(j, "profile", NoHandle)
       \/ "database" \in Faults /\ JobGoes(j, "profile", NoHandle)
    /\ UNCHANGED <<member, handle, profiles, history, reqs, pass>>

JobDropsProfile(j) ==
    /\ In(j, "profile")
    /\ \/ profiles' = [profiles EXCEPT !["atcoder"][jobs[j].user] = NoRow]
       \/ "database" \in Faults /\ UNCHANGED profiles
    /\ JobGoes(j, "history", NoHandle)
    /\ UNCHANGED <<member, handle, history, reqs, pass>>

JobDropsHistory(j) ==
    /\ In(j, "history")
    /\ \/ history' = [history EXCEPT ![jobs[j].user] = {}]
       \/ "database" \in Faults /\ UNCHANGED history
    /\ JobEnds(j)
    /\ UNCHANGED <<member, handle, profiles, reqs, pass>>

JobSyncs(j) ==
    LET u == jobs[j].user
        h == jobs[j].handle
    IN
    /\ In(j, "sync")
    /\ StoreAtcoder(u, h) \/ RecordFailure("atcoder", u, h) \/ NothingWritten(u)
    /\ JobEnds(j)
    /\ UNCHANGED <<member, handle, reqs, pass>>

-----------------------------------------------------------------------------
(* The scheduled pass: everyone on Codeforces, then everyone on AtCoder.   *)

\* Faulty variant: members that have a row are not refreshed.
TargetsUnsynced(p) ==
    [u \in Members |-> IF profiles[p][u] = NoRow THEN handle[p][u] ELSE NoHandle]

Targets(p) == [u \in Members |-> handle[p][u]]

\* A SELECT that fails reads as an empty club.
ReadTargets(p) ==
    {Targets(p)} \cup (IF "database" \in Faults THEN {Nobody} ELSE {})

\* One call for all handles follows: it lands or nobody is updated this round.
PassReadsCodeforces(todo) ==
    /\ pass.phase = "asleep"
    /\ \E outage \in {FALSE, todo # Nobody} :
           pass' = [phase |-> "codeforces", todo |-> todo, outage |-> outage]
    /\ UNCHANGED <<member, handle, profiles, history, reqs, jobs>>

Ticked(u) == pass' = [pass EXCEPT !.todo[u] = NoHandle]

\* A handle that was asked for and not returned is a failure too.
PassRecordsCodeforces(u) ==
    LET h == pass.todo[u] IN
    /\ pass.phase = "codeforces" /\ h # NoHandle
    /\ \/ ~pass.outage /\ StoreCodeforces(u, h)
       \/ RecordFailure("codeforces", u, h)
    /\ Ticked(u)
    /\ UNCHANGED <<member, handle, reqs, jobs>>

PassReadsAtcoder(todo) ==
    /\ pass.phase = "codeforces" /\ pass.todo = Nobody
    /\ pass' = [Asleep EXCEPT !.phase = "atcoder", !.todo = todo]
    /\ UNCHANGED <<member, handle, profiles, history, reqs, jobs>>

PassRecordsAtcoder(u) ==
    LET h == pass.todo[u] IN
    /\ pass.phase = "atcoder" /\ h # NoHandle
    /\ StoreAtcoder(u, h) \/ RecordFailure("atcoder", u, h)
    /\ Ticked(u)
    /\ UNCHANGED <<member, handle, reqs, jobs>>

PassMisses(u) ==
    /\ pass.phase \in {"codeforces", "atcoder"} /\ pass.todo[u] # NoHandle
    /\ NothingWritten(u)
    /\ Ticked(u)
    /\ UNCHANGED <<member, handle, reqs, jobs>>

PassSleeps ==
    /\ pass.phase = "atcoder" /\ pass.todo = Nobody
    /\ pass' = Asleep
    /\ UNCHANGED <<member, handle, profiles, history, reqs, jobs>>

PassStep ==
    \/ \E todo \in ReadTargets("codeforces") : PassReadsCodeforces(todo)
    \/ \E todo \in ReadTargets("atcoder") : PassReadsAtcoder(todo)
    \/ \E u \in Members :
           PassRecordsCodeforces(u) \/ PassRecordsAtcoder(u) \/ PassMisses(u)
    \/ PassSleeps

-----------------------------------------------------------------------------
(* The members.                                                            *)

\* After the write: unless the request was dropped during it.
SpawnIf(changed, u) ==
    \/ changed /\ Spawn(u)
    \/ ~changed /\ UNCHANGED jobs
    \/ "cutoff" \in Faults /\ UNCHANGED jobs

\* Faulty variant: the two parameters of the statement are bound in the wrong order.
SetHandlesSwapped(u, a, c) ==
    handle' = [handle EXCEPT !["atcoder"][u] = c, !["codeforces"][u] = a]

SetHandles(u, a, c) ==
    handle' = [handle EXCEPT !["atcoder"][u] = a, !["codeforces"][u] = c]

\* The INSERT of register.
Register(u, a, c) ==
    /\ member[u] = "new"
    /\ member' = [member EXCEPT ![u] = "member"]
    /\ SetHandles(u, a, c)
    /\ SpawnIf(a # NoHandle, u)
    /\ UNCHANGED <<profiles, history, reqs, pass>>

\* SELECT, merge with what was sent, and the checks with the platforms: a handle
\* that was not sent is the one read here.
UpdateReads(r, u, a, c) ==
    /\ reqs[r] = Idle /\ IsMember(u)
    /\ reqs' = [reqs EXCEPT ![r] = [user |-> u, atcoder |-> a, codeforces |-> c,
                                    changed |-> a # handle["atcoder"][u]]]
    /\ UNCHANGED <<member, handle, profiles, history, jobs, pass>>

\* UPDATE of all columns.
UpdateWrites(r) ==
    LET req == reqs[r] IN
    /\ req # Idle /\ IsMember(req.user)
    /\ SetHandles(req.user, req.atcoder, req.codeforces)
    /\ SpawnIf(req.changed, req.user)
    /\ reqs' = [reqs EXCEPT ![r] = Idle]
    /\ UNCHANGED <<member, profiles, history, pass>>

\* The member is gone, or the request is dropped before the UPDATE.
UpdateEnds(r) ==
    /\ reqs[r] # Idle
    /\ "cutoff" \in Faults \/ ~IsMember(reqs[r].user)
    /\ reqs' = [reqs EXCEPT ![r] = Idle]
    /\ UNCHANGED <<member, handle, profiles, history, jobs, pass>>

\* An admin deletes the account: the rows of both tables go with it.
Delete(u) ==
    /\ IsMember(u)
    /\ member' = [member EXCEPT ![u] = "deleted"]
    /\ SetHandles(u, NoHandle, NoHandle)
    /\ profiles' = [p \in Platforms |-> [profiles[p] EXCEPT ![u] = NoRow]]
    /\ history' = [history EXCEPT ![u] = {}]
    /\ UNCHANGED <<reqs, jobs, pass>>

\* Requests, tasks and the pass are gone; the pass starts over.
Restart ==
    /\ "restart" \in Faults
    /\ reqs' = [r \in Requests |-> Idle]
    /\ jobs' = [j \in Jobs |-> Idle]
    /\ pass' = Asleep
    /\ UNCHANGED <<member, handle, profiles, history>>

-----------------------------------------------------------------------------

JobStep(j) == JobRead(j) \/ JobDropsProfile(j) \/ JobDropsHistory(j) \/ JobSyncs(j)

MemberStep ==
    \/ \E u \in Members :
           \/ Delete(u)
           \/ \E a \in AtcoderHandles \cup {NoHandle}, c \in CodeforcesHandles \cup {NoHandle} :
                  Register(u, a, c) \/ \E r \in Requests : UpdateReads(r, u, a, c)
    \/ \E r \in Requests : UpdateWrites(r) \/ UpdateEnds(r)

Next == PassStep \/ (\E j \in Jobs : JobStep(j)) \/ MemberStep \/ Restart

\* The loop of spawn never ends and its calls time out (platform_sync.rs:405-414,
\* http.rs:6), so the pass goes on.  Restarts and a failing database do not hit
\* each and every pass: what passes try over and over succeeds in the end.
Fairness ==
    /\ WF_vars(PassStep)
    /\ SF_vars(PassReadsCodeforces(Targets("codeforces")))
    /\ SF_vars(PassReadsAtcoder(Targets("atcoder")))
    /\ \A u \in Members :
           SF_vars(PassRecordsCodeforces(u)) /\ SF_vars(PassRecordsAtcoder(u))

Spec == Init /\ [][Next]_vars
FairSpec == Spec /\ Fairness

-----------------------------------------------------------------------------
(* Properties.                                                             *)

\* A row without an error, which is what the AtCoder leaderboard lists, shows the
\* ratings of the handle it names, no solve count and no contest of another, also
\* while the rows of a cleared handle are being deleted (platform_sync.rs:60-122,
\* 219-235; atcoder_handler.rs:228-234).
SyncedRowIsOfOneHandle ==
    \A p \in Platforms, u \in Members :
        LET row == profiles[p][u] IN
        ~row.failed =>
            /\ row.numbers = row.handle
            /\ {row.solved, row.charts} \subseteq {row.handle, NoHandle}
            /\ p = "atcoder" /\ row # NoRow => history[u] \subseteq {row.handle}

\* Whatever upstream answers, a pass takes no rating away, and a solve count only in
\* a row it synced: one it marks as failed keeps every figure, as record_failure_for
\* and the branch for an outage say (platform_sync.rs:183-185, 345-347).
PassKeepsNumbers ==
    [][\A p \in Platforms, u \in Members :
          LET row == profiles[p][u]
              new == profiles'[p][u]
          IN
          pass' # pass =>
              /\ row.numbers # NoHandle => new.numbers # NoHandle
              /\ new.failed =>
                     /\ new.numbers = row.numbers
                     /\ new.solved = row.solved
                     /\ new.charts = row.charts]_vars

\* Once a member stays with a handle, the profile comes to name it and stays so,
\* whatever syncs of earlier handles were under way (platform_sync.rs:202-247,
\* 404-414; user_handler.rs:100-104).
ProfileFollowsHandle ==
    \A p \in Platforms, u \in Members : \A h \in HandlesOn(p) :
        <>[](handle[p][u] = h) => <>[](profiles[p][u].handle = h)

-----------------------------------------------------------------------------
(* The inductive invariant of the proofs.                                  *)

\* What is about to be written on a platform is a handle of that platform.
TargetsAreTyped ==
    /\ \A j \in Jobs : In(j, "sync") => jobs[j].handle \in AtcoderHandles
    /\ \A p \in Platforms : pass.phase = p =>
           \A u \in Members : pass.todo[u] \in HandlesOn(p) \cup {NoHandle}

\* No statement writes a solve count on Codeforces.
NoCountsOnCodeforces ==
    \A u \in Members :
        LET row == profiles["codeforces"][u] IN row.solved = NoHandle /\ row.charts = NoHandle

RowsInv == SyncedRowIsOfOneHandle /\ NoCountsOnCodeforces

SyncInv == TypeOK /\ TargetsAreTyped /\ RowsInv

=============================================================================
