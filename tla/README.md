# TLA+ models of cp-geeks-backend

A formal model of the backend of a university programming club (Rust, Axum,
SQLx over Postgres): its accounts, sessions, one-time codes, rate limits and ID card
photos, the background sync of profiles and their statistics, events with their teams
and announcements, the contest standings and their PDF, and the nightly backup; with TLC
runs on small instances and TLAPS proofs for all sizes. Paths below are relative to the repository root.

## 1. The system

One server process serves HTTP requests. A handler is an `async fn` that runs to
its end unless the client goes away, a statement fails or the process stops. Its
SQL statements are separate round trips: except in the two team handlers of
events and in the sync's write of a profile there is **no transaction**, so any other
request may run between two statements of a handler. What the process holds in memory
(rate-limit counters, the ranker's results, the contest lists) is behind mutexes and lost on a restart.

| Component | State | Operations | Interacts with |
|---|---|---|---|
| Sessions, roles, admin decisions (`handlers/admin_handler.rs`, `middleware/auth_middleware.rs`, `utils/jwt.rs`, login and reset in `auth_handler.rs`) | `users.status`, `is_admin`, `is_manager`, `sessions_valid_from`; JWTs in the clients' hands | login, the extractor of every protected handler, approve, reject, ban, reactivate, role, email, delete | rows of `users` |
| Accounts and addresses (`auth_handler.rs`, `admin_handler.rs`) | `users.status`, `email`, `pending_email` | register, verify-otp, resend-otp, forgot/reset-password, change-email and its confirmation, the admin decisions | one-time codes, mail, ID cards |
| One-time codes (`utils/otp.rs`, `verify_otp_guarded`) | `otp_codes` | store, verify, invalidate | rate limiter, mail |
| Rate limiter (`utils/rate_limit.rs`) | a map of instants behind a mutex | check, count, reset | all of `auth_handler.rs`, `ranker_handler.rs` |
| ID card photos (`services/storage.rs`, `services/image_upload.rs`, `discard_id_card`) | objects in a storage service, two paths per row | upload, view, delete | register, admin decisions |
| Platform sync (`services/platform_sync.rs`) | `platform_profiles`, `platform_rating_history` | a scheduled pass over all members, a task for one member | AtCoder and Codeforces, register, update_me, delete |
| Member profiles (`handlers/user_handler.rs`) | profile columns of `users` | read, update_me | platform sync |
| Codeforces, AtCoder statistics (`services/codeforces.rs`, `services/atcoder.rs` and handlers) | a contest-list cache each | pages of submissions, solve charts, attendance tables | platform sync, HTTP client |
| Contest ranker (`services/ranker.rs`, `ranker_handler.rs`) | none | ICPC standings from VJudge data, a PDF of them | result cache, rate limiter |
| Ranker result cache (`app_state.rs`) | a bounded map with a lifetime | get, put with eviction | ranker |
| Events and teams (`handlers/event_handler.rs`) | `events`, `teams`, `team_members` | create, update, delete; teams of three in a transaction | announcements, contests (foreign keys) |
| Announcements, contests (`announcement_handler.rs`, `contest_handler.rs`) | their tables | create, update (read, merge, write), delete, list | events |
| Problem sections, health check, mail, HTTP client, validation, wiring | none of their own | see `PROJECT.json` | |
| Nightly backup (`deploy/cpgeeks-backup.sh`) | dump files, objects in a bucket | dump, verify, rotate, copy, compare | timer, alert mail |

**What is hard here.** Statements of two requests interleave (role changes, claims of
one address, codes). A handler writes by id what it decided from a row read
earlier (every admin decision, confirm-email-change, update_me, the sync pass). The
login issues a token from a row read before a slow password check. One table of
codes serves five endpoints. Counters live in memory, codes in the database, and
they expire at different times. Requests are cut off between two statements. Time
is compared at two precisions (seconds in a token, microseconds in a row). The
lines are in the `hazards` of `PROJECT.json`, each with the properties that watch it.

**What makes each part correct.** Sessions: a cut is final; a session carries the
roles of its row; the last admin goes in races only. Accounts: nobody is past verification
with an unproved address; a ban is left by an admin's decision only; a claim belongs to
one account. Codes: single use, a capped number of wrong guesses, one live code.
Limiter: at most its limit per window, and it forgets nothing that counts but keys with a
longer window than that of a call which sweeps. ID cards: no object without a row but where a
fault or a failed `store_otp` explains it, no photo once an approval, a rejection, a confirmed
university address or a deletion has been followed through. Sync: a row without an error is of
one handle, a pass takes no rating away, and a profile comes to name the member's handle.
Statistics: no page of submissions overlaps the next, a chart counts each problem once, a summary
adds up, a contest entered is shown as entered, from a list of known age. Result cache: bounded,
and what makes room is older than what stays. Events: a team is one form of three members.
Announcements: a missing event is a 404, a label has a link. Ranker: the ICPC score, nothing lost,
each problem counted as often as its handle is listed, ranks fixed by the data, every row on one
page. Backup: a run that succeeded has its dump, a failure costs one kept dump at most.

## 2. The modules

`MC*` modules only add symmetry sets and values for constants. `*_proofs` modules
hold the theorems; `Background_proofs` those of everything that runs beside the requests or
only reads: `PlatformSync`, `SolveCounts`, `Attendance`, `Statistics` and `Backup`. Composition is by `INSTANCE`: `OtpGuard` uses the abstract
`WindowLimit` as its limiter, and `RateLimiter` is shown to implement `WindowLimit`.
`AppState` extends `RateLimiter` by the other memory of the process; `Statistics` puts
`SolveCounts` and `Attendance` side by side.
`Accounts` uses the codes at the level `OtpGuard` proves (single use, at most one
address each); `Sessions` leaves out addresses, and `Accounts` leaves out sessions.

### Sessions

`users` is the table (status, two role columns, cutoff), `tokens` the JWTs issued,
`reqs` the requests in flight with what each has read, `now` the clock in whole
seconds. A login is `LoginRead` (SELECT and password check) and `LoginMint`; an admin
decision is `DecisionBegin` (the extractor), `DecisionRead` (SELECT and status
check), for a demotion `CountAdmins`, and one write. Two history fields of a token
say whether its user's sessions were ended since it was issued (`ended`) or while
its login was under way (`raced`). A role change or a deletion is `raced` too: if an admin
lost the seat while it was under way, or if it came from the session of a raced login; a count
of the other admins that finds one makes up for it. A code entered at verify-otp or
reset-password may come at any time; `Accounts` says when. Tokens do not expire within the bounds.

### WindowLimit and RateLimiter

`WindowLimit` is the promise of `docs/api.md:36-46`: a machine that prunes nothing, whose `log`
keeps every call let through. It differs from the document in one thing: beyond
`MAX_TRACKED_KEYS` keys a call may make it forget keys with a longer window than its own
(`Forgettable`). `RateLimiter` is `utils/rate_limit.rs`: `hits` and `tracked` are the map, in which
keys of all windows stand side by side; `Check`, `Count`, `Reset` are one action each since each
holds the mutex throughout. A caller takes its instant *before* the lock, so `Check` may carry
an instant up to `MaxLag` behind the clock. `log`, `answer`, `calls` are the history
that the refinement maps to the abstract variables of the same names; `granted` counts as the
document does, with nothing forgotten by a sweep.

### AppState

Beside the map of the limiter, `kept` is the cache of results and `running` the analyses that
the limiter let through and that are still at work. `Analyze` is `analyze` up to its first
await, `StoreResult` and `GetResult` are the two functions of `app_state.rs`, `AnalysisFails`
every way an analysis ends without a result. A result is known by its place in `born`, the
history of the instants at which results were stored. The other endpoints use the limiter
under keys and windows of their own (`OtherCheck`, `OtherReset`). `AppRestart` empties all of it.

### OtpGuard

The codes of one address, statement by statement: `StoreInvalidate` and `StoreInsert`
(`store_otp`), `Mail`, `GuardCheck` (the limiter), `VerifyRow` (the single UPDATE of
`verify_otp`), then `ResetAttempts`, or `CountAttempts` and `Burn`. `Abandon` cuts a
request off anywhere; `Restart` empties the counters and keeps the table, and `Sweep` is what a
call under another key may make the limiter forget. A tick
stands for minutes, so it does not fall between the limiter and the UPDATE of a guess.

### Accounts

`users` has the status, the address, the address being claimed and whether photos are
stored; `code` is the set of addresses with a live code in an inbox; `proved` is
history: the addresses a code was entered for or an admin vouched for (by an email
change or a reactivation). `store_otp` with its mail, and the guarded check of a
code, are one action each. A code fits every endpoint, as in `otp_codes`, which
records no purpose. `Student` holds the addresses `is_student_email` accepts, `Shouted`
those of them that are not in lower case. Registration numbers, passwords (reset
is in `Sessions`) and which admin acts (self checks are in `Sessions`) are left out.
`Shouted` is empty in the runs; the proofs cover any.

### IdCards

A folder `Cards` stands for a registration with photos. `row` is its account (status, the
person, whether the paths are set), `stored` the objects in the folder, `reqs` the
requests in flight. One action per statement or call to the store: `UploadFront`,
`UploadBack`, `StoreOtp`, `SendMail` and `Insert` for a registration; `Begin` (SELECT),
`Write` (UPDATE ... RETURNING) and `DropFront`, `DropBack`, `Clear` (`discard_id_card`),
`Erase` for a decision or a deletion. Every call may fail, or succeed and have its answer
lost; `Cutoff` ends a request anywhere. An account that is not active may be reactivated,
whatever its status. The error of `store_otp` returns at once and leaves the folder "left".
History: `decided` (the account was approved, rejected, confirmed at a university address or
chosen for deletion, which are the decisions that drop photos; a ban and a reactivation drop none)
and `spoiled` (a fault left photos nobody keeps track of).

### PlatformSync

`handle` is what the members entered, `profiles` and `history` the two tables, `pass` the
scheduled pass with the targets it has left, `jobs` the spawned tasks, `reqs` the
`update_me` requests between their SELECT and UPDATE. What is stored of a platform is
known by whose it is: `numbers`, `solved` and `charts` name the handle that the ratings, the number of
problems solved and the chart were fetched for. Codeforces rows have ratings only; on AtCoder the call
for either may fail within a sync that succeeds (the faults `"solved"` and `"charts"`), and NULL is
written over what was stored. A pass reads
all handles of a platform once (`PassReadsCodeforces`, `PassReadsAtcoder`) and then records a
success or a failure per member, in any order; for Codeforces one call serves all of
them, so an `outage` fails the whole round. A task reads the handle (`JobRead`) and
either syncs or deletes the rows, history in a statement of its own.

### Events

`things` are the events and contests, `teams` a team with its members as committed,
`posts` the announcements, `reqs` the requests in flight. `AddTeam` / `UpdateTeam` to
`Commit` are the two transactions: what they write stays in the request until the
commit, `Locks` is the row lock an UPDATE of `teams` holds, and `References` keeps an event
from being deleted under an uncommitted team. `Edit` and `WriteEdit` are update_event and
update_contest, which fail if the row is deleted between their SELECT and UPDATE. `Delete` does what the foreign keys do
(teams go, ties are set to NULL). An announcement is `CreatePost` / `UpdatePost` (read and
merge), `LookUp` (`check_relations`, one SELECT each) and `WritePost`, which a key may
refuse; `found` is history: what the request has seen to exist.

### Ranker

The standings are a computation, so the variables are its input (`feed`, `registered`,
`merges`) and its progress. `Take` is one turn of the loop of `process_contest`, in the order
of `sort_by_key` (stable, by time), and `Rank` the rest: scores, merged rows, the sort and the
ranks. The rows come out of a `HashMap`: `Sorted` is every arrangement that the comparator
allows, which looks at the texts of the handles (`Text`) and leaves equal ones in the order of the
request. Merges are as the code takes them: empty, with a handle twice, with a handle of another. Sums
are those of the community modules, ranks a recursive function. Weights, titles and real names, which
no rank depends on, are left out. The PDF is the loop of `generate_pdf`, one download at a time:
`StartPage`, `AddRow` for each row that still fits (the first of a page in any case), `EndPage` and at
last `Render`; a row takes one line, and one more for each contest when the details are printed. The
layout itself is left out.

### SolveCounts, Attendance and Statistics

`SolveCounts` is the chart of problems solved in three windows of a year. `judge` is what the
member has submitted and goes on submitting; a year's submissions are fetched page by page
(`StartPaging`, `FetchPage`, AtCoder) or at once and newest first (`FetchAll`, Codeforces), and
`Chart` is the loop that counts them: `Turns` is a recursive function, one argument for each
turn. A page is stated by what it holds (`Page`: the listed submissions from the cursor on,
as many as a page takes), since the list is in order of time. `CountsAssumption` says of the
constants that difficulties are numbers, that the bands lie one above the other, and that there is
a window and room for a submission on a page.

`Attendance` is the table of contests entered, missed and closed to the member. It pairs
things of different age: `list`, the contest list that all views share, and the results of
a member, asked for at once on Codeforces (`ResultsArrive`) and left by the sync on AtCoder
(`stored`, read in two statements by `ReadProfile` and `ReadHistory`). The lock of the list is
released before the request, so views that ask at once each store what they got
(`ListArrives`). A contest is known by its start and its length is left out; a result carries
the second of the rating change on Codeforces and that of the contest's end on AtCoder.
`Open` holds the ratings that may enter a contest, in place of the rules by division. A call
lasts `Patience` at most (`http.rs`).

`Statistics` follows one of the two in a behaviour, since neither reaches the other's state.
So it implements both specifications, and what is proved of a part holds of it.

### Backup

`step` is the line of the script that is next, `files` the dumps in the directory by age,
`remote` what arrived in the bucket. A dump ends whole, without a table, or so that
`pg_restore --list` refuses it; a run that fails or that a stop of the machine cuts short may
leave a file behind. `Elapse` and `Start` are the timer (`Persistent=true` makes up for an
elapse that was missed, not for a run that was cut short). That a dump which lists a table
can be restored is taken as given.

## 3. What TLC checks

Runs that pass, with the bound chosen and why it is enough:

| Run | Instance | Shows |
|---|---|---|
| `sessions_race` | 2 members, one of them the first admin, 2 requests, 2 tokens, 2 seconds | `TypeOK`; after a cut no earlier session is accepted, in the same second or later (`CutRevokesIssuedTokens`); accepted sessions carry the row's roles and no ban, unless the login raced (`SessionCarriesCurrentRoles`, `RejectedHasNoSession`); the last admin goes only where one request overtook another that took an admin's seat, or by a deletion from the session of a raced login (`LastAdminGoesInRacesOnly`). Two requests are the smallest race, and two admins, one of them made in the run, the fewest who can take each other's seat; the two seconds tell "same second" from "later". |
| `app_state` | 2 keys, windows of 1 and 2 ticks with limits of 2 and 1, lag 1, a sweep beyond 1 key, 4 calls in 3 ticks, a cache of 2 results, 2 analyses at work | `AppTypeOK`; the key with the shortest window keeps its limit (`SafeKeysAreLimited`); the refinement of `WindowLimit`, all the while results come and go (`KeepsPromise`); `LostOnlyToNewer`, `CacheIsBounded`. The calls fill a window, leave it and fill it again, with sweeps and restarts; a third result finds the cache full. |
| `otp_guard` | 2 codes, 2 requests, limits of 2, 4 calls | `SingleUse`, `GuessesCapped`, `OneCodeUnlessOverlapped`, with cut-off requests, restarts and sweeps. |
| `accounts_race` | 2 accounts, 2 addresses (1 student), 2 requests, every endpoint | `PastVerificationIsProved`, `BanHoldsOutOfReach`: an account nothing can reach when it is banned stays banned. |
| `cards_photos` | 2 folders, 1 person, 2 requests, every fault | `ReviewHasPhotos`, `OrphansAreExplained`, `DecisionDropsPhotos`. One person who registers twice at once is the race for the unique row; two admins may decide about one account. |
| `sync_pass` | 1 member, 2 AtCoder handles, 1 Codeforces handle, 1 request, 1 task, every fault but one of two that are alike | `TypeOK`, `SyncedRowIsOfOneHandle`, `PassKeepsNumbers`, and the liveness `ProfileFollowsHandle`. Members share nothing but an outage and the order of the pass, so one is enough; two handles and none let it go back and forth while a task, a pass and a request are under way. |
| `events_board` | 1 event, 1 contest, 1 team, 1 announcement, 2 forms, 2 requests | `TeamIsOneForm`, `KeyRefusalsAreRaces`, `LabelHasLink`: two editors of the same rows, with deletions in between. |
| `ranker_standings` | 2 contests (2 and 1 submissions at most), 3 handles, 2 problems in the first and 1 in the second; no merge, one, a handle twice in one beside an empty one, a handle in three | `AttemptIsIcpc`, `ScoreIsIcpc`, `ProblemsCountAsMerged`, `StandingsAreFixed`, against definitions from the list of submissions. The times 40, 100 and 101 around a contest of 100 seconds have submissions before, at and after its end, of one second in either order, and seconds that make a minute only when added up. |
| (the same) | 1 row or 5 to 7 (`PdfRows`), merged ones among them, pages of 3 and then 5 lines, rows of 1 line or 3 | `PagesHoldRankings`, `RowsAreShownOnce`, and the liveness `DownloadEnds`: the standings end within the first page, at the end of a page, within a later one, and a row may be higher than what is left of a page. |
| `profile_statistics` | charts: 5 submissions in 3 seconds, 2 pages of 2, 2 windows, 2 bands; tables: 2 views, 2 contests, 2 ratings, 1 row, a list that lives 2 seconds, calls of 1, 5 seconds | `OnlyTiesAreSkipped`, `ChartsCountProblems`; `SummaryAddsUp`, `ListIsRecent`, `EntriesAreShown`. Five submissions end two full pages in one second or in two, with one left over; two views are the least that can store their lists in the wrong order, and 5 seconds let a list be made, stored, found and outlived. |
| `backup_nights` | 5 runs, 3 dumps kept, with and without a bucket | `FailuresCostOneEach`, `SilenceIsSuccess`: three runs fill the directory, two more rotate it, each of the five with any failure or stop. |

Two runs check what the repository says and the code does not keep (quoted in `findings` of
`PROJECT.json`); TLC finds each violated:

| Run | Statement | What the trace shows |
|---|---|---|
| `sessions_last_admin` | `SomeAdminRemains` | Two admins demote each other; each counts the other, and none is left. |
| `cards_otp_error` | `FailuresLeaveNothing` | `store_otp` fails after both uploads, and register returns without dropping them. |

More of the same kind, met while modelling and left as `hazards` without a run of their
own:

- With two requests an approval undoes a ban made between its SELECT and its UPDATE, of two
  role changes of one member the later puts back what the other changed, and a login that
  read the row before a role change issues a token after it, which keeps the old roles.
- A sweep measures every key with the caller's window and drops live hits of keys with a
  longer one, against the windows of `docs/api.md:40-46`.
- A ban of an account in review drops no photos (`admin_handler.rs:514-531` against `:281-282`).
- A `pg_dump` that fails ends the script before the check that would remove its file
  (`cpgeeks-backup.sh:48` against `:50-51`).
- Two claims of one address at once both pass; two requests for a code invalidate, then both
  insert. A reset code entered at verify-otp sends an active account back to review.
- A claim of an address made before a ban and confirmed after it makes the account active
  (`auth_handler.rs:704` against `admin_handler.rs:40`). A reactivated account that waited for
  review, and a university address that registered with photos, keep them in the store.
- A call for solve counts that fails within a sync of AtCoder writes NULL over the counts stored
  before, in a row that shows no error (`platform_sync.rs:41-82`).
- A sync pass that read a handle writes the profile back after the member cleared it
  (`platform_sync.rs:251` against `:220`); later passes take only members with a handle, so it
  stays. The AtCoder leaderboard shows who has no `sync_error`, which a failed pass sets beside
  numbers it keeps (`atcoder_handler.rs:233`, `platform_sync.rs:183-185`).
- A call that Codeforces refuses is served as live zeroes (`codeforces.rs:85,104` against
  `codeforces_handler.rs:214`). Paging drops submissions of the second in which a full page
  ended (`atcoder.rs:287-316`). A contest that takes more than a day may be missing from the
  table it opens, and AtCoder's table judges old contests by the rating of today
  (`atcoder_handler.rs:52`).
- Of the dumps the rotation keeps, some may be what failed runs left, and they push whole ones
  out; a run cut short is told to nobody (`cpgeeks-backup.sh:48-67`).
- A listing of events reads the teams and then their members (`event_handler.rs:47-57`): a
  replacement committed between the two shows the old name over the new members.
- A code asked for right after a burn (10 minutes) expires before the counter (15 minutes)
  lets anyone enter it; a student address with a capital letter registers without photos
  and then waits for their review.

Every property of a passing run has a mutant: a faulty variant of a definition of
the model (a comment marks them) under which TLC finds the property violated.

Some runs may come to a state where nothing is left to do and say
`CHECK_DEADLOCK FALSE`: `sessions_race` (every account deleted, clock at its bound), the two `cards_*`
runs (both folders used up) and `ranker_standings` (standings that are not printed are its end). Bounds
(`MaxTime`, `MaxTokens`, `MaxCalls`, `MaxRuns`, `MaxRunning`, `PdfRows`, the sets of ids and slots) appear as guards of the actions
they limit.

**Liveness.** A handler may be abandoned and nothing retries it, so nothing is claimed of
one. The sync pass is a loop that never ends (`platform_sync.rs:405-414`) around calls that
time out (`http.rs`): `Fairness` has its steps weakly fair. What one pass loses to a
restart, a failing statement or an outage the next one tries again; strong fairness of
reading the handles and of recording a member says that such faults do not hit every pass for
ever. Under it `ProfileFollowsHandle` holds: once a member stays with a handle, the
profile comes to name it and stays so. Requests and tasks are not fair.
`generate_pdf` is one function that waits for nothing, so once it is called its next step is
weakly fair, and `DownloadEnds` says that its loop comes to an end whatever the heights of rows and
pages.

## 4. What is proved

All theorems are checked by TLAPS for every value of the constants that satisfies the
named assumptions of the modules; no statement is taken on trust.

| Module | Theorems | Argument |
|---|---|---|
| `Sessions_proofs` | `TypeCorrect`, `CutsAreFinal`, `RolesAreCurrent`, `RejectedAreOut` | `SessionInv`: no cutoff lies ahead of the clock; an ended token is no younger than its row's cutoff; an undisturbed token, *and an undisturbed login still under way*, carries the row's roles. Without the part about logins the issue of a token would not preserve the invariant. |
| | `LastAdminIsLostToRaces` | `SeatInv`, beside the rest: an undisturbed role change or deletion leaves another admin, the one who sent it (from a session that carries the row's roles, about somebody else) or one it counted. |
| `AppState_proofs` | `TypeCorrect`, `SafeKeysStayLimited`, `ImplementsPromise` | For keys of any windows. `MapInv`: the map holds every hit of the log still in its window, and only hits of the log, so counting the map and counting the log agree; what a sweep drops while it counts is of a key with a longer window. `GrantedInv`: a key whose window is the shortest, or in a map that never sweeps, is never forgotten. |
| | `AppIsLimited`, `AppTypeCorrect`, `ResultsAreLostToNewer`, `CacheStaysBounded` | A step of the process is a step of the limiter or leaves it alone (`AppIsLimited`: `AppSpec => Spec`), so what holds of the limiter holds here. `CacheInv`: types, the loss of results and the bound, inductive together: a result that is stored is no older than any in the cache, so where it takes the last room the one that goes has as many no older than itself as the cache holds. |
| `OtpGuard_proofs` | `TypeCorrect`, `CodesAreSingleUse`, `GuessesAreCapped`, `OneCodeAtATime` | `GuardInv`. A wrong guess against a live code is a hit in the limiter's log not older than the code; codes live no longer than the counting window (`LifeAssumption`, 10 against 15 minutes), so these hits are in the window the limiter caps. An undisturbed store finds no live code between its statements. |
| `Accounts_proofs` | `TypeCorrect`, `AddressesAreProved`, `BansHold` | `ProvedInv`: a request about to put an account past verification (verify, confirm, approve) has the proof of its address behind it, and an account once vouched for only moves to proved addresses. `BansHold` also needs `EmailsUnique`, the unique index: otherwise a second account at the address could ask for a code. |
| `IdCards_proofs` | `TypeCorrect`, `ReviewsHavePhotos`, `OrphansHaveCauses`, `DecisionsDropPhotos` | `CardInv`, folder by folder: who may be at which step (`InStep`), a folder has what its registration stored so far (`OwnedByRegistration`), photos are those of a row or of a registration (`Accounted`), and they are whole until a decision and then go side by side (`WholeOrGoing`). A step touches one folder, so a locality lemma leaves one to look at. |
| `Background_proofs` | `TypeCorrect`, `RowsAreOfOneHandle`, `PassesKeepNumbers` | `SyncInv`: beside the property, what a task or the pass is about to write on a platform is a handle of that platform (`TargetsAreTyped`), and no solve count is on Codeforces. `PassKeepsNumbers` follows step by step: a pass writes ratings with every success, and a row it marks as failed keeps every figure. |
| | `TiesAloneAreSkipped`, `ChartsAreRight` | `CountInv`: what the member submits is in order of time (`InOrderOfTime`); what was fetched is in order, the cursor is past its last second, and what lies before the cursor was fetched or ties with something that was (`Ascending`, `PagesFollow`). A page is the earliest of what is left, so a full one leaves out nothing but ties. The chart is an induction over the turns of its loop: after each, a bar is the number of problems of its band that were solved in its window among the submissions looked at so far. |
| | `SummariesAddUp`, `ListsAreRecent`, `EntriesStayShown` | `AttendanceInv`: a list arrives within a call of being asked for, a view that found one waits for one call more (`CallsAreInTime`), and a view has no results that are not out, and none fewer than it cannot miss (`ResultsAreOut`). The rows of a table are split by how they are marked, and the parts counted. |
| | `PartsAreFollowed`, `StatisticsAreRight` | A step of `Statistics` is a step of one part and leaves the other alone, so `StatisticsSpec => CountSpec /\ AttendanceSpec`. |
| | `FailuresCostLittle`, `SilenceIsJustified` | `BackupInv`: the dumps are in order of age, each run has at most one file, and *a dump not yet verified counts on neither side*. Without that part the rotation, which comes after the check, would not preserve the bound; a success is in the directory or outnumbered by the files that were kept instead. |
| `Events_proofs` | `TypeCorrect`, `TeamsAreWhole`, `RefusalsAreRaces`, `LabelsHaveLinks` | `TeamInv`: a transaction on a team keeps it there, and by the time it inserts members it has seen those it drops, because nobody else holds the row (`OneHolder`). `KeyInv`: what is still to be written was found or is about to be looked up. `LinkInv`: merged forms under way have a link for their label. |
| `Ranker_proofs` | `TypeCorrect`, `AttemptsAreIcpc` | `JudgeInv`: nothing still to be judged comes before what was (`InOrder`), so a submission taken is the last of those on its problem, and judging it keeps the ICPC meaning of the attempt (`JudgedIsIcpc`, about any finite set of submissions). |
| | `ScoresAreIcpc` | From `JudgeInv` and `TookPart` (who took part is who submitted in time), without which a solved problem of somebody who did not take part would be lost. Two sums of equal terms are equal (`SumEqual`); the wrong answers are a union of sets, one for each problem, with nothing in common (`SumOfSizes`). |
| | `ProblemsCount` | `RankerInv`: with the standings everything is judged (`InSteps`), so what they were drawn from stays. No two rows stand for the same (`RowKeyFacts`), a row counts what its handles solved, at each place where it lists them (`RowFacts`), and the rows together count each problem as often as its handle is listed (`CountedAsMerged`). |
| | `StandingsFollowRows` | In a sorted list the rank of a row is its place or that of the first it ties with, and what is better is what stands before that (`RankIsPlace`, by induction over the places). Ties have one order: two handles have two texts, and two merges two places in the request. |
| | `PagesShowRankings`, `EveryRowIsShown` | `PdfInv`: a page begins where the one before ended (`PagesGoOn`), and the page under way holds the rows its lines were counted for (`PageIsOpen`, `LinesAreCounted`). A page that ends took a row, and the document is rendered only when no row is left. |

**Induction.** Sums, ranks and the chart are recursive. The induction theorems of the TLAPS library
take the statement as a parameter, which its provers cannot instantiate; what is used here
instead is that inclusion of finite sets is well founded: a set of counterexamples has a
smallest one (`SmallestSet`, `LeastNumber`). From it follow induction over the first numbers
(`Induction`) and over the parts of a finite set (`SetInduction`), that a recursion over the first
numbers has a solution (`Recursion`), and what a sum over a finite set is (`SumTakes`: any of its
terms and the sum of the rest).

**Assumptions.** The constants' assumptions say that sets are finite where the code counts them,
that numbers are natural, and otherwise only what is named above: `EmailsUnique` (an index of the
table), `LifeAssumption` (10 against 15 minutes), `CountsAssumption`, and `TextAssumption`, that two
handles have two texts.

**Model-checked only:** the refuted statements, and the liveness of `ProfileFollowsHandle` and
`DownloadEnds`: the fairness they need involves ENABLED, which TLAPS cannot handle. Every
other property of a run has a theorem.

## 5. Not modelled, and what is left

`PROJECT.json` lists every component with its status.

- Problem sections are rows written one at a time with no tie to anything else.
- Input validation, wording and the HTTP layer decide which requests reach a handler; the
  modules take those that do.
- Mail, the HTTP client, VJudge, the store of photos and password hashing are outside: their
  outcomes are choices of the modules that call them.
- Health check, start, shutdown and routing keep no state; a restart is an action of every
  module with memory.
- Of the ranker the weights, titles, real names and the JSON form are left out, since no rank
  depends on them; of the statistics the rules by which a contest's name tells its division;
  listings and leaderboards only read.

What would come next: that no address is claimed twice in `Accounts` with one request at a
time; and that the codes `Accounts` takes for granted are those `OtpGuard` gives, as a refinement.
