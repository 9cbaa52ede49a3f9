------------------------- MODULE Background_proofs -------------------------
(***************************************************************************)
(* What is kept up beside the requests: the sync with the platforms, the   *)
(* statistics made from what it stores, and the nightly backup.  First the *)
(* facts about numbers, sets and lists that the parts share.               *)
(***************************************************************************)
EXTENDS PlatformSync, Statistics, Backup, FiniteSetTheorems, WellFoundedInduction, TLAPS

\* A set of finite sets has one that contains no other: the library states it of the
\* ordering, and all induction over finite data below goes back to it.
LEMMA SmallestSet ==
    ASSUME NEW S, NEW F, F \subseteq FiniteSubsetsOf(S), F # {}
    PROVE  \E m \in F : \A U \in F : U \subseteq m => U = m
  <1>1. PICK m \in F : \A U \in F : ~(<<U, m>> \in StrictSubsetOrdering(S))
    BY FS_StrictSubsetOrderingWellFounded, WFMin
  <1>2. ASSUME NEW U \in F, U \subseteq m, U # m PROVE FALSE
    <2>1. U \in SUBSET S /\ m \in SUBSET S BY DEF FiniteSubsetsOf
    <2>2. <<U, m>> \in StrictSubsetOrdering(S) BY <1>2, <2>1 DEF StrictSubsetOrdering
    <2> QED BY <1>1, <2>2
  <1> QED BY <1>2

\* A set of numbers has a least one.
LEMMA LeastNumber ==
    ASSUME NEW T \in SUBSET Nat, T # {}
    PROVE  \E m \in T : \A k \in T : m <= k
  <1> DEFINE F == {1 .. n : n \in T}
  <1>1. ASSUME NEW n \in T PROVE 1 .. n \in FiniteSubsetsOf(Nat)
    <2>1. IsFiniteSet(1 .. n) BY FS_Interval
    <2>2. 1 .. n \in SUBSET Nat OBVIOUS
    <2> QED BY <2>1, <2>2 DEF FiniteSubsetsOf
  <1>2. F # {} /\ F \subseteq FiniteSubsetsOf(Nat) BY <1>1
  <1> HIDE DEF F
  <1>3. PICK m \in F : \A U \in F : U \subseteq m => U = m BY <1>2, SmallestSet
  <1>4. PICK n \in T : m = 1 .. n BY DEF F
  <1>5. ASSUME NEW k \in T, k < n PROVE FALSE
    <2>1. 1 .. k \subseteq 1 .. n /\ 1 .. k # 1 .. n BY <1>5
    <2>2. 1 .. k \in F BY DEF F
    <2> QED BY <1>3, <1>4, <2>1, <2>2
  <1> QED BY <1>5

\* It is their minimum.
LEMMA MinIsLeast ==
    ASSUME NEW T \in SUBSET Nat, T # {}
    PROVE  Min(T) \in T /\ \A k \in T : Min(T) <= k
  BY LeastNumber DEF Min

\* What is in a list.
LEMMA Element ==
    ASSUME NEW S, NEW s \in Seq(S), NEW i \in 1 .. Len(s)
    PROVE  s[i] \in S
  OBVIOUS

\* A function for each turn of a recursion over the first numbers.
Steps(N, X) == [1 .. N -> [X -> X]]

Follows(f, N, x, turn) == f[0] = x /\ \A n \in 1 .. N : f[n] = turn[n][f[n - 1]]

\* Such a recursion defines a function.
LEMMA Recursion ==
    ASSUME NEW N \in Nat, NEW X, NEW x \in X, NEW turn \in Steps(N, X)
    PROVE  \E f : f \in [0 .. N -> X] /\ Follows(f, N, x, turn)
  <1> DEFINE Good(m) == \E f : f \in [0 .. m -> X] /\ Follows(f, m, x, turn)
             Bad == {m \in 0 .. N : ~Good(m)}
  <1> HIDE DEF Good
  <1>1. Bad \in SUBSET Nat /\ N \in 0 .. N OBVIOUS
  <1>2. \A m \in Bad : m \in 0 .. N /\ ~Good(m) OBVIOUS
  <1>3. \A m \in 0 .. N : m \notin Bad => Good(m) OBVIOUS
  <1> HIDE DEF Bad
  <1>4. ASSUME Bad # {} PROVE FALSE
    <2>1. PICK m \in Bad : \A k \in Bad : m <= k BY <1>1, <1>4, LeastNumber
    <2>2. m \in 0 .. N /\ ~Good(m) BY <1>2
    <2>3. CASE m = 0
      <3>1. [n \in 0 .. 0 |-> x] \in [0 .. 0 -> X] OBVIOUS
      <3>2. Follows([n \in 0 .. 0 |-> x], 0, x, turn) BY DEF Follows
      <3> QED BY <2>2, <2>3, <3>1, <3>2 DEF Good
    <2>4. CASE m # 0
      <3>1. m - 1 \in 0 .. N /\ ~(m <= m - 1) BY <2>2, <2>4
      <3>2. Good(m - 1) BY <1>3, <2>1, <3>1
      <3>3. PICK f : f \in [0 .. m - 1 -> X] /\ Follows(f, m - 1, x, turn)
        BY <3>2 DEF Good
      <3> DEFINE g == [n \in 0 .. m |-> IF n = m THEN turn[m][f[m - 1]] ELSE f[n]]
      <3>4. g \in [0 .. m -> X]
        <4>1. f[m - 1] \in X BY <3>1, <3>3
        <4>2. turn[m] \in [X -> X] BY <2>2, <2>4 DEF Steps
        <4>3. \A n \in 0 .. m : n # m => n \in 0 .. m - 1 BY <2>2
        <4>4. \A n \in 0 .. m : n # m => f[n] \in X BY <3>3, <4>3
        <4> QED BY <4>1, <4>2, <4>4
      <3>5. \A n \in 1 .. m : g[n] = turn[n][g[n - 1]]
        <4> TAKE n \in 1 .. m
        <4>1. n - 1 \in 0 .. m /\ n - 1 # m /\ n \in 0 .. m BY <2>2
        <4>2. n # m => n \in 1 .. m - 1 BY <2>2
        <4>3. g[n - 1] = f[n - 1] BY <4>1
        <4>4. n # m => f[n] = turn[n][f[n - 1]] BY <3>3, <4>2 DEF Follows
        <4> QED BY <4>1, <4>3, <4>4
      <3>6. g[0] = x
        <4>1. 0 \in 0 .. m BY <2>2
        <4> QED BY <2>4, <3>3, <4>1 DEF Follows
      <3> HIDE DEF g
      <3>7. Good(m) BY <3>4, <3>5, <3>6 DEF Good, Follows
      <3> QED BY <2>2, <3>7
    <2> QED BY <2>3, <2>4
  <1>5. Good(N) BY <1>1, <1>3, <1>4
  <1> QED BY <1>5 DEF Good

\* What holds before the first turn and is kept by each holds after all of them.
LEMMA Induction ==
    ASSUME NEW N \in Nat, NEW T \in SUBSET (0 .. N), 0 \in T,
           \A n \in 1 .. N : n - 1 \in T => n \in T
    PROVE  T = 0 .. N
  <1> DEFINE Bad == (0 .. N) \ T
  <1>1. SUFFICES ASSUME Bad # {} PROVE FALSE OBVIOUS
  <1>2. Bad \in SUBSET Nat OBVIOUS
  <1>3. PICK m \in Bad : \A k \in Bad : m <= k
    <2> HIDE DEF Bad
    <2> QED BY <1>1, <1>2, LeastNumber
  <1>4. m \in 1 .. N /\ m - 1 \in 0 .. N /\ ~(m <= m - 1) OBVIOUS
  <1> QED BY <1>3, <1>4

\* A list with another after it.
LEMMA Joined ==
    ASSUME NEW S, NEW s \in Seq(S), NEW t \in Seq(S)
    PROVE  /\ s \o t \in Seq(S) /\ Len(s \o t) = Len(s) + Len(t)
           /\ \A k \in 1 .. Len(s) : (s \o t)[k] = s[k]
           /\ \A k \in Len(s) + 1 .. Len(s) + Len(t) : (s \o t)[k] = t[k - Len(s)]
  OBVIOUS

\* A list has as many places as it is long.
LEMMA ListDomain ==
    ASSUME NEW S, NEW s \in Seq(S)
    PROVE  /\ Len(s) \in Nat /\ DOMAIN s = 1 .. Len(s)
           /\ IsFiniteSet(DOMAIN s) /\ Cardinality(DOMAIN s) = Len(s)
  <1>1. Len(s) \in Nat /\ DOMAIN s = 1 .. Len(s) OBVIOUS
  <1>2. IsFiniteSet(1 .. Len(s)) /\ Cardinality(1 .. Len(s)) = Len(s) BY <1>1, FS_Interval, SMTT(30)
  <1> QED BY <1>1, <1>2

\* A part of a finite set and the rest are all of it.
LEMMA PartAndRest ==
    ASSUME NEW D, IsFiniteSet(D), NEW T \in SUBSET D
    PROVE  /\ Cardinality(T) \in Nat /\ Cardinality(D \ T) \in Nat
           /\ Cardinality(T) + Cardinality(D \ T) = Cardinality(D)
  <1>1. D \cap T = T OBVIOUS
  <1>2. Cardinality(D \ T) = Cardinality(D) - Cardinality(T) BY <1>1, FS_Difference
  <1>3. IsFiniteSet(T) /\ IsFiniteSet(D \ T) BY FS_Subset, FS_Difference
  <1> QED BY <1>2, <1>3, FS_CardinalityType

\* A piece of a list.
LEMMA Piece ==
    ASSUME NEW S, NEW s \in Seq(S), NEW m \in 1 .. Len(s) + 1, NEW n \in 0 .. Len(s), m <= n + 1
    PROVE  /\ SubSeq(s, m, n) \in Seq(S)
           /\ Len(SubSeq(s, m, n)) = n + 1 - m
           /\ \A i \in 1 .. n + 1 - m : SubSeq(s, m, n)[i] = s[m + i - 1]
  OBVIOUS

\* The smaller of two numbers.
LEMMA SmallerOfTwo ==
    ASSUME NEW a \in Int, NEW b \in Int
    PROVE  Min({a, b}) = IF a <= b THEN a ELSE b
  BY DEF Min

-----------------------------------------------------------------------------
(* The platform sync.                                                      *)

\* The steps, one by one, for the case splits below.
LEMMA StepCases ==
    ASSUME [Next]_vars
    PROVE  \/ \E u \in Members, a \in AtcoderHandles \cup {NoHandle},
                 c \in CodeforcesHandles \cup {NoHandle} :
                     Register(u, a, c) \/ \E r \in Requests : UpdateReads(r, u, a, c)
           \/ \E u \in Members : Delete(u)
           \/ \E r \in Requests : UpdateWrites(r) \/ UpdateEnds(r)
           \/ \E j \in Jobs : JobRead(j) \/ JobDropsProfile(j) \/ JobDropsHistory(j) \/ JobSyncs(j)
           \/ \E todo \in ReadTargets("codeforces") : PassReadsCodeforces(todo)
           \/ \E todo \in ReadTargets("atcoder") : PassReadsAtcoder(todo)
           \/ \E u \in Members :
                  PassRecordsCodeforces(u) \/ PassRecordsAtcoder(u) \/ PassMisses(u)
           \/ PassSleeps
           \/ Restart
           \/ UNCHANGED vars
  BY DEF Next, PassStep, JobStep, MemberStep

\* Init establishes the invariant.
LEMMA InitInv == Init => SyncInv
  BY HandleAssumption
  DEF Init, SyncInv, TypeOK, TargetsAreTyped, RowsInv, SyncedRowIsOfOneHandle, NoCountsOnCodeforces, In, Platforms,
      HandlesOn, Handles, Owner, Nobody, NoRow, Row, Pass, Asleep

\* Ratings and solve counts as they were.
SameFigures(p, u) ==
    /\ profiles'[p][u].numbers = profiles[p][u].numbers
    /\ profiles'[p][u].solved = profiles[p][u].solved
    /\ profiles'[p][u].charts = profiles[p][u].charts

\* What is written where a sync succeeded, for either platform.
Stored(p, u, h) ==
    \/ p = "codeforces" /\ StoreCodeforces(u, h)
    \/ p = "atcoder" /\ StoreAtcoder(u, h)

\* Storing a sync, for either platform.
LEMMA StoreKeeps ==
    ASSUME TypeOK, RowsInv, NEW p \in Platforms, NEW u \in Members,
           NEW h \in HandlesOn(p), Stored(p, u, h)
    PROVE  /\ profiles' \in [Platforms -> [Members -> Row]]
           /\ history' \in [Members -> SUBSET AtcoderHandles]
           /\ RowsInv'
           /\ \A q \in Platforms, v \in Members :
                  \/ q = p /\ v = u /\ profiles'[q][v].numbers = h /\ ~profiles'[q][v].failed
                  \/ profiles'[q][v] = profiles[q][v]
  <1>1. profiles \in [Platforms -> [Members -> Row]] BY DEF TypeOK
  <1>2. profiles[p][u] \in Row /\ h \in Owner
    BY <1>1 DEF Owner, HandlesOn, Handles
  <1> DEFINE row == profiles[p][u]
             base == [row EXCEPT !.handle = h, !.numbers = h, !.failed = FALSE]
  <1>3. /\ base \in Row /\ base.handle = h /\ base.numbers = h /\ base.failed = FALSE
        /\ base.solved = row.solved /\ base.charts = row.charts
    BY <1>2 DEF Row
  <1>4. PICK new \in Row :
            /\ profiles' = [profiles EXCEPT ![p][u] = new]
            /\ new.handle = h /\ new.numbers = h /\ new.failed = FALSE
            /\ \/ p = "atcoder" /\ {new.solved, new.charts} \subseteq {h, NoHandle}
               \/ p = "codeforces" /\ new.solved = row.solved /\ new.charts = row.charts
    <2>1. CASE p = "codeforces"
      <3>1. profiles' = [profiles EXCEPT ![p][u] = base]
        BY <2>1 DEF Stored, StoreCodeforces, SyncedRow
      <3> QED BY <1>3, <2>1, <3>1
    <2>2. CASE p = "atcoder"
      <3>1. PICK count \in {h, NoHandle}, bars \in {h, NoHandle} :
                profiles' = [profiles EXCEPT ![p][u] =
                                 [base EXCEPT !.solved = count, !.charts = bars]]
        BY <2>2 DEF Stored, StoreAtcoder, SyncedRow, CountsOf
      <3> DEFINE new == [base EXCEPT !.solved = count, !.charts = bars]
      <3>2. /\ new \in Row /\ new.handle = h /\ new.numbers = h /\ new.failed = FALSE
            /\ {new.solved, new.charts} \subseteq {h, NoHandle}
        BY <1>2, <1>3 DEF Row, Owner
      <3> QED BY <2>2, <3>1, <3>2
    <2> QED BY <2>1, <2>2 DEF Platforms
  <1> HIDE DEF base
  <1>5. profiles' \in [Platforms -> [Members -> Row]] BY <1>1, <1>4
  <1>6. \A q \in Platforms, v \in Members :
            profiles'[q][v] = IF q = p /\ v = u THEN new ELSE profiles[q][v]
    BY <1>1, <1>4
  <1>7. /\ \A v \in Members : history'[v] =
               IF p = "atcoder" /\ v = u THEN {h} ELSE history[v]
        /\ history' \in [Members -> SUBSET AtcoderHandles]
    <2>1. CASE p = "codeforces"
      BY <2>1 DEF Stored, StoreCodeforces, TypeOK
    <2>2. CASE p = "atcoder"
      <3>1. history' = [history EXCEPT ![u] = {h}] /\ h \in AtcoderHandles
        BY <2>2 DEF Stored, StoreAtcoder, NewHistory, HandlesOn
      <3>2. history \in [Members -> SUBSET AtcoderHandles] BY DEF TypeOK
      <3> QED BY <2>2, <3>1, <3>2
    <2> QED BY <2>1, <2>2 DEF Platforms
  <1>8. NoCountsOnCodeforces'
    BY <1>4, <1>6 DEF RowsInv, NoCountsOnCodeforces, Platforms
  <1>9. SyncedRowIsOfOneHandle'
    <2> SUFFICES ASSUME NEW q \in Platforms, NEW v \in Members, ~profiles'[q][v].failed
                 PROVE  LET shown == profiles'[q][v] IN
                        /\ shown.numbers = shown.handle
                        /\ {shown.solved, shown.charts} \subseteq {shown.handle, NoHandle}
                        /\ q = "atcoder" /\ shown # NoRow => history'[v] \subseteq {shown.handle}
      BY DEF SyncedRowIsOfOneHandle
    <2>1. CASE q = p /\ v = u
      <3>1. profiles'[q][v] = new BY <1>6, <2>1
      <3>2. {new.solved, new.charts} \subseteq {h, NoHandle}
        BY <1>4 DEF RowsInv, NoCountsOnCodeforces
      <3>3. q = "atcoder" => history'[v] \subseteq {h} BY <1>7, <2>1
      <3> QED BY <1>4, <3>1, <3>2, <3>3
    <2>2. CASE ~(q = p /\ v = u)
      <3>1. profiles'[q][v] = profiles[q][v] BY <1>6, <2>2
      <3>2. q = "atcoder" => history'[v] = history[v] BY <1>7, <2>2
      <3> QED BY <3>1, <3>2 DEF RowsInv, SyncedRowIsOfOneHandle
    <2> QED BY <2>1, <2>2
  <1> QED BY <1>4, <1>5, <1>6, <1>7, <1>8, <1>9 DEF RowsInv

\* Recording a failure, for either platform.
LEMMA FailureKeeps ==
    ASSUME TypeOK, RowsInv, NEW p \in Platforms, NEW u \in Members,
           NEW h \in HandlesOn(p), RecordFailure(p, u, h)
    PROVE  /\ profiles' \in [Platforms -> [Members -> Row]]
           /\ history' \in [Members -> SUBSET AtcoderHandles]
           /\ RowsInv'
           /\ \A q \in Platforms, v \in Members : SameFigures(q, v)
  <1> DEFINE new == [profiles[p][u] EXCEPT !.handle = h, !.failed = TRUE]
  <1>1. profiles \in [Platforms -> [Members -> Row]] BY DEF TypeOK
  <1>2. profiles[p][u] \in Row BY <1>1
  <1>3. /\ new \in Row /\ new.failed = TRUE /\ new.numbers = profiles[p][u].numbers
        /\ new.solved = profiles[p][u].solved /\ new.charts = profiles[p][u].charts
    BY <1>2 DEF Row, Owner, HandlesOn, Handles
  <1>4. profiles' = [profiles EXCEPT ![p][u] = new] BY DEF RecordFailure, FailedRow
  <1> HIDE DEF new
  <1>5. profiles' \in [Platforms -> [Members -> Row]] BY <1>1, <1>3, <1>4
  <1>6. \A q \in Platforms, v \in Members :
            profiles'[q][v] = IF q = p /\ v = u THEN new ELSE profiles[q][v]
    BY <1>1, <1>4
  <1>7. history' = history /\ history' \in [Members -> SUBSET AtcoderHandles]
    BY DEF TypeOK, RecordFailure
  <1>a. NoCountsOnCodeforces'
    BY <1>3, <1>6 DEF RowsInv, NoCountsOnCodeforces, Platforms
  <1>b. SyncedRowIsOfOneHandle'
    <2> SUFFICES ASSUME NEW q \in Platforms, NEW v \in Members, ~profiles'[q][v].failed
                 PROVE  profiles'[q][v] = profiles[q][v] /\ history' = history
      BY DEF RowsInv, SyncedRowIsOfOneHandle
    <2> QED BY <1>3, <1>6, <1>7
  <1>8. RowsInv' BY <1>a, <1>b DEF RowsInv
  <1>9. \A q \in Platforms, v \in Members : SameFigures(q, v)
    BY <1>3, <1>6 DEF SameFigures
  <1> QED BY <1>5, <1>7, <1>8, <1>9

\* Pass is a type the sleeping pass has.
LEMMA AsleepIsPass == Asleep \in Pass
  BY DEF Asleep, Pass, Nobody, Owner

\* Dropping rows takes nothing from what is said of those that stay.
LEMMA DropKeeps ==
    ASSUME TypeOK, RowsInv,
           \A p \in Platforms, v \in Members : profiles'[p][v] \in {profiles[p][v], NoRow},
           \A v \in Members : history'[v] \subseteq history[v]
    PROVE  RowsInv'
  <1>1. /\ NoRow.numbers = NoRow.handle
        /\ NoRow.solved = NoHandle /\ NoRow.charts = NoHandle
    BY DEF NoRow
  <1>2. NoCountsOnCodeforces'
    BY <1>1 DEF RowsInv, NoCountsOnCodeforces, Platforms
  <1>3. SyncedRowIsOfOneHandle'
    <2> SUFFICES ASSUME NEW p \in Platforms, NEW v \in Members, ~profiles'[p][v].failed
                 PROVE  LET row == profiles'[p][v] IN
                        /\ row.numbers = row.handle
                        /\ {row.solved, row.charts} \subseteq {row.handle, NoHandle}
                        /\ p = "atcoder" /\ row # NoRow => history'[v] \subseteq {row.handle}
      BY DEF SyncedRowIsOfOneHandle
    <2>1. CASE profiles'[p][v] = NoRow BY <1>1, <2>1
    <2>2. CASE profiles'[p][v] = profiles[p][v]
      BY <2>2 DEF RowsInv, SyncedRowIsOfOneHandle
    <2> QED BY <2>1, <2>2
  <1> QED BY <1>2, <1>3 DEF RowsInv

\* What a pass writes about one member.
LEMMA PassWrites ==
    ASSUME TypeOK, TargetsAreTyped, RowsInv, NEW u \in Members,
           PassRecordsCodeforces(u) \/ PassRecordsAtcoder(u) \/ PassMisses(u)
    PROVE  /\ profiles' \in [Platforms -> [Members -> Row]]
           /\ history' \in [Members -> SUBSET AtcoderHandles]
           /\ RowsInv'
           /\ \A q \in Platforms, v \in Members :
                  \/ profiles'[q][v].numbers # NoHandle /\ ~profiles'[q][v].failed
                  \/ SameFigures(q, v)
  <1>1. CASE PassMisses(u)
    BY <1>1 DEF PassMisses, NothingWritten, TypeOK, RowsInv, SyncedRowIsOfOneHandle,
                NoCountsOnCodeforces, SameFigures
  <1>2. ASSUME PassRecordsCodeforces(u) \/ PassRecordsAtcoder(u)
        PROVE  \E p \in Platforms : \E h \in HandlesOn(p) :
                   Stored(p, u, h) \/ RecordFailure(p, u, h)
    <2>1. CASE PassRecordsCodeforces(u)
      <3>1. pass.phase = "codeforces" /\ pass.todo[u] # NoHandle
        BY <2>1 DEF PassRecordsCodeforces
      <3>2. pass.todo[u] \in HandlesOn("codeforces")
        BY <3>1 DEF TargetsAreTyped, Platforms
      <3> QED BY <2>1, <3>2 DEF PassRecordsCodeforces, Platforms, Stored
    <2>2. CASE PassRecordsAtcoder(u)
      <3>1. pass.phase = "atcoder" /\ pass.todo[u] # NoHandle
        BY <2>2 DEF PassRecordsAtcoder
      <3>2. pass.todo[u] \in HandlesOn("atcoder")
        BY <3>1 DEF TargetsAreTyped, Platforms
      <3> QED BY <2>2, <3>2 DEF PassRecordsAtcoder, Platforms, Stored
    <2> QED BY <1>2, <2>1, <2>2
  <1>3. CASE PassRecordsCodeforces(u) \/ PassRecordsAtcoder(u)
    <2>0. PICK p \in Platforms : \E h \in HandlesOn(p) :
                   Stored(p, u, h) \/ RecordFailure(p, u, h)
      BY <1>2, <1>3
    <2>1. PICK h \in HandlesOn(p) : Stored(p, u, h) \/ RecordFailure(p, u, h)
      BY <2>0
    <2>2. CASE RecordFailure(p, u, h) BY <2>2, FailureKeeps
    <2>3. CASE Stored(p, u, h)
      <3>1. h # NoHandle BY HandleAssumption DEF HandlesOn, Handles
      <3> QED BY <2>3, <3>1, StoreKeeps DEF SameFigures
    <2> QED BY <2>1, <2>2, <2>3
  <1> QED BY <1>1, <1>3

\* A spawned task has its handle still to read.
LEMMA SpawnKeeps ==
    ASSUME TypeOK, NEW b, NEW u \in Members, SpawnIf(b, u)
    PROVE  /\ jobs' \in [Jobs -> Job \cup {Idle}]
           /\ \A j \in Jobs : jobs'[j] # Idle /\ jobs'[j].phase = "sync" =>
                  jobs'[j] = jobs[j]
  <1>1. CASE UNCHANGED jobs
    BY <1>1 DEF TypeOK
  <1>2. CASE Spawn(u)
    <2> DEFINE new == [phase |-> "read", user |-> u, handle |-> NoHandle]
    <2>1. PICK i \in Jobs : jobs' = [jobs EXCEPT ![i] = new]
      BY <1>2 DEF Spawn
    <2>2. new \in Job /\ new.phase # "sync" BY DEF Job
    <2> HIDE DEF new
    <2> QED BY <2>1, <2>2 DEF TypeOK
  <1> QED BY <1>1, <1>2 DEF SpawnIf

\* The columns of the handles keep their types.
LEMMA HandlesKeep ==
    ASSUME TypeOK, NEW u \in Members, NEW a \in AtcoderHandles \cup {NoHandle},
           NEW c \in CodeforcesHandles \cup {NoHandle}, SetHandles(u, a, c)
    PROVE  /\ DOMAIN handle' = Platforms
           /\ \A p \in Platforms :
                  handle'[p] \in [Members -> HandlesOn(p) \cup {NoHandle}]
  <1>1. handle' = [handle EXCEPT !["atcoder"] = [@ EXCEPT ![u] = a],
                                 !["codeforces"] = [@ EXCEPT ![u] = c]]
    BY DEF SetHandles
  <1>2. /\ DOMAIN handle' = Platforms
        /\ handle'["atcoder"] = [handle["atcoder"] EXCEPT ![u] = a]
        /\ handle'["codeforces"] = [handle["codeforces"] EXCEPT ![u] = c]
    BY <1>1 DEF TypeOK, Platforms
  <1> QED BY <1>2 DEF TypeOK, Platforms, HandlesOn

\* A target that was synced is ticked off.
LEMMA TickKeeps ==
    ASSUME TypeOK, TargetsAreTyped, NEW u \in Members, Ticked(u)
    PROVE  /\ pass' \in Pass
           /\ pass'.phase = pass.phase
           /\ \A v \in Members : pass'.todo[v] \in {pass.todo[v], NoHandle}
  BY DEF TypeOK, Pass, Owner, Ticked

\* Each step preserves the invariant.
LEMMA StepInv == SyncInv /\ [Next]_vars => SyncInv'
  <1> SUFFICES ASSUME SyncInv, [Next]_vars PROVE SyncInv'
    OBVIOUS
  <1> USE DEF SyncInv
  <1>p. "atcoder" \in Platforms /\ "codeforces" \in Platforms BY DEF Platforms
  <1>1. ASSUME NEW u \in Members, NEW a \in AtcoderHandles \cup {NoHandle},
               NEW c \in CodeforcesHandles \cup {NoHandle}, Register(u, a, c)
        PROVE  SyncInv'
    <2>1. SpawnIf(a # NoHandle, u) /\ SetHandles(u, a, c) BY <1>1 DEF Register
    <2>2. TypeOK'
      BY <1>1, <2>1, SpawnKeeps, HandlesKeep DEF TypeOK, Register
    <2>3. TargetsAreTyped'
      BY <1>1, <2>1, SpawnKeeps DEF TargetsAreTyped, Register, In
    <2>4. RowsInv' BY <1>1 DEF RowsInv, SyncedRowIsOfOneHandle, NoCountsOnCodeforces, Register
    <2> QED BY <2>2, <2>3, <2>4
  <1>2. ASSUME NEW r \in Requests, NEW u \in Members,
               NEW a \in AtcoderHandles \cup {NoHandle},
               NEW c \in CodeforcesHandles \cup {NoHandle}, UpdateReads(r, u, a, c)
        PROVE  SyncInv'
    <2> DEFINE req == [user |-> u, atcoder |-> a, codeforces |-> c,
                       changed |-> a # handle["atcoder"][u]]
    <2>1. req \in Update BY DEF Update
    <2>2. reqs' = [reqs EXCEPT ![r] = req] BY <1>2 DEF UpdateReads
    <2> HIDE DEF req
    <2>3. reqs' \in [Requests -> Update \cup {Idle}] BY <2>1, <2>2 DEF TypeOK
    <2> QED BY <1>2, <2>3 DEF TypeOK, TargetsAreTyped, RowsInv, SyncedRowIsOfOneHandle, NoCountsOnCodeforces, UpdateReads, In
  <1>3. ASSUME NEW u \in Members, Delete(u) PROVE SyncInv'
    <2>1. NoRow \in Row BY DEF NoRow, Row, Owner
    <2>2. \A p \in Platforms : profiles'[p] = [profiles[p] EXCEPT ![u] = NoRow]
      BY <1>3 DEF Delete
    <2>3. profiles' \in [Platforms -> [Members -> Row]]
      BY <1>3, <2>1 DEF Delete, TypeOK
    <2>4. history' \in [Members -> SUBSET AtcoderHandles]
      BY <1>3 DEF Delete, TypeOK
    <2>5. member' \in [Members -> {"new", "member", "deleted"}]
      BY <1>3 DEF Delete, TypeOK
    <2>6. TypeOK'
      BY <1>3, <2>3, <2>4, <2>5, HandlesKeep DEF Delete, TypeOK
    <2>7. TargetsAreTyped' BY <1>3 DEF TargetsAreTyped, Delete, In
    <2>8. \A p \in Platforms, v \in Members : profiles'[p][v] \in {profiles[p][v], NoRow}
      <3>1. \A p \in Platforms : profiles[p] \in [Members -> Row] BY DEF TypeOK
      <3> QED BY <2>2, <3>1
    <2>9. \A v \in Members : history'[v] \subseteq history[v] BY <1>3 DEF Delete, TypeOK
    <2>10. RowsInv' BY <2>8, <2>9, DropKeeps
    <2> QED BY <2>6, <2>7, <2>10
  <1>4. ASSUME NEW r \in Requests, UpdateWrites(r) PROVE SyncInv'
    <2> DEFINE req == reqs[r]
    <2>1. req \in Update BY <1>4 DEF UpdateWrites, TypeOK
    <2>2. /\ req.user \in Members /\ req.atcoder \in AtcoderHandles \cup {NoHandle}
          /\ req.codeforces \in CodeforcesHandles \cup {NoHandle}
      BY <2>1 DEF Update
    <2>3. /\ SetHandles(req.user, req.atcoder, req.codeforces)
          /\ SpawnIf(req.changed, req.user)
      BY <1>4 DEF UpdateWrites
    <2>4. reqs' \in [Requests -> Update \cup {Idle}] BY <1>4 DEF UpdateWrites, TypeOK
    <2> HIDE DEF req
    <2>5. TypeOK'
      BY <1>4, <2>2, <2>3, <2>4, SpawnKeeps, HandlesKeep DEF TypeOK, UpdateWrites
    <2>6. TargetsAreTyped'
      BY <1>4, <2>2, <2>3, SpawnKeeps DEF TargetsAreTyped, UpdateWrites, In
    <2>7. RowsInv' BY <1>4 DEF RowsInv, SyncedRowIsOfOneHandle, NoCountsOnCodeforces, UpdateWrites
    <2> QED BY <2>5, <2>6, <2>7
  <1>5. ASSUME NEW r \in Requests, UpdateEnds(r) PROVE SyncInv'
    BY <1>5 DEF TypeOK, TargetsAreTyped, RowsInv, SyncedRowIsOfOneHandle, NoCountsOnCodeforces, UpdateEnds, In
  <1>6. ASSUME NEW j \in Jobs, JobRead(j) PROVE SyncInv'
    <2>1. jobs[j] \in Job BY <1>6 DEF JobRead, In, TypeOK
    <2>2. PICK phase \in {"sync", "profile"}, h \in AtcoderHandles \cup {NoHandle} :
              JobGoes(j, phase, h) /\ (phase = "sync" => h \in AtcoderHandles)
      BY <1>6, <2>1, <1>p DEF JobRead, TypeOK, HandlesOn, Job
    <2> DEFINE new == [jobs[j] EXCEPT !.phase = phase, !.handle = h]
    <2>3. new \in Job /\ (new.phase = "sync" => new.handle \in AtcoderHandles)
      BY <2>1, <2>2 DEF Job
    <2>4. jobs' = [jobs EXCEPT ![j] = new] BY <2>2 DEF JobGoes
    <2> HIDE DEF new
    <2>5. TypeOK' BY <1>6, <2>3, <2>4 DEF TypeOK, JobRead
    <2>6. TargetsAreTyped'
      BY <1>6, <2>3, <2>4 DEF TargetsAreTyped, JobRead, In, TypeOK
    <2>7. RowsInv' BY <1>6 DEF RowsInv, SyncedRowIsOfOneHandle, NoCountsOnCodeforces, JobRead
    <2> QED BY <2>5, <2>6, <2>7
  <1>7. ASSUME NEW j \in Jobs, JobDropsProfile(j) PROVE SyncInv'
    <2>1. jobs[j] \in Job BY <1>7 DEF JobDropsProfile, In, TypeOK
    <2> DEFINE u == jobs[j].user
               new == [jobs[j] EXCEPT !.phase = "history", !.handle = NoHandle]
    <2>2. new \in Job /\ new.phase # "sync" BY <2>1 DEF Job
    <2>3. jobs' = [jobs EXCEPT ![j] = new] BY <1>7 DEF JobDropsProfile, JobGoes
    <2>4. u \in Members /\ NoRow \in Row BY <2>1 DEF Job, NoRow, Row, Owner
    <2>5. profiles' \in {profiles, [profiles EXCEPT !["atcoder"][u] = NoRow]}
      BY <1>7 DEF JobDropsProfile
    <2> HIDE DEF new, u
    <2>6. /\ profiles' \in [Platforms -> [Members -> Row]]
          /\ \A p \in Platforms, v \in Members :
                 profiles'[p][v] \in {profiles[p][v], NoRow}
      <3> HIDE DEF SyncInv
      <3>1. profiles \in [Platforms -> [Members -> Row]] BY DEF SyncInv, TypeOK
      <3>2. CASE profiles' = profiles BY <3>1, <3>2
      <3>3. CASE profiles' = [profiles EXCEPT !["atcoder"][u] = NoRow]
        <4>1. profiles' \in [Platforms -> [Members -> Row]] BY <2>4, <3>1, <3>3
        <4> QED BY <3>1, <3>3, <4>1
      <3> QED BY <2>5, <3>2, <3>3
    <2>7. \A v \in Members : history'[v] \subseteq history[v] BY <1>7 DEF JobDropsProfile
    <2>8. TypeOK' BY <1>7, <2>2, <2>3, <2>6 DEF TypeOK, JobDropsProfile
    <2>9. TargetsAreTyped'
      BY <1>7, <2>2, <2>3 DEF TargetsAreTyped, JobDropsProfile, In, TypeOK
    <2>10. RowsInv' BY <2>6, <2>7, DropKeeps
    <2> QED BY <2>8, <2>9, <2>10
  <1>8. ASSUME NEW j \in Jobs, JobDropsHistory(j) PROVE SyncInv'
    <2>1. jobs[j].user \in Members BY <1>8 DEF JobDropsHistory, In, TypeOK, Job
    <2>2. \A v \in Members : history'[v] \subseteq history[v]
      BY <1>8, <2>1 DEF JobDropsHistory, TypeOK
    <2>3. TypeOK' BY <1>8 DEF TypeOK, JobDropsHistory, JobEnds
    <2>4. TargetsAreTyped'
      BY <1>8 DEF TargetsAreTyped, JobDropsHistory, JobEnds, In, TypeOK
    <2>5. RowsInv'
      BY <1>8, <2>2 DEF RowsInv, SyncedRowIsOfOneHandle, NoCountsOnCodeforces, JobDropsHistory
    <2> QED BY <2>3, <2>4, <2>5
  <1>9. ASSUME NEW j \in Jobs, JobSyncs(j) PROVE SyncInv'
    <2> DEFINE u == jobs[j].user
               h == jobs[j].handle
    <2>1. u \in Members BY <1>9 DEF JobSyncs, In, TypeOK, Job
    <2>2. h \in HandlesOn("atcoder") BY <1>9 DEF JobSyncs, TargetsAreTyped, HandlesOn
    <2>3. StoreAtcoder(u, h) \/ RecordFailure("atcoder", u, h) \/ NothingWritten(u)
      BY <1>9 DEF JobSyncs
    <2> HIDE DEF u, h
    <2>4. /\ profiles' \in [Platforms -> [Members -> Row]]
          /\ history' \in [Members -> SUBSET AtcoderHandles]
          /\ RowsInv'
      <3>1. CASE StoreAtcoder(u, h)
        BY <3>1, <1>p, <2>1, <2>2, StoreKeeps DEF Stored
      <3>2. CASE RecordFailure("atcoder", u, h) BY <3>2, <1>p, <2>1, <2>2, FailureKeeps
      <3>3. CASE NothingWritten(u)
        BY <3>3 DEF NothingWritten, TypeOK, RowsInv, SyncedRowIsOfOneHandle, NoCountsOnCodeforces
      <3> QED BY <2>3, <3>1, <3>2, <3>3
    <2>5. TypeOK' BY <1>9, <2>4 DEF TypeOK, JobSyncs, JobEnds
    <2>6. TargetsAreTyped' BY <1>9 DEF TargetsAreTyped, JobSyncs, JobEnds, In, TypeOK
    <2> QED BY <2>4, <2>5, <2>6
  <1>10. ASSUME NEW todo \in ReadTargets("codeforces"), PassReadsCodeforces(todo)
         PROVE  SyncInv'
    <2>1. todo \in [Members -> CodeforcesHandles \cup {NoHandle}]
      BY <1>10, <1>p DEF ReadTargets, Targets, Nobody, TypeOK, HandlesOn
    <2>2. PICK outage \in {FALSE, todo # Nobody} :
              pass' = [phase |-> "codeforces", todo |-> todo, outage |-> outage]
      BY <1>10 DEF PassReadsCodeforces
    <2>3. pass' \in Pass BY <2>1, <2>2 DEF Pass, Owner, Handles
    <2>4. \A p \in Platforms : pass'.phase = p =>
              \A u \in Members : pass'.todo[u] \in HandlesOn(p) \cup {NoHandle}
      BY <2>1, <2>2 DEF HandlesOn
    <2> QED BY <1>10, <2>3, <2>4
      DEF TypeOK, TargetsAreTyped, RowsInv, SyncedRowIsOfOneHandle, NoCountsOnCodeforces, PassReadsCodeforces, In
  <1>11. ASSUME NEW todo \in ReadTargets("atcoder"), PassReadsAtcoder(todo)
         PROVE  SyncInv'
    <2>1. todo \in [Members -> AtcoderHandles \cup {NoHandle}]
      BY <1>11, <1>p DEF ReadTargets, Targets, Nobody, TypeOK, HandlesOn
    <2>2. pass' = [phase |-> "atcoder", todo |-> todo, outage |-> FALSE]
      BY <1>11 DEF PassReadsAtcoder, Asleep
    <2>3. pass' \in Pass BY <2>1, <2>2 DEF Pass, Owner, Handles
    <2>4. \A p \in Platforms : pass'.phase = p =>
              \A u \in Members : pass'.todo[u] \in HandlesOn(p) \cup {NoHandle}
      BY <2>1, <2>2 DEF HandlesOn
    <2> QED BY <1>11, <2>3, <2>4
      DEF TypeOK, TargetsAreTyped, RowsInv, SyncedRowIsOfOneHandle, NoCountsOnCodeforces, PassReadsAtcoder, In
  <1>12. ASSUME NEW u \in Members,
                PassRecordsCodeforces(u) \/ PassRecordsAtcoder(u) \/ PassMisses(u)
         PROVE  SyncInv'
    <2>1. Ticked(u) /\ UNCHANGED <<member, handle, reqs, jobs>>
      BY <1>12 DEF PassRecordsCodeforces, PassRecordsAtcoder, PassMisses
    <2>2. TargetsAreTyped' BY <2>1, TickKeeps DEF TargetsAreTyped, In
    <2>3. /\ profiles' \in [Platforms -> [Members -> Row]]
          /\ history' \in [Members -> SUBSET AtcoderHandles]
          /\ RowsInv'
      BY <1>12, PassWrites
    <2>4. TypeOK' BY <2>1, <2>3, TickKeeps DEF TypeOK
    <2> QED BY <2>2, <2>3, <2>4
  <1>a. Asleep.phase \notin Platforms BY DEF Asleep, Platforms
  <1>13. ASSUME PassSleeps PROVE SyncInv'
    BY <1>13, <1>a, AsleepIsPass
    DEF TypeOK, TargetsAreTyped, RowsInv, SyncedRowIsOfOneHandle, NoCountsOnCodeforces, PassSleeps, In
  <1>14. ASSUME Restart PROVE SyncInv'
    BY <1>14, <1>a, AsleepIsPass
    DEF TypeOK, TargetsAreTyped, RowsInv, SyncedRowIsOfOneHandle, NoCountsOnCodeforces, Restart, In
  <1>15. ASSUME UNCHANGED vars PROVE SyncInv'
    BY <1>15 DEF TypeOK, TargetsAreTyped, RowsInv, SyncedRowIsOfOneHandle, NoCountsOnCodeforces, vars, In
  <1> HIDE DEF SyncInv
  <1> QED
    BY StepCases, <1>1, <1>2, <1>3, <1>4, <1>5, <1>6, <1>7, <1>8, <1>9, <1>10, <1>11,
       <1>12, <1>13, <1>14, <1>15

\* Every reachable state satisfies the invariant.
THEOREM Invariant == Spec => []SyncInv
  BY InitInv, StepInv, PTL DEF Spec

\* Every variable keeps its type, each column its platform's handles.
THEOREM TypeCorrect == Spec => []TypeOK
  <1>1. SyncInv => TypeOK BY DEF SyncInv
  <1> QED BY <1>1, Invariant, PTL

\* A row without an error shows the ratings and the contests of the handle it names,
\* and no solve counts of another, however syncs, deletes and changes of the handle
\* interleave.
THEOREM RowsAreOfOneHandle == Spec => []SyncedRowIsOfOneHandle
  <1>1. SyncInv => SyncedRowIsOfOneHandle BY DEF SyncInv, RowsInv
  <1> QED BY <1>1, Invariant, PTL

\* No step of a pass takes the ratings of a member away, and a row it marks as failed
\* keeps every figure.
THEOREM PassesKeepNumbers == Spec => PassKeepsNumbers
  <1> DEFINE Keeps ==
        \A p \in Platforms, u \in Members :
          LET row == profiles[p][u]
              new == profiles'[p][u]
          IN
          pass' # pass =>
              /\ row.numbers # NoHandle => new.numbers # NoHandle
              /\ new.failed =>
                     /\ new.numbers = row.numbers
                     /\ new.solved = row.solved
                     /\ new.charts = row.charts
  <1>1. SyncInv /\ [Next]_vars => [Keeps]_vars
    <2> SUFFICES ASSUME SyncInv, [Next]_vars, pass' # pass, NEW p \in Platforms,
                        NEW v \in Members
                 PROVE  \/ profiles'[p][v].numbers # NoHandle /\ ~profiles'[p][v].failed
                        \/ SameFigures(p, v)
      BY DEF SameFigures
    <2>1. CASE \E u \in Members :
                  PassRecordsCodeforces(u) \/ PassRecordsAtcoder(u) \/ PassMisses(u)
      BY <2>1, PassWrites DEF SyncInv
    <2>2. CASE UNCHANGED profiles BY <2>2 DEF SameFigures
    <2> QED
      BY StepCases, <2>1, <2>2
      DEF Register, UpdateReads, Delete, UpdateWrites, UpdateEnds, JobRead,
          JobDropsProfile, JobDropsHistory, JobSyncs, PassReadsCodeforces,
          PassReadsAtcoder, PassSleeps, Restart, vars
  <1> QED BY <1>1, Invariant, PTL DEF Spec, PassKeepsNumbers

-----------------------------------------------------------------------------
(* The solve charts.                                                       *)

-----------------------------------------------------------------------------
(* The charts.                                                             *)

Problems == {attempt[1] : attempt \in Attempts}

SolveChart == [seen : SUBSET Problems, bars : [DOMAIN Bands -> Nat]]

\* A turn of the loop keeps a chart a chart.
LEMMA CountedType ==
    ASSUME NEW chart \in SolveChart, NEW s \in Submission, NEW after \in Int
    PROVE  Counted(chart, s, after) \in SolveChart
  <1>1. Raised(chart.bars, s.problem) \in [DOMAIN Bands -> Nat]
    <2>1. chart.bars \in [DOMAIN Bands -> Nat] BY DEF SolveChart
    <2>2. \A bars \in [DOMAIN Bands -> Nat] : \A b :
              [bars EXCEPT ![b] = @ + 1] \in [DOMAIN Bands -> Nat]
      <3> TAKE bars \in [DOMAIN Bands -> Nat]
      <3> TAKE b
      <3>1. b \in DOMAIN Bands => bars[b] + 1 \in Nat OBVIOUS
      <3> QED BY <3>1
    <2> QED BY <2>1, <2>2 DEF Raised
  <1>2. chart.seen \cup {s.problem} \in SUBSET Problems
    BY DEF SolveChart, Submission, Problems
  <1> QED BY <1>1, <1>2 DEF Counted, SolveChart

\* The recursion that counts is one.
LEMMA TurnsUnfold ==
    ASSUME judge \in Seq(Submission), NEW places \in Seq(DOMAIN judge), NEW after \in Int
    PROVE  /\ Turns(places, after)[0] = NoChart
           /\ \A n \in 1 .. Len(places) :
                  Turns(places, after)[n] =
                      Counted(Turns(places, after)[n - 1], judge[places[n]], after)
  <1> DEFINE N == Len(places)
             turn == [n \in 1 .. N |->
                         [chart \in SolveChart |-> Counted(chart, judge[places[n]], after)]]
             Turn(f) == f = [n \in 0 .. N |->
                                IF n = 0 THEN NoChart
                                ELSE Counted(f[n - 1], judge[places[n]], after)]
  <1>1. NoChart \in SolveChart BY DEF SolveChart, NoChart
  <1>2. \A n \in 1 .. N : judge[places[n]] \in Submission
    <2> TAKE n \in 1 .. N
    <2>1. places[n] \in 1 .. Len(judge) BY Element
    <2> QED BY <2>1, Element
  <1>3. turn \in Steps(N, SolveChart)
    <2>1. \A n \in 1 .. N : \A chart \in SolveChart :
              Counted(chart, judge[places[n]], after) \in SolveChart
      BY <1>2, CountedType
    <2> QED BY <2>1 DEF Steps
  <1>4. N \in Nat OBVIOUS
  <1>5. \A n \in 1 .. N, chart \in SolveChart :
            turn[n][chart] = Counted(chart, judge[places[n]], after)
    OBVIOUS
  <1>6. Turns(places, after) = CHOOSE f : Turn(f) BY DEF Turns
  <1> HIDE DEF N, turn
  <1>7. PICK f : f \in [0 .. N -> SolveChart] /\ Follows(f, N, NoChart, turn)
    BY <1>1, <1>3, <1>4, Recursion
  <1>8. Turn(f)
    <2>1. \A n \in 0 .. N : n # 0 => n - 1 \in 0 .. N /\ n \in 1 .. N BY <1>4
    <2>2. \A n \in 0 .. N : n - 1 \in 0 .. N => f[n - 1] \in SolveChart BY <1>7
    <2>3. \A n \in 0 .. N : f[n] =
              IF n = 0 THEN NoChart ELSE Counted(f[n - 1], judge[places[n]], after)
      BY <1>7, <2>1, <2>2, <1>5 DEF Follows
    <2> QED BY <1>7, <2>3
  <1>9. Turn(Turns(places, after))
    <2> HIDE DEF Turn
    <2> QED BY <1>6, <1>8
  <1> HIDE DEF Turn
  <1>10. \A n \in 0 .. N : Turns(places, after)[n] =
            IF n = 0 THEN NoChart
            ELSE Counted(Turns(places, after)[n - 1], judge[places[n]], after)
    BY <1>9 DEF Turn
  <1> QED BY <1>4, <1>10 DEF N

InBand(b) == {p \in DOMAIN Difficulty :
                 Bands[b].low <= Difficulty[p] /\ Difficulty[p] <= Bands[b].high}

\* No problem fits two bands, so the first that fits is the one.
LEMMA BandOfFits ==
    ASSUME NEW p \in DOMAIN Difficulty, NEW b \in DOMAIN Bands
    PROVE  BandOf(p) = b <=> p \in InBand(b)
  <1> DEFINE Fits(c) == Bands[c].low <= Difficulty[p] /\ Difficulty[p] <= Bands[c].high
             fits == {c \in DOMAIN Bands : Fits(c)}
  <1>1. DOMAIN Bands = 1 .. Len(Bands) /\ Len(Bands) \in Nat BY CountsAssumption
  <1>2. Difficulty[p] \in Int BY CountsAssumption
  <1>3. \A c \in DOMAIN Bands : Bands[c].low \in Int /\ Bands[c].high \in Int
    <2> TAKE c \in DOMAIN Bands
    <2>1. Bands[c] \in [low : Int, high : Int] BY <1>1, CountsAssumption, Element
    <2> QED BY <2>1
  <1>4. \A c, d \in DOMAIN Bands : Fits(c) /\ Fits(d) => c = d
    <2>1. ASSUME NEW c \in DOMAIN Bands, NEW d \in DOMAIN Bands, Fits(c), Fits(d), c < d
          PROVE  FALSE
      <3>1. Bands[c].high < Bands[d].low BY <2>1, CountsAssumption
      <3>2. /\ Bands[c].high \in Int /\ Bands[d].low \in Int
            /\ Bands[d].low <= Difficulty[p] /\ Difficulty[p] <= Bands[c].high
        BY <1>3, <2>1
      <3> QED BY <1>2, <3>1, <3>2
    <2> QED BY <1>1, <2>1
  <1>5. BandOf(p) = IF fits = {} THEN 0 ELSE Min(fits) BY DEF BandOf
  <1>6. p \in InBand(b) <=> Fits(b) BY DEF InBand
  <1>7. fits \in SUBSET Nat /\ fits \subseteq DOMAIN Bands /\ b # 0 BY <1>1
  <1>8. \A c \in fits : Fits(c) OBVIOUS
  <1>9. Fits(b) => b \in fits OBVIOUS
  <1> HIDE DEF Fits, fits
  <1>10. fits # {} => Min(fits) \in fits BY <1>7, MinIsLeast
  <1>11. CASE Fits(b)
    <2>1. Min(fits) = b BY <1>4, <1>7, <1>8, <1>9, <1>10, <1>11
    <2> QED BY <1>5, <1>6, <1>9, <1>11, <2>1
  <1>12. CASE ~Fits(b)
    BY <1>5, <1>6, <1>7, <1>8, <1>10, <1>12
  <1> QED BY <1>11, <1>12

\* A chart that counts the problems of a set.
BarsCount(bars, set) ==
    /\ bars \in [DOMAIN Bands -> Nat]
    /\ \A b \in DOMAIN Bands : bars[b] = Cardinality(InBand(b) \cap set)

Counts(chart, set) == chart.seen = set /\ BarsCount(chart.bars, set)

\* With one more problem the bars count one more.
LEMMA RaisedCounts ==
    ASSUME NEW bars, NEW set, BarsCount(bars, set), NEW p, p \notin set
    PROVE  BarsCount(Raised(bars, p), set \cup {p})
  <1>0. /\ bars \in [DOMAIN Bands -> Nat]
        /\ \A b \in DOMAIN Bands : bars[b] = Cardinality(InBand(b) \cap set)
    BY DEF BarsCount
  <1>1. \A b \in DOMAIN Bands : p \notin InBand(b) =>
            InBand(b) \cap (set \cup {p}) = InBand(b) \cap set
    OBVIOUS
  <1>2. \A b \in DOMAIN Bands : p \in InBand(b) =>
            Cardinality(InBand(b) \cap (set \cup {p})) = bars[b] + 1
    <2> SUFFICES ASSUME NEW b \in DOMAIN Bands, p \in InBand(b)
                 PROVE  Cardinality(InBand(b) \cap (set \cup {p})) = bars[b] + 1
      OBVIOUS
    <2> DEFINE S == InBand(b) \cap set
    <2>1. InBand(b) \cap (set \cup {p}) = S \cup {p} OBVIOUS
    <2>2. IsFiniteSet(S)
      <3>1. S \subseteq DOMAIN Difficulty BY DEF InBand
      <3> QED BY <3>1, CountsAssumption, FS_Subset
    <2>3. p \notin S /\ bars[b] = Cardinality(S) BY <1>0
    <2> HIDE DEF S
    <2> QED BY <2>1, <2>2, <2>3, FS_AddElement
  <1>3. CASE p \in DOMAIN Difficulty /\ BandOf(p) # 0
    <2>1. Raised(bars, p) = [bars EXCEPT ![BandOf(p)] = @ + 1] BY <1>3 DEF Raised
    <2>2. \A b \in DOMAIN Bands : BandOf(p) = b <=> p \in InBand(b) BY <1>3, BandOfFits
    <2>3. \A b \in DOMAIN Bands : bars[b] + 1 \in Nat BY <1>0
    <2> DEFINE raised == [bars EXCEPT ![BandOf(p)] = @ + 1]
    <2>4. raised \in [DOMAIN Bands -> Nat] BY <1>0, <2>3
    <2>5. \A b \in DOMAIN Bands : raised[b] = IF b = BandOf(p) THEN bars[b] + 1 ELSE bars[b]
      BY <1>0
    <2> HIDE DEF raised
    <2>6. \A b \in DOMAIN Bands : raised[b] = Cardinality(InBand(b) \cap (set \cup {p}))
      BY <1>0, <1>1, <1>2, <2>2, <2>5
    <2> QED BY <2>1, <2>4, <2>6 DEF raised, BarsCount
  <1>4. CASE ~(p \in DOMAIN Difficulty /\ BandOf(p) # 0)
    <2>1. Raised(bars, p) = bars BY <1>4 DEF Raised
    <2>2. \A b \in DOMAIN Bands : p \notin InBand(b)
      <3> SUFFICES ASSUME NEW b \in DOMAIN Bands, p \in InBand(b) PROVE FALSE OBVIOUS
      <3>1. p \in DOMAIN Difficulty BY DEF InBand
      <3>2. BandOf(p) = b BY <3>1, BandOfFits
      <3>3. b # 0 BY CountsAssumption
      <3> QED BY <1>4, <3>1, <3>2, <3>3
    <2> QED BY <1>0, <1>1, <2>1, <2>2 DEF BarsCount
  <1> QED BY <1>3, <1>4

\* A turn of the loop counts a solution in the window, and no other submission.
LEMMA CountedCounts ==
    ASSUME NEW chart, NEW set, Counts(chart, set), NEW s \in Submission, NEW after \in Int
    PROVE  Counts(Counted(chart, s, after),
                  IF s.accepted /\ s.at >= after THEN set \cup {s.problem} ELSE set)
  <1>1. s.accepted \in BOOLEAN /\ s.at \in Nat BY DEF Submission
  <1>2. CASE ~s.accepted \/ s.at < after
    <2>1. Counted(chart, s, after) = chart BY <1>2 DEF Counted
    <2>2. ~(s.accepted /\ s.at >= after) BY <1>1, <1>2
    <2> QED BY <2>1, <2>2
  <1>3. CASE s.accepted /\ s.at >= after /\ s.problem \in chart.seen
    <2>1. Counted(chart, s, after) = chart BY <1>3 DEF Counted
    <2>2. set \cup {s.problem} = set BY <1>3 DEF Counts
    <2> QED BY <1>3, <2>1, <2>2
  <1>4. CASE s.accepted /\ s.at >= after /\ s.problem \notin chart.seen
    <2>1. ~(s.at < after) BY <1>1, <1>4
    <2>2. Counted(chart, s, after) = [seen |-> chart.seen \cup {s.problem},
                                      bars |-> Raised(chart.bars, s.problem)]
      BY <1>4, <2>1 DEF Counted
    <2>3. chart.seen = set /\ BarsCount(chart.bars, set) /\ s.problem \notin set
      BY <1>4 DEF Counts
    <2>4. BarsCount(Raised(chart.bars, s.problem), set \cup {s.problem})
      BY <2>3, RaisedCounts
    <2>5. Counts(Counted(chart, s, after), set \cup {s.problem})
      BY <2>2, <2>3, <2>4 DEF Counts
    <2> QED BY <1>4, <2>5
  <1> QED BY <1>1, <1>2, <1>3, <1>4

\* The problems solved in the first n of the places.
Solved(places, n, after) ==
    {judge[places[k]].problem : k \in {k \in 1 .. n : judge[places[k]].accepted
                                                      /\ judge[places[k]].at >= after}}

\* By induction: after all turns, what was solved is counted.
LEMMA TurnsCount ==
    ASSUME judge \in Seq(Submission), NEW places \in Seq(DOMAIN judge), NEW after \in Int
    PROVE  Counts(Turns(places, after)[Len(places)], Solved(places, Len(places), after))
  <1> DEFINE N == Len(places)
             turns == Turns(places, after)
             T == {n \in 0 .. N : Counts(turns[n], Solved(places, n, after))}
             After(n) == LET s == judge[places[n]] set == Solved(places, n - 1, after)
                         IN IF s.accepted /\ s.at >= after THEN set \cup {s.problem} ELSE set
  <1>1. N \in Nat OBVIOUS
  <1>2. turns[0] = NoChart /\ \A n \in 1 .. N :
            turns[n] = Counted(turns[n - 1], judge[places[n]], after)
    BY TurnsUnfold
  <1>3. \A n \in 1 .. N : judge[places[n]] \in Submission
    <2> TAKE n \in 1 .. N
    <2>1. places[n] \in 1 .. Len(judge) BY Element
    <2> QED BY <2>1, Element
  <1> HIDE DEF N, turns
  <1>4. 0 \in T
    <2>1. Solved(places, 0, after) = {} BY DEF Solved
    <2>2. \A b \in DOMAIN Bands : Cardinality(InBand(b) \cap {}) = 0 BY FS_EmptySet
    <2>3. Counts(NoChart, {}) BY <2>2 DEF Counts, BarsCount, NoChart
    <2>4. Counts(turns[0], Solved(places, 0, after)) BY <1>2, <2>1, <2>3
    <2>5. 0 \in 0 .. N BY <1>1
    <2> QED BY <2>4, <2>5
  <1>5. ASSUME NEW n \in 1 .. N, n - 1 \in T PROVE n \in T
    <2>1. Counts(turns[n - 1], Solved(places, n - 1, after)) BY <1>5
    <2>2. Solved(places, n, after) = After(n)
      <3>1. 1 .. n = (1 .. n - 1) \cup {n} BY <1>1
      <3> QED BY <3>1 DEF Solved
    <2>3. Counts(Counted(turns[n - 1], judge[places[n]], after), After(n))
      <3> HIDE DEF Solved
      <3> QED BY <1>3, <2>1, CountedCounts
    <2>4. Counts(turns[n], Solved(places, n, after)) BY <1>2, <2>2, <2>3
    <2>5. n \in 0 .. N BY <1>1
    <2> QED BY <2>4, <2>5
  <1>6. T \in SUBSET (0 .. N) OBVIOUS
  <1> HIDE DEF T
  <1>7. T = 0 .. N BY <1>1, <1>4, <1>5, <1>6, Induction
  <1>8. N \in T BY <1>1, <1>7
  <1> QED BY <1>8 DEF T, N, turns

\* So each bar counts what the property says it counts.
LEMMA ChartsCount ==
    ASSUME judge \in Seq(Submission), NEW places \in Seq(DOMAIN judge), NEW clock \in Int
    PROVE  \A w \in DOMAIN Windows, b \in DOMAIN Bands :
               Charts(places, clock)[w][b] =
                   Cardinality(SolvedSince(judge, places, clock - Windows[w], b))
  <1> TAKE w \in DOMAIN Windows, b \in DOMAIN Bands
  <1> DEFINE after == clock - Windows[w]
             N == Len(places)
             S == SolvedSince(judge, places, after, b)
  <1>1. after \in Int BY CountsAssumption
  <1>2. S = InBand(b) \cap Solved(places, N, after)
    <2>1. Range(places) = {places[k] : k \in 1 .. N} BY DEF Range
    <2> QED BY <2>1 DEF InBand, Solved, SolvedSince
  <1> HIDE DEF after, S
  <1>3. Counts(Turns(places, after)[N], Solved(places, N, after)) BY <1>1, TurnsCount
  <1>4. Charts(places, clock)[w][b] = Turns(places, after)[N].bars[b]
    BY DEF Charts, Chart, after
  <1> HIDE DEF N
  <1>5. Charts(places, clock)[w][b] = Cardinality(S)
    BY <1>2, <1>3, <1>4 DEF Counts, BarsCount
  <1> QED BY <1>5 DEF S, after

-----------------------------------------------------------------------------
(* The pages.                                                              *)

\* A page has the submissions from the first since the cursor on, as many as fit.
IsPage(first, size) ==
    /\ Page \in Seq(DOMAIN judge) /\ Len(Page) = size
    /\ \A k \in 1 .. size : Page[k] = first + k - 1
    /\ first + size - 1 <= Len(judge)
    /\ \A i \in DOMAIN judge : judge[i].at >= cursor <=> i >= first
    /\ size < PageSize => first + size - 1 = Len(judge)

\* The page that AtCoder Problems answers is such a page.
LEMMA PageIsPage ==
    ASSUME CountTypes, InOrderOfTime
    PROVE  \E first \in Nat \ {0}, size \in Nat : size <= PageSize /\ IsPage(first, size)
  <1> DEFINE since == {i \in DOMAIN judge : judge[i].at >= cursor}
             N == Len(judge)
  <1>1. N \in Nat /\ DOMAIN judge = 1 .. N BY DEF CountTypes
  <1>2. PageSize \in Nat \ {0} BY CountsAssumption
  <1>3. \A i \in 1 .. N : judge[i].at \in Nat
    <2> TAKE i \in 1 .. N
    <2>1. judge[i] \in Submission BY Element DEF CountTypes
    <2> QED BY <2>1 DEF Submission
  <1>4. cursor \in Int BY DEF CountTypes
  <1>5. since \in SUBSET Nat /\ since \subseteq 1 .. N BY <1>1
  <1>6. \A i \in 1 .. N : i \in since <=> judge[i].at >= cursor BY <1>1
  <1>7. Page = LET size == Min({Cardinality(since), PageSize})
               IN IF since = {} THEN <<>> ELSE [n \in 1 .. size |-> Min(since) + n - 1]
    BY DEF Page
  <1> HIDE DEF since, N
  <1>8. CASE since = {}
    <2>1. Page = <<>> BY <1>7, <1>8
    <2>2. \A i \in 1 .. N : judge[i].at >= cursor <=> i >= N + 1 BY <1>1, <1>6, <1>8
    <2>3. IsPage(N + 1, 0) BY <1>1, <2>1, <2>2 DEF IsPage, N
    <2> QED BY <1>1, <1>2, <2>3
  <1>9. CASE since # {}
    <2> DEFINE first == Min(since)
    <2>1. first \in since /\ \A k \in since : first <= k BY <1>5, <1>9, MinIsLeast
    <2> HIDE DEF first
    <2>2. first \in 1 .. N BY <1>5, <2>1
    <2>3. \A i \in 1 .. N : i \in since <=> i >= first
      <3> SUFFICES ASSUME NEW i \in 1 .. N, i > first PROVE i \in since
        BY <1>1, <1>5, <2>1, <2>2
      <3>1. judge[first].at <= judge[i].at BY <1>1, <2>2 DEF InOrderOfTime
      <3>2. judge[first].at >= cursor BY <1>6, <2>1, <2>2
      <3> QED BY <1>3, <1>4, <1>6, <2>2, <3>1, <3>2
    <2>4. since = first .. N
      <3>1. ASSUME NEW i \in since PROVE i \in first .. N BY <1>1, <1>5, <2>1, <2>2
      <3>2. ASSUME NEW i \in first .. N PROVE i \in since BY <1>1, <2>2, <2>3
      <3> QED BY <3>1, <3>2
    <2>5. Cardinality(since) = N + 1 - first BY <1>1, <2>2, <2>4, FS_Interval
    <2> DEFINE size == IF N + 1 - first <= PageSize THEN N + 1 - first ELSE PageSize
    <2>6. N + 1 - first \in Nat BY <1>1, <2>2
    <2>7. Min({Cardinality(since), PageSize}) = size BY <1>2, <2>5, <2>6, SmallerOfTwo
    <2>8. size \in Nat /\ size <= PageSize /\ first + size - 1 <= N
          /\ (size < PageSize => first + size - 1 = N)
      BY <1>1, <1>2, <2>2
    <2>9. Page = [n \in 1 .. size |-> first + n - 1] BY <1>7, <1>9, <2>7 DEF first
    <2> HIDE DEF size
    <2>10. \A n \in 1 .. size : first + n - 1 \in 1 .. N BY <1>1, <2>2, <2>8
    <2>11. Page \in Seq(1 .. N) /\ Len(Page) = size BY <2>8, <2>9, <2>10
    <2>12. \A k \in 1 .. size : Page[k] = first + k - 1 BY <2>9
    <2>13. \A i \in 1 .. N : judge[i].at >= cursor <=> i >= first BY <1>6, <2>3
    <2>14. IsPage(first, size) BY <1>1, <2>8, <2>11, <2>12, <2>13 DEF IsPage, N
    <2> QED BY <1>1, <2>2, <2>8, <2>14
  <1> QED BY <1>8, <1>9

\* What a page that follows the others leaves out.
LEMMA FetchFollows ==
    ASSUME CountTypes, InOrderOfTime, PagesFollow, FetchPage
    PROVE  /\ got' \in Seq(DOMAIN judge)
           /\ cursor' \in Int
           /\ Ascending'
           /\ IF got' = <<>> THEN cursor' = from ELSE cursor' = judge[Last(got')].at + 1
           /\ \A i \in DOMAIN judge :
                  (from <= judge[i].at /\ judge[i].at < cursor' /\ i \notin Range(got')) =>
                      \E j \in Range(got') : j < i /\ judge[j].at = judge[i].at
           /\ \A i \in DOMAIN judge :
                  (cursor' <= judge[i].at /\ i \notin Range(got')) =>
                      Len(Page) = PageSize /\ \A j \in Range(got') : j < i
  <1> DEFINE N == Len(judge)
             G == Len(got)
  <1>1. N \in Nat /\ DOMAIN judge = 1 .. N BY DEF CountTypes
  <1>2. \A i \in 1 .. N : judge[i].at \in Nat
    <2> TAKE i \in 1 .. N
    <2>1. judge[i] \in Submission BY Element DEF CountTypes
    <2> QED BY <2>1 DEF Submission
  <1>3. cursor \in Int /\ from \in Int /\ got \in Seq(1 .. N) /\ PageSize \in Nat
    BY <1>1, CountsAssumption DEF CountTypes
  <1>4. G \in Nat /\ DOMAIN got = 1 .. G /\ \A k \in 1 .. G : got[k] \in 1 .. N
    BY <1>3, Element
  <1>5. /\ Ascending
        /\ IF got = <<>> THEN cursor = from ELSE cursor = judge[Last(got)].at + 1
        /\ \A i \in 1 .. N :
               (from <= judge[i].at /\ judge[i].at < cursor /\ i \notin Range(got)) =>
                   \E j \in Range(got) : j < i /\ judge[j].at = judge[i].at
    BY <1>1 DEF PagesFollow, FetchPage
  <1>6. PICK first \in Nat \ {0}, size \in Nat : size <= PageSize /\ IsPage(first, size)
    BY PageIsPage
  <1> DEFINE last == first + size - 1
  <1>7. /\ Page \in Seq(1 .. N) /\ Len(Page) = size
        /\ \A k \in 1 .. size : Page[k] = first + k - 1
        /\ last <= N
        /\ \A i \in 1 .. N : judge[i].at >= cursor <=> i >= first
        /\ size < PageSize => last = N
    BY <1>1, <1>6 DEF IsPage
  <1>8. got' = got \o Page /\ from' = from /\ judge' = judge /\ cursor' = Advanced(Page)
    BY DEF FetchPage
  <1> HIDE DEF N, G
  \* What was there is before the page.
  <1>9. \A k \in 1 .. G : got[k] < first
    <2> SUFFICES ASSUME NEW k \in 1 .. G PROVE got[k] < first OBVIOUS
    <2>1. Last(got) = got[G] /\ got # <<>> /\ G \in 1 .. G BY <1>3, <1>4 DEF Last, G
    <2>2. got[k] <= got[G] BY <1>4, <1>5, <2>1 DEF Ascending
    <2>3. judge[got[k]].at <= judge[got[G]].at
      <3>1. got[k] \in 1 .. N /\ got[G] \in 1 .. N BY <1>4, <2>1
      <3>2. CASE got[k] = got[G] BY <1>2, <3>1, <3>2
      <3>3. CASE got[k] < got[G] BY <1>1, <3>1, <3>3 DEF InOrderOfTime
      <3> QED BY <2>2, <3>1, <3>2, <3>3
    <2>4. judge[got[k]].at < cursor BY <1>2, <1>4, <1>5, <2>1, <2>3
    <2> QED BY <1>2, <1>3, <1>4, <1>6, <1>7, <2>4
  <1>10. /\ got' \in Seq(1 .. N) /\ Len(got') = G + size
         /\ \A k \in 1 .. G : got'[k] = got[k]
         /\ \A k \in G + 1 .. G + size : got'[k] = Page[k - G]
    BY <1>3, <1>7, <1>8, Joined, ZenonT(60) DEF G
  <1>11. \A k \in G + 1 .. G + size : got'[k] = first + (k - G) - 1
    <2> TAKE k \in G + 1 .. G + size
    <2>1. k - G \in 1 .. size BY <1>4, <1>6
    <2> QED BY <1>7, <1>10, <2>1
  <1>12. DOMAIN got' = 1 .. G + size BY <1>4, <1>6, <1>10
  <1>13. Ascending'
    <2> SUFFICES ASSUME NEW m \in 1 .. G + size, NEW n \in 1 .. G + size, m < n
                 PROVE  got'[m] < got'[n]
      BY <1>12 DEF Ascending
    <2>1. CASE n <= G BY <1>4, <1>5, <1>10, <2>1 DEF Ascending
    <2>2. CASE m <= G /\ n > G
      <3>1. m \in 1 .. G /\ n \in G + 1 .. G + size BY <1>4, <2>2
      <3>2. got'[m] < first /\ got'[n] >= first BY <1>4, <1>6, <1>9, <1>10, <1>11, <3>1
      <3> QED BY <1>4, <1>6, <1>10, <1>11, <3>1, <3>2
    <2>3. CASE m > G
      <3>1. m \in G + 1 .. G + size /\ n \in G + 1 .. G + size BY <1>4, <2>3
      <3> QED BY <1>4, <1>6, <1>11, <3>1
    <2> QED BY <1>4, <2>1, <2>2, <2>3
  <1>14. \A i \in first .. last : i \in Range(got')
    <2> TAKE i \in first .. last
    <2>1. i - first + 1 + G \in G + 1 .. G + size BY <1>4, <1>6
    <2>2. got'[i - first + 1 + G] = i BY <1>4, <1>6, <1>11, <2>1
    <2>3. i - first + 1 + G \in DOMAIN got' BY <1>4, <1>6, <1>12, <2>1
    <2> QED BY <2>2, <2>3 DEF Range
  <1>15. \A i \in Range(got) : i \in Range(got')
    BY <1>4, <1>6, <1>10, <1>12 DEF Range
  <1>16. \A j \in Range(got') : j < first \/ j \in first .. last
    <2> SUFFICES ASSUME NEW k \in 1 .. G + size
                 PROVE  got'[k] < first \/ got'[k] \in first .. last
      BY <1>12 DEF Range
    <2>1. CASE k <= G BY <1>4, <1>9, <1>10, <2>1
    <2>2. CASE k > G BY <1>4, <1>6, <1>11, <2>2
    <2> QED BY <1>4, <2>1, <2>2
  <1>17. CASE size = 0
    <2>1. Page = <<>> BY <1>7, <1>17
    <2>2. cursor' = cursor /\ got' = got BY <1>3, <1>8, <2>1 DEF Advanced
    <2>3. \A i \in 1 .. N : cursor' <= judge[i].at /\ i \notin Range(got') =>
              size = PageSize /\ \A j \in Range(got') : j < i
      <3> SUFFICES ASSUME NEW i \in 1 .. N, cursor' <= judge[i].at, i \notin Range(got')
                   PROVE  FALSE
        OBVIOUS
      <3>1. PageSize # 0 BY CountsAssumption
      <3>2. i >= first BY <1>2, <1>3, <1>7, <2>2
      <3> QED BY <1>1, <1>3, <1>6, <1>7, <1>17, <3>1, <3>2
    <2> QED BY <1>1, <1>3, <1>5, <1>7, <1>10, <1>13, <2>2, <2>3
  <1>18. CASE size > 0
    <2>1. /\ Last(Page) = last /\ Page # <<>> /\ last \in first .. last /\ last \in 1 .. N
          /\ Last(got') = last /\ got' # <<>>
      <3>1. size \in 1 .. size /\ G + size \in G + 1 .. G + size /\ G + size > 0
        BY <1>4, <1>6, <1>18
      <3>2. Page # <<>> /\ Last(Page) = last BY <1>6, <1>7, <1>18, <3>1 DEF Last
      <3>3. got' # <<>> /\ Last(got') = got'[G + size] BY <1>10, <3>1 DEF Last
      <3>4. got'[G + size] = last BY <1>4, <1>6, <1>11, <3>1
      <3>5. last \in first .. last /\ last \in 1 .. N BY <1>1, <1>6, <1>7, <1>18
      <3> QED BY <3>2, <3>3, <3>4, <3>5
    <2>2. cursor' = judge[last].at + 1 /\ cursor' \in Int
      BY <1>2, <1>8, <2>1 DEF Advanced
    <2>3. judge[last].at >= cursor BY <1>6, <1>7, <1>18, <2>1
    <2>4. \A i \in 1 .. N :
              (from <= judge[i].at /\ judge[i].at < cursor' /\ i \notin Range(got')) =>
                  \E j \in Range(got') : j < i /\ judge[j].at = judge[i].at
      <3> SUFFICES ASSUME NEW i \in 1 .. N, from <= judge[i].at, judge[i].at < cursor',
                          i \notin Range(got')
                   PROVE  \E j \in Range(got') : j < i /\ judge[j].at = judge[i].at
        OBVIOUS
      <3>1. CASE judge[i].at < cursor BY <1>5, <1>15, <3>1
      <3>2. CASE judge[i].at >= cursor
        <4>1. i >= first /\ i > last BY <1>1, <1>6, <1>7, <1>14, <3>2
        <4>2. judge[last].at <= judge[i].at BY <1>1, <2>1, <4>1 DEF InOrderOfTime
        <4>3. judge[last].at = judge[i].at BY <1>2, <2>1, <2>2, <4>2
        <4> QED BY <1>14, <2>1, <4>1, <4>3
      <3> QED BY <1>2, <1>3, <3>1, <3>2
    <2>5. \A i \in 1 .. N : cursor' <= judge[i].at /\ i \notin Range(got') =>
              size = PageSize /\ \A j \in Range(got') : j < i
      <3> SUFFICES ASSUME NEW i \in 1 .. N, cursor' <= judge[i].at, i \notin Range(got')
                   PROVE  size = PageSize /\ \A j \in Range(got') : j < i
        OBVIOUS
      <3>1. judge[i].at >= cursor BY <1>2, <1>3, <2>1, <2>2, <2>3, SMTT(30)
      <3>2. i >= first /\ i > last BY <1>1, <1>6, <1>7, <1>14, <3>1
      <3>3. size = PageSize BY <1>1, <1>3, <1>6, <1>7, <3>2
      <3>4. \A j \in Range(got') : j \in Nat
        <4>1. \A k \in 1 .. G + size : got'[k] \in 1 .. N BY <1>10, Element
        <4> QED BY <1>1, <1>12, <4>1 DEF Range
      <3>5. \A j \in Range(got') : j < i BY <1>6, <1>16, <3>2, <3>4
      <3> QED BY <3>3, <3>5
    <2> QED BY <1>1, <1>7, <1>10, <1>13, <2>1, <2>2, <2>4, <2>5
  <1> QED BY <1>6, <1>17, <1>18

-----------------------------------------------------------------------------
(* The invariant of the charts.                                            *)

\* The longest window has a length.
LEMMA YearIsLong == Year \in Nat
  <1>1. Len(Windows) \in 1 .. Len(Windows) BY CountsAssumption
  <1> QED BY <1>1, CountsAssumption, Element DEF Year, Last

\* Nothing is fetched at first.
LEMMA CountInitInv == CountInit => CountInv
  <1> SUFFICES ASSUME CountInit PROVE CountInv
    OBVIOUS
  <1>1. CountTypes BY DEF CountInit, CountTypes
  <1>2. InOrderOfTime /\ PagesFollow /\ OnlyTiesAreSkipped /\ ChartsCountProblems
    BY DEF CountInit, InOrderOfTime, PagesFollow, OnlyTiesAreSkipped, ChartsCountProblems
  <1> QED BY <1>1, <1>2 DEF CountInv

\* The submissions so far, with one more.
LEMMA SubmitAppends ==
    ASSUME CountTypes, InOrderOfTime, NEW attempt \in Attempts, Submit(attempt)
    PROVE  /\ judge' \in Seq(Submission)
           /\ Len(judge) \in Nat /\ Len(judge') = Len(judge) + 1
           /\ DOMAIN judge = 1 .. Len(judge) /\ DOMAIN judge' = 1 .. Len(judge) + 1
           /\ \A i \in 1 .. Len(judge) : judge'[i] = judge[i] /\ judge[i].at \in Nat
           /\ judge'[Len(judge) + 1].at = second
           /\ got \in Seq(DOMAIN judge')
           /\ \A i \in Range(got) : i \in 1 .. Len(judge)
  <1> DEFINE s == [at |-> second, problem |-> attempt[1], accepted |-> attempt[2]]
             N == Len(judge)
  <1>1. s \in Submission BY CountsAssumption DEF Submission, CountTypes
  <1>2. judge \in Seq(Submission) /\ judge' = Append(judge, s) /\ s.at = second
    BY DEF CountTypes, Submit
  <1>3. got \in Seq(1 .. N) /\ N \in Nat BY <1>2 DEF CountTypes
  <1>4. \A i \in 1 .. N : judge[i].at \in Nat
    <2> TAKE i \in 1 .. N
    <2>1. judge[i] \in Submission BY <1>2, Element
    <2> QED BY <2>1 DEF Submission
  <1> HIDE DEF s
  <1>5. /\ judge' \in Seq(Submission) /\ Len(judge') = N + 1
        /\ DOMAIN judge = 1 .. N /\ DOMAIN judge' = 1 .. N + 1
        /\ \A i \in 1 .. N : judge'[i] = judge[i]
        /\ judge'[N + 1] = s
    BY <1>1, <1>2
  <1> HIDE DEF N
  <1>6. got \in Seq(1 .. N + 1) BY <1>3
  <1>7. \A i \in Range(got) : i \in 1 .. N
    <2>1. \A k \in 1 .. Len(got) : got[k] \in 1 .. N BY <1>3, Element
    <2> QED BY <1>3, <2>1 DEF Range
  <1> QED BY <1>2, <1>3, <1>4, <1>5, <1>6, <1>7 DEF N

\* Types.
LEMMA CountNextTypes ==
    ASSUME CountInv, CountNext
    PROVE  CountTypes'
  <1> USE CountsAssumption DEF CountInv
  <1>0. Len(judge) \in Nat /\ DOMAIN judge = 1 .. Len(judge) BY DEF CountTypes
  <1>1. ASSUME NEW attempt \in Attempts, Submit(attempt) PROVE CountTypes'
    <2>1. /\ judge' \in Seq(Submission) /\ got \in Seq(DOMAIN judge')
          /\ Len(judge') = Len(judge) + 1
      BY <1>1, SubmitAppends
    <2>2. listed \in 0 .. Len(judge') BY <1>0, <2>1 DEF CountTypes
    <2> QED BY <1>1, <2>1, <2>2 DEF Submit, CountTypes
  <1>2. CASE SecondPasses BY <1>2 DEF SecondPasses, CountTypes
  <1>3. CASE StartPaging
    <2>1. got' \in Seq(DOMAIN judge') /\ listed' \in 0 .. Len(judge')
      BY <1>0, <1>3 DEF StartPaging
    <2> QED BY <1>3, <2>1, YearIsLong DEF StartPaging, CountTypes
  <1>4. CASE FetchPage
    <2>1. got' \in Seq(DOMAIN judge) /\ cursor' \in Int BY <1>4, FetchFollows
    <2>2. counting' \in {"idle", "paging", "counted"} BY <1>4 DEF FetchPage
    <2>3. listed' \in 0 .. Len(judge') BY <1>0, <1>4 DEF FetchPage
    <2> QED BY <1>4, <2>1, <2>2, <2>3 DEF FetchPage, CountTypes
  <1>5. CASE FetchFails BY <1>5 DEF FetchFails, CountTypes
  <1>6. CASE FetchAll
    <2> DEFINE places == [i \in DOMAIN judge |-> i]
    <2>1. places \in Seq(DOMAIN judge) BY <1>0
    <2>2. Reverse(places) \in Seq(DOMAIN judge) BY <1>0, <2>1 DEF Reverse
    <2>3. got' \in Seq(DOMAIN judge') /\ listed' \in 0 .. Len(judge')
      BY <1>0, <1>6, <2>2 DEF FetchAll
    <2> QED BY <1>6, <2>3, YearIsLong DEF FetchAll, CountTypes
  <1> QED BY <1>1, <1>2, <1>3, <1>4, <1>5, <1>6 DEF CountNext

\* The order of the submissions.
LEMMA CountNextTime ==
    ASSUME CountInv, CountNext
    PROVE  InOrderOfTime'
  <1> USE DEF CountInv
  <1>1. ASSUME NEW attempt \in Attempts, Submit(attempt) PROVE InOrderOfTime'
    <2> DEFINE N == Len(judge)
    <2>1. /\ N \in Nat /\ DOMAIN judge = 1 .. N /\ DOMAIN judge' = 1 .. N + 1
          /\ \A i \in 1 .. N : judge'[i] = judge[i] /\ judge[i].at \in Nat
          /\ judge'[N + 1].at = second
      BY <1>1, SubmitAppends
    <2>2. second \in Nat /\ second' = second BY <1>1 DEF CountTypes, Submit
    <2>3. \A i \in 1 .. N : judge[i].at <= second BY <2>1 DEF InOrderOfTime
    <2>4. \A i, j \in 1 .. N : i < j => judge[i].at <= judge[j].at
      BY <2>1 DEF InOrderOfTime
    <2> HIDE DEF N
    <2>5. \A i \in 1 .. N + 1 : i \in 1 .. N \/ i = N + 1 BY <2>1
    <2>6. \A i \in 1 .. N + 1 : judge'[i].at <= second'
      BY <2>1, <2>2, <2>3, <2>5
    <2>7. ASSUME NEW i \in 1 .. N + 1, NEW j \in 1 .. N + 1, i < j
          PROVE  judge'[i].at <= judge'[j].at
      <3>1. i \in 1 .. N BY <2>1, <2>7
      <3>2. CASE j \in 1 .. N BY <2>1, <2>4, <2>7, <3>1, <3>2
      <3>3. CASE j = N + 1 BY <2>1, <2>3, <3>1, <3>3
      <3> QED BY <2>5, <3>2, <3>3
    <2> QED BY <2>1, <2>6, <2>7 DEF InOrderOfTime
  <1>2. CASE SecondPasses
    <2>1. \A i \in DOMAIN judge : judge[i].at \in Nat
      <3> TAKE i \in DOMAIN judge
      <3>1. judge[i] \in Submission BY Element DEF CountTypes
      <3> QED BY <3>1 DEF Submission
    <2>2. second \in Nat /\ second' = second + 1 /\ judge' = judge
      BY <1>2 DEF CountTypes, SecondPasses
    <2> QED BY <2>1, <2>2 DEF InOrderOfTime
  <1>3. CASE UNCHANGED <<judge, second>> BY <1>3 DEF InOrderOfTime
  <1> QED BY <1>1, <1>2, <1>3
      DEF CountNext, StartPaging, FetchPage, FetchFails, FetchAll

\* The pages so far.
LEMMA CountNextPages ==
    ASSUME CountInv, CountNext
    PROVE  PagesFollow'
  <1> USE DEF CountInv
  <1>1. ASSUME NEW attempt \in Attempts, Submit(attempt) PROVE PagesFollow'
    <2> DEFINE N == Len(judge)
    <2>1. /\ N \in Nat /\ DOMAIN judge = 1 .. N /\ DOMAIN judge' = 1 .. N + 1
          /\ \A i \in 1 .. N : judge'[i] = judge[i] /\ judge[i].at \in Nat
          /\ judge'[N + 1].at = second
          /\ \A i \in Range(got) : i \in 1 .. N
      BY <1>1, SubmitAppends
    <2>2. /\ second \in Nat /\ from \in Int
          /\ UNCHANGED <<second, counting, from, cursor, pageCount, got, listed, charts>>
      BY <1>1 DEF CountTypes, Submit
    <2>3. \A i \in 1 .. N : judge[i].at <= second BY <2>1 DEF InOrderOfTime
    <2> HIDE DEF N
    <2> SUFFICES ASSUME counting = "paging" PROVE PagesFollow'
      BY <2>2 DEF PagesFollow
    <2>4. got # <<>> => Last(got) \in Range(got)
      <3>1. got \in Seq(DOMAIN judge) BY DEF CountTypes
      <3> QED BY <3>1 DEF Last, Range
    <2>5. /\ Ascending /\ from <= second
          /\ IF got = <<>> THEN cursor = from ELSE cursor = judge[Last(got)].at + 1
          /\ \A i \in 1 .. N :
                 (from <= judge[i].at /\ judge[i].at < cursor /\ i \notin Range(got)) =>
                     \E j \in Range(got) : j < i /\ judge[j].at = judge[i].at
      BY <2>1 DEF PagesFollow
    <2>6. Ascending' BY <2>2, <2>5 DEF Ascending
    <2>7. IF got = <<>> THEN cursor = from ELSE cursor = judge'[Last(got)].at + 1
      BY <2>1, <2>4, <2>5
    <2>8. ASSUME NEW i \in 1 .. N + 1, from <= judge'[i].at, judge'[i].at < cursor,
                 i \notin Range(got)
          PROVE  \E j \in Range(got) : j < i /\ judge'[j].at = judge'[i].at
      <3>1. CASE i \in 1 .. N
        <4>1. PICK j \in Range(got) : j < i /\ judge[j].at = judge[i].at
          BY <2>1, <2>5, <2>8, <3>1
        <4> QED BY <2>1, <3>1, <4>1
      <3>2. CASE i = N + 1
        <4>1. got # <<>> /\ cursor = judge[Last(got)].at + 1
          BY <2>1, <2>2, <2>5, <2>8, <3>2
        <4>2. Last(got) \in Range(got) /\ Last(got) \in 1 .. N BY <2>1, <2>4, <4>1
        <4>3. judge[Last(got)].at = second BY <2>1, <2>2, <2>3, <2>8, <3>2, <4>1, <4>2
        <4> QED BY <2>1, <3>2, <4>2, <4>3
      <3> QED BY <2>1, <3>1, <3>2
    <2> QED BY <2>1, <2>2, <2>5, <2>6, <2>7, <2>8 DEF PagesFollow
  <1>2. CASE SecondPasses
    <2>1. second \in Nat /\ second' = second + 1 /\ from \in Int
      BY <1>2 DEF CountTypes, SecondPasses
    <2> QED BY <1>2, <2>1 DEF SecondPasses, PagesFollow, Ascending
  <1>3. CASE StartPaging
    <2>1. second \in Nat /\ Year \in Nat BY YearIsLong DEF CountTypes
    <2>2. \A i \in DOMAIN judge : judge[i].at \in Nat
      <3> TAKE i \in DOMAIN judge
      <3>1. judge[i] \in Submission BY Element DEF CountTypes
      <3> QED BY <3>1 DEF Submission
    <2> QED BY <1>3, <2>1, <2>2 DEF StartPaging, PagesFollow, Ascending
  <1>4. CASE FetchPage
    <2>1. UNCHANGED <<judge, second, from>> /\ from <= second
      BY <1>4 DEF FetchPage, PagesFollow
    <2> QED BY <1>4, <2>1, FetchFollows DEF PagesFollow
  <1>5. CASE FetchFails BY <1>5 DEF FetchFails, PagesFollow
  <1>6. CASE FetchAll BY <1>6 DEF FetchAll, PagesFollow
  <1> QED BY <1>1, <1>2, <1>3, <1>4, <1>5, <1>6 DEF CountNext

\* What is said of the submissions counted stays true when there are more.
LEMMA CountNextTies ==
    ASSUME CountInv, CountNext
    PROVE  OnlyTiesAreSkipped'
  <1> USE DEF CountInv
  <1>0. Len(judge) \in Nat /\ DOMAIN judge = 1 .. Len(judge) BY DEF CountTypes
  <1>1. ASSUME NEW attempt \in Attempts, Submit(attempt) PROVE OnlyTiesAreSkipped'
    <2> DEFINE N == Len(judge)
    <2>1. /\ \A i \in 1 .. N : judge'[i] = judge[i]
          /\ \A i \in Range(got) : i \in 1 .. N
      BY <1>1, SubmitAppends
    <2>2. listed \in 0 .. N BY DEF CountTypes
    <2>3. UNCHANGED <<counting, from, pageCount, got, listed>> BY <1>1 DEF Submit
    <2> HIDE DEF N
    <2>4. \A i \in 1 .. listed : judge'[i] = judge[i] BY <1>0, <2>1, <2>2 DEF N
    <2> QED BY <2>1, <2>3, <2>4 DEF OnlyTiesAreSkipped
  <1>2. CASE SecondPasses BY <1>2 DEF SecondPasses, OnlyTiesAreSkipped
  <1>3. CASE StartPaging BY <1>3 DEF StartPaging, OnlyTiesAreSkipped
  <1>4. CASE FetchPage
    <2> SUFFICES ASSUME counting' = "counted" PROVE OnlyTiesAreSkipped'
      BY DEF OnlyTiesAreSkipped
    <2>1. /\ listed' = Len(judge) /\ UNCHANGED <<judge, from>>
          /\ Len(Page) < PageSize \/ pageCount' = MaxPages
      BY <1>4 DEF FetchPage
    <2>2. PageSize \in Nat /\ ~(PageSize < PageSize) BY CountsAssumption
    <2>3. \A i \in 1 .. Len(judge) : judge[i].at \in Nat
      <3> TAKE i \in 1 .. Len(judge)
      <3>1. judge[i] \in Submission BY Element DEF CountTypes
      <3> QED BY <3>1 DEF Submission
    <2>4. /\ cursor' \in Int /\ Ascending'
          /\ \A i \in 1 .. Len(judge) :
                 (from <= judge[i].at /\ judge[i].at < cursor' /\ i \notin Range(got')) =>
                     \E j \in Range(got') : j < i /\ judge[j].at = judge[i].at
          /\ \A i \in 1 .. Len(judge) :
                 (cursor' <= judge[i].at /\ i \notin Range(got')) =>
                     Len(Page) = PageSize /\ \A j \in Range(got') : j < i
      BY <1>0, <1>4, FetchFollows
    <2>5. from \in Int BY DEF CountTypes
    <2>6. ASSUME NEW i \in 1 .. Len(judge), judge[i].at >= from, i \notin Range(got')
          PROVE  \/ \E j \in Range(got') : j < i /\ judge[j].at = judge[i].at
                 \/ pageCount' = MaxPages /\ \A j \in Range(got') : j < i
      <3>1. CASE judge[i].at < cursor' BY <2>3, <2>4, <2>5, <2>6, <3>1
      <3>2. CASE cursor' <= judge[i].at BY <2>1, <2>2, <2>4, <2>6, <3>2
      <3> QED BY <2>3, <2>4, <3>1, <3>2
    <2> QED BY <2>1, <2>4, <2>6 DEF OnlyTiesAreSkipped, Ascending
  <1>5. CASE FetchFails BY <1>5 DEF FetchFails, OnlyTiesAreSkipped
  <1>6. CASE FetchAll BY <1>6 DEF FetchAll, OnlyTiesAreSkipped
  <1> QED BY <1>1, <1>2, <1>3, <1>4, <1>5, <1>6 DEF CountNext

\* The property, as the steps below arrive at it.
LEMMA RightCharts ==
    ASSUME \A w \in DOMAIN Windows, b \in DOMAIN Bands : charts'[w][b] =
               Cardinality(SolvedSince(judge', got', from' + Year - Windows[w], b))
    PROVE  ChartsCountProblems'
  BY DEF ChartsCountProblems

\* The charts: made from what was fetched, they do not change with what comes later.
LEMMA CountNextCharts ==
    ASSUME CountInv, CountNext
    PROVE  ChartsCountProblems'
  <1> USE DEF CountInv
  <1>0. Len(judge) \in Nat /\ DOMAIN judge = 1 .. Len(judge) /\ judge \in Seq(Submission)
    BY DEF CountTypes
  <1>1. ASSUME NEW attempt \in Attempts, Submit(attempt) PROVE ChartsCountProblems'
    <2>1. \A i \in Range(got) : judge'[i] = judge[i]
      BY <1>1, SubmitAppends
    <2>2. UNCHANGED <<counting, from, got, charts>> BY <1>1 DEF Submit
    <2> QED BY <2>1, <2>2 DEF ChartsCountProblems, SolvedSince
  <1>7. Year \in Nat /\ \A w \in DOMAIN Windows : Windows[w] \in Nat
    BY CountsAssumption, YearIsLong
  <1>2. CASE SecondPasses BY <1>2 DEF SecondPasses, ChartsCountProblems
  <1>3. CASE StartPaging BY <1>3 DEF StartPaging, ChartsCountProblems
  <1>4. CASE FetchPage
    <2> SUFFICES ASSUME counting' = "counted" PROVE ChartsCountProblems'
      BY DEF ChartsCountProblems
    <2> DEFINE places == got'
               clock == from + Year
    <2>1. charts' = Charts(places, clock) /\ UNCHANGED <<judge, from>>
      BY <1>4 DEF FetchPage
    <2>2. places \in Seq(DOMAIN judge) BY <1>4, FetchFollows
    <2>3. clock \in Int BY YearIsLong DEF CountTypes
    <2> HIDE DEF places, clock
    <2>4. \A w \in DOMAIN Windows, b \in DOMAIN Bands :
              charts'[w][b] = Cardinality(SolvedSince(judge, places, clock - Windows[w], b))
      BY <1>0, <2>1, <2>2, <2>3, ChartsCount
    <2>5. judge' = judge /\ from' + Year = clock /\ got' = places
      BY <2>1 DEF places, clock
    <2>6. \A w \in DOMAIN Windows, b \in DOMAIN Bands : charts'[w][b] =
              Cardinality(SolvedSince(judge', got', from' + Year - Windows[w], b))
      <3> TAKE w \in DOMAIN Windows, b \in DOMAIN Bands
      <3>1. from' + Year - Windows[w] = clock - Windows[w]
        BY <1>7, <2>1, <2>5 DEF CountTypes
      <3> QED BY <2>4, <2>5, <3>1
    <2> QED BY <2>6, RightCharts
  <1>5. CASE FetchFails BY <1>5 DEF FetchFails, ChartsCountProblems
  <1>6. CASE FetchAll
    <2> DEFINE places == got'
    <2>1. /\ charts' = Charts(places, second) /\ UNCHANGED judge
          /\ from' = second - Year
      BY <1>6 DEF FetchAll
    <2>2. places \in Seq(DOMAIN judge) BY CountNextTypes, <2>1 DEF CountTypes
    <2>3. second \in Int /\ from' + Year = second BY <2>1, YearIsLong DEF CountTypes
    <2> HIDE DEF places
    <2>4. \A w \in DOMAIN Windows, b \in DOMAIN Bands :
              charts'[w][b] = Cardinality(SolvedSince(judge, places, second - Windows[w], b))
      BY <1>0, <2>1, <2>2, <2>3, ChartsCount
    <2>5. judge' = judge /\ got' = places BY <2>1 DEF places
    <2>6. \A w \in DOMAIN Windows, b \in DOMAIN Bands : charts'[w][b] =
              Cardinality(SolvedSince(judge', got', from' + Year - Windows[w], b))
      <3> TAKE w \in DOMAIN Windows, b \in DOMAIN Bands
      <3>1. from' + Year - Windows[w] = second - Windows[w]
        BY <1>7, <2>1, <2>3 DEF CountTypes
      <3> QED BY <2>4, <2>5, <3>1
    <2> QED BY <2>6, RightCharts
  <1> QED BY <1>1, <1>2, <1>3, <1>4, <1>5, <1>6 DEF CountNext

\* The invariant of the charts.
THEOREM CountInvCorrect == CountSpec => []CountInv
  <1>1. CountInit => CountInv BY CountInitInv
  <1>2. CountInv /\ [CountNext]_countVars => CountInv'
    <2> SUFFICES ASSUME CountInv, [CountNext]_countVars PROVE CountInv' OBVIOUS
    <2>1. CASE CountNext
      BY <2>1, CountNextTypes, CountNextTime, CountNextPages, CountNextTies, CountNextCharts
      DEF CountInv
    <2>2. CASE UNCHANGED countVars
      BY <2>2 DEF countVars, CountInv, CountTypes, InOrderOfTime, PagesFollow, Ascending,
                  OnlyTiesAreSkipped, ChartsCountProblems
    <2> QED BY <2>1, <2>2
  <1> QED BY <1>1, <1>2, PTL DEF CountSpec

\* However many submissions there are, whenever they come, and whatever the pages hold:
\* only ties of the second a full page ended in are passed over, and what lies after the
\* last page asked for (atcoder.rs:283-325).
THEOREM TiesAloneAreSkipped == CountSpec => []OnlyTiesAreSkipped
  <1>1. CountInv => OnlyTiesAreSkipped BY DEF CountInv
  <1> QED BY <1>1, CountInvCorrect, PTL

\* Whatever is listed, in whichever order: the charts count each solved problem of a
\* band once in each window (platform_sync.rs:139-166, codeforces.rs:109-153).
THEOREM ChartsAreRight == CountSpec => []ChartsCountProblems
  <1>1. CountInv => ChartsCountProblems BY DEF CountInv
  <1> QED BY <1>1, CountInvCorrect, PTL

-----------------------------------------------------------------------------
(* The attendance table.                                                   *)

-----------------------------------------------------------------------------
(* The table.                                                              *)

\* Its rows are contests, finitely many.
LEMMA RowsAreContests ==
    ASSUME NEW view
    PROVE  Rows(view) \subseteq Contests /\ IsFiniteSet(Rows(view))
  <1>1. Rows(view) \subseteq Contests
    BY DEF Rows, Since, Listed
  <1> QED BY <1>1, AttendanceAssumption, FS_Subset

\* Of any view: who turned up is eligible, so the rounds entered and those closed to the
\* member have none in common.
LEMMA RowsAddUp ==
    ASSUME NEW view
    PROVE  Missed(view) = Cardinality({c \in Rows(view) :
               Eligible(view, c) /\ c \notin Entered(view)})
  <1> DEFINE R == Rows(view)
             P == R \cap Entered(view)
             I == {c \in R : ~Eligible(view, c)}
             M == {c \in R : Eligible(view, c) /\ c \notin Entered(view)}
  <1>1. IsFiniteSet(R) BY RowsAreContests
  <1>2. P \subseteq R /\ I \subseteq R \ P /\ M = (R \ P) \ I
    BY DEF Eligible
  <1>3. Missed(view) = Cardinality(R) - Cardinality(P) - Cardinality(I)
    BY DEF Missed, Participated, Ineligible
  <1> HIDE DEF R, P, I, M
  <1>4. IsFiniteSet(P) /\ IsFiniteSet(R \ P) /\ IsFiniteSet(I)
    BY <1>1, <1>2, FS_Subset, FS_Difference
  <1>5. R \cap P = P /\ (R \ P) \cap I = I BY <1>2
  <1>6. Cardinality(R \ P) = Cardinality(R) - Cardinality(P) BY <1>1, <1>5, FS_Difference
  <1>7. Cardinality((R \ P) \ I) = Cardinality(R \ P) - Cardinality(I)
    BY <1>4, <1>5, FS_Difference
  <1>8. Missed(view) = Cardinality(M) BY <1>2, <1>3, <1>6, <1>7
  <1> QED BY <1>8 DEF M, R

\* The first of the results of a view is no later than any of them.
LEMMA FirstIsFirst ==
    ASSUME AttendanceTypes, NEW view, view.results \in 1 .. Len(results),
           NEW i \in 1 .. view.results
    PROVE  FirstAt(view) \in Nat /\ FirstAt(view) <= results[i].at
  <1> DEFINE T == {results[j].at : j \in 1 .. view.results}
             R == [contest : Contests, at : Nat, rating : Ratings]
  <1>1. results \in Seq(R) BY DEF AttendanceTypes
  <1>2. ASSUME NEW j \in 1 .. view.results PROVE results[j].at \in Nat
    <2>1. j \in 1 .. Len(results) BY <1>1
    <2>2. results[j] \in R
      <3> HIDE DEF R
      <3> QED BY <1>1, <2>1, Element
    <2> QED BY <2>2
  <1>3. T \in SUBSET Nat /\ results[i].at \in T BY <1>2
  <1>4. FirstAt(view) = Min(T) BY DEF FirstAt
  <1> HIDE DEF T
  <1>5. Min(T) \in T /\ \A k \in T : Min(T) <= k BY <1>3, MinIsLeast
  <1> QED BY <1>3, <1>4, <1>5

-----------------------------------------------------------------------------
(* The invariant.                                                          *)

\* Nothing is out at first.
LEMMA AttendanceInitInv == AttendanceInit => AttendanceInv
  <1> SUFFICES ASSUME AttendanceInit PROVE AttendanceInv OBVIOUS
  <1>1. results \in Seq([contest : Contests, at : Nat, rating : Ratings]) /\ Len(results) = 0
    BY DEF AttendanceInit
  <1>2. NoView \in View BY DEF NoView, View
  <1>3. AttendanceTypes BY <1>1, <1>2 DEF AttendanceInit, AttendanceTypes, InView, NoView
  <1>4. CallsAreInTime BY DEF AttendanceInit, CallsAreInTime, InView, NoView
  <1>5. ResultsAreOut BY <1>1 DEF AttendanceInit, ResultsAreOut, NoView
  <1> QED BY <1>3, <1>4, <1>5 DEF AttendanceInv

\* What the steps do to a view.
LEMMA ViewTypes ==
    ASSUME AttendanceInv, AttendanceNext
    PROVE  views' \in [Views -> View]
  <1> USE AttendanceAssumption DEF AttendanceInv, AttendanceTypes
  <1>0. NoView \in View BY DEF NoView, View
  <1>r. Len(results) \in Nat OBVIOUS
  <1>l. Cached \in Nat \cup {None} BY DEF Cached, Fresh
  <1>1. ASSUME NEW v \in Views, AskCodeforces(v) PROVE views' \in [Views -> View]
    <2>1. [NoView EXCEPT !.step = "waiting", !.list = Cached, !.since = now,
                         !.known = Len(results)] \in View
      BY <1>0, <1>r, <1>l DEF View
    <2> QED BY <1>1, <2>1 DEF AskCodeforces
  <1>2. ASSUME NEW v \in Views, ResultsArrive(v) PROVE views' \in [Views -> View]
    <2>1. [views[v] EXCEPT !.results = Len(results)] \in View BY <1>r DEF View
    <2>2. [views[v] EXCEPT !.results = 0, !.refused = TRUE] \in View BY DEF View
    <2> QED BY <1>2, <2>1, <2>2 DEF ResultsArrive
  <1>3. ASSUME NEW v \in Views, ReadProfile(v) PROVE views' \in [Views -> View]
    <2>1. stored \in Nat BY <1>r, <1>3 DEF ReadProfile
    <2>2. [NoView EXCEPT !.step = "reading", !.rating = stored] \in View
      BY <1>0, <2>1 DEF View
    <2> QED BY <1>3, <2>2 DEF ReadProfile
  <1>4. ASSUME NEW v \in Views, ReadHistory(v) PROVE views' \in [Views -> View]
    <2>0. stored \in Nat BY <1>r, <1>4 DEF ReadHistory
    <2>1. [views[v] EXCEPT !.step = "waiting", !.results = stored, !.known = stored,
                           !.list = Cached, !.since = now] \in View
      BY <1>l, <2>0 DEF View
    <2> QED BY <1>4, <2>1 DEF ReadHistory
  <1>5. ASSUME NEW v \in Views, ListArrives(v) PROVE views' \in [Views -> View]
    <2>1. PICK made \in views[v].since .. now : views' = [views EXCEPT ![v].list = made]
      BY <1>5 DEF ListArrives
    <2>0. views[v] \in View OBVIOUS
    <2>2. made \in Nat /\ made \in Nat \cup {None} BY <2>0 DEF View
    <2>3. [views[v] EXCEPT !.list = made] \in View BY <2>0, <2>2 DEF View
    <2> QED BY <2>1, <2>3
  <1>6. ASSUME NEW v \in Views, Leave(v) PROVE views' \in [Views -> View]
    BY <1>0, <1>6 DEF Leave
  <1>7. SyncFetches \/ SyncStores \/ SyncFails => views' \in [Views -> View]
    BY DEF SyncFetches, SyncStores, SyncFails
  <1>8. ASSUME NEW c \in Contests, NEW r \in Ratings, Publish(c, r)
        PROVE  views' \in [Views -> View]
    BY <1>8 DEF Publish
  <1>9. ClockTicks => views' \in [Views -> View] BY DEF ClockTicks
  <1>10. ServerRestarts => views' \in [Views -> View] BY <1>0 DEF ServerRestarts
  <1> QED BY <1>1, <1>2, <1>3, <1>4, <1>5, <1>6, <1>7, <1>8, <1>9, <1>10 DEF AttendanceNext

\* The other variables.
LEMMA AttendanceNextTypes ==
    ASSUME AttendanceInv, AttendanceNext
    PROVE  AttendanceTypes' /\ Len(results) <= Len(results') /\ Len(results) \in Nat
  <1> USE AttendanceAssumption DEF AttendanceInv
  <1> DEFINE R == [contest : Contests, at : Nat, rating : Ratings]
             Typed(n) == n = None \/ n \in 0 .. Len(results)
             Growth == /\ results' \in Seq(R) /\ Len(results) <= Len(results')
                       /\ platform' = platform /\ now' \in Nat
                       /\ list' = None \/ list' \in [made : Nat, at : Nat]
                       /\ stored' = stored \/ (stored' = sync /\ sync # None)
                       /\ sync' \in {sync, None, Len(results)}
                       /\ \A v \in Views : InView(v, "reading")' =>
                              InView(v, "reading") \/ stored # None
  <1>0. /\ results \in Seq(R) /\ Len(results) \in Nat /\ now \in Nat
        /\ list = None \/ list \in [made : Nat, at : Nat]
        /\ Typed(stored) /\ Typed(sync) /\ views \in [Views -> View]
        /\ platform \in {"codeforces", "atcoder"}
        /\ \A v \in Views : InView(v, "reading") => stored # None
    BY DEF AttendanceTypes
  <1> HIDE DEF R
  <1>1. ASSUME NEW v \in Views, AskCodeforces(v) PROVE Growth
    BY <1>0, <1>1 DEF AskCodeforces, Touched, Found, InView
  <1>2. ASSUME NEW v \in Views, ResultsArrive(v) PROVE Growth
    <2>1. ASSUME NEW w \in Views PROVE views'[w].step = views[w].step
      <3>1. CASE w = v BY <1>0, <1>2, <3>1 DEF ResultsArrive, View
      <3>2. CASE w # v BY <1>0, <1>2, <3>2 DEF ResultsArrive
      <3> QED BY <3>1, <3>2
    <2>2. UNCHANGED <<platform, now, results, list, stored, sync>> BY <1>2 DEF ResultsArrive
    <2> QED BY <1>0, <2>1, <2>2 DEF InView
  <1>3. ASSUME NEW v \in Views, ReadProfile(v) PROVE Growth
    BY <1>0, <1>3 DEF ReadProfile, InView
  <1>4. ASSUME NEW v \in Views, ReadHistory(v) PROVE Growth
    <2>1. list' = list BY <1>4 DEF ReadHistory, Touched, Found
    <2>2. \A w \in Views : w # v => views'[w] = views[w] BY <1>0, <1>4 DEF ReadHistory
    <2>3. InView(v, "reading") BY <1>4 DEF ReadHistory
    <2>4. UNCHANGED <<platform, now, results, stored, sync>> BY <1>4 DEF ReadHistory
    <2>5. \A w \in Views : InView(w, "reading")' => InView(w, "reading") \/ stored # None
      BY <2>2, <2>3 DEF InView
    <2> QED BY <1>0, <2>1, <2>4, <2>5
  <1>5. ASSUME NEW v \in Views, ListArrives(v) PROVE Growth
    <2>1. PICK made \in views[v].since .. now :
              /\ list' = [made |-> made, at |-> now]
              /\ views' = [views EXCEPT ![v].list = made]
      BY <1>5 DEF ListArrives
    <2>2. views[v].since \in Nat BY <1>0 DEF View
    <2>3. list' \in [made : Nat, at : Nat] BY <1>0, <2>1, <2>2
    <2> QED BY <1>0, <1>5, <2>1, <2>3 DEF ListArrives, InView
  <1>6. ASSUME NEW v \in Views, Leave(v) PROVE Growth
    BY <1>0, <1>6 DEF Leave, InView, NoView
  <1>7. SyncFetches \/ SyncStores \/ SyncFails => Growth
    BY <1>0 DEF SyncFetches, SyncStores, SyncFails, InView
  <1>8. ASSUME NEW c \in Contests, NEW r \in Ratings, Publish(c, r) PROVE Growth
    <2>1. PICK at \in Nat : results' = Append(results, [contest |-> c, at |-> at, rating |-> r])
      <3>1. c .. now \subseteq Nat /\ {now} \subseteq Nat BY <1>0
      <3> QED BY <1>8, <3>1 DEF Publish
    <2>2. [contest |-> c, at |-> at, rating |-> r] \in R BY DEF R
    <2>3. results' \in Seq(R) /\ Len(results') = Len(results) + 1 BY <1>0, <2>1, <2>2
    <2> QED BY <1>0, <1>8, <2>3 DEF Publish, InView
  <1>9. ClockTicks => Growth BY <1>0 DEF ClockTicks, InView
  <1>10. ServerRestarts => Growth BY <1>0 DEF ServerRestarts, InView, NoView
  <1>11. Growth
    BY <1>1, <1>2, <1>3, <1>4, <1>5, <1>6, <1>7, <1>8, <1>9, <1>10 DEF AttendanceNext
  <1>12. Len(results') \in Nat BY <1>11
  <1>13. \A n \in {stored', sync'} : n = None \/ n \in 0 .. Len(results')
    BY <1>0, <1>11, <1>12
  <1>14. views' \in [Views -> View] BY ViewTypes
  <1>15. \A v \in Views : InView(v, "reading")' => stored' # None BY <1>0, <1>11
  <1> QED BY <1>0, <1>11, <1>13, <1>14, <1>15 DEF AttendanceTypes, R

\* In time, for one view.
InTime(v) ==
    InView(v, "waiting") =>
        /\ views[v].since <= now /\ now <= views[v].since + Patience
        /\ views[v].list = None \/ views[v].since < views[v].list + ListLife + Patience

\* A list that is found in time, and the time of one call more.
LEMMA ListInTime ==
    ASSUME AttendanceInv
    PROVE  /\ list = None \/ list \in [made : Nat, at : Nat]
           /\ Cached = None \/ (Cached \in Nat /\ now < Cached + ListLife + Patience)
  <1> USE AttendanceAssumption DEF AttendanceInv
  <1>1. now \in Nat /\ (list = None \/ list \in [made : Nat, at : Nat]) BY DEF AttendanceTypes
  <1>2. CASE Cached = list.made /\ Fresh
    <2>1. list \in [made : Nat, at : Nat] /\ now - list.at < ListLife
      BY <1>1, <1>2 DEF Fresh
    <2>2. list.made \in Nat /\ list.at \in Nat /\ list.at <= list.made + Patience
      BY <1>2, <2>1 DEF CallsAreInTime, Fresh
    <2> QED BY <1>1, <1>2, <2>1, <2>2
  <1> QED BY <1>1, <1>2 DEF Cached

\* The ages of the list and of the calls.
LEMMA AttendanceNextTimes ==
    ASSUME AttendanceInv, AttendanceNext
    PROVE  CallsAreInTime'
  <1> USE AttendanceAssumption DEF AttendanceInv
  <1> DEFINE ListOk == list' = None \/ (list'.at <= now' /\ list'.at <= list'.made + Patience)
  <1>0. /\ now \in Nat /\ views \in [Views -> View]
        /\ list = None \/ list \in [made : Nat, at : Nat]
        /\ list = None \/ (list.at <= now /\ list.at <= list.made + Patience)
        /\ \A v \in Views : InTime(v) /\ views[v].since \in Nat
        /\ \A v \in Views : views[v].list = None \/ views[v].list \in Nat
    BY DEF AttendanceTypes, CallsAreInTime, InTime, View
  \* A step of one view leaves the others as they are.
  <1>a. ASSUME NEW v \in Views, now' = now, ListOk, InTime(v)',
               \A w \in Views : w # v => views'[w] = views[w]
        PROVE  CallsAreInTime'
    <2>1. ASSUME NEW w \in Views PROVE InTime(w)'
      <3>1. CASE w = v BY <1>a, <3>1
      <3>2. CASE w # v BY <1>0, <1>a, <3>2 DEF InTime, InView
      <3> QED BY <3>1, <3>2
    <2> QED BY <1>a, <2>1 DEF CallsAreInTime, InTime
  <1>b. ASSUME UNCHANGED <<now, views>>, ListOk PROVE CallsAreInTime'
    BY <1>0, <1>b DEF CallsAreInTime, InTime, InView
  <1>1. ASSUME NEW v \in Views, AskCodeforces(v) PROVE CallsAreInTime'
    <2>1. ListOk /\ now' = now BY <1>0, <1>1 DEF AskCodeforces, Touched, Found
    <2>2. views'[v].since = now /\ views'[v].list = Cached
      BY <1>0, <1>1 DEF AskCodeforces, NoView
    <2>3. InTime(v)' BY <1>0, <2>1, <2>2, ListInTime DEF InTime
    <2>4. \A w \in Views : w # v => views'[w] = views[w] BY <1>0, <1>1 DEF AskCodeforces
    <2> QED BY <1>a, <2>1, <2>3, <2>4
  <1>2. ASSUME NEW v \in Views, ResultsArrive(v) PROVE CallsAreInTime'
    <2>1. ListOk /\ now' = now BY <1>0, <1>2 DEF ResultsArrive
    <2>2. views'[v].since = views[v].since /\ views'[v].list = views[v].list
      BY <1>0, <1>2 DEF ResultsArrive, View
    <2>3. InTime(v)' BY <1>0, <1>2, <2>1, <2>2 DEF InTime, ResultsArrive
    <2>4. \A w \in Views : w # v => views'[w] = views[w] BY <1>0, <1>2 DEF ResultsArrive
    <2> QED BY <1>a, <2>1, <2>3, <2>4
  <1>3. ASSUME NEW v \in Views, ReadProfile(v) PROVE CallsAreInTime'
    <2>1. ListOk /\ now' = now BY <1>0, <1>3 DEF ReadProfile
    <2>2. views'[v].step = "reading" BY <1>0, <1>3 DEF ReadProfile, NoView
    <2>3. InTime(v)' BY <2>2 DEF InTime, InView
    <2>4. \A w \in Views : w # v => views'[w] = views[w] BY <1>0, <1>3 DEF ReadProfile
    <2> QED BY <1>a, <2>1, <2>3, <2>4
  <1>4. ASSUME NEW v \in Views, ReadHistory(v) PROVE CallsAreInTime'
    <2>1. ListOk /\ now' = now BY <1>0, <1>4 DEF ReadHistory, Touched, Found
    <2>2. views'[v].since = now /\ views'[v].list = Cached
      BY <1>0, <1>4 DEF ReadHistory, View
    <2>3. InTime(v)' BY <1>0, <2>1, <2>2, ListInTime DEF InTime
    <2>4. \A w \in Views : w # v => views'[w] = views[w] BY <1>0, <1>4 DEF ReadHistory
    <2> QED BY <1>a, <2>1, <2>3, <2>4
  <1>5. ASSUME NEW v \in Views, ListArrives(v) PROVE CallsAreInTime'
    <2>1. PICK made \in views[v].since .. now :
              /\ list' = [made |-> made, at |-> now]
              /\ views' = [views EXCEPT ![v].list = made]
      BY <1>5 DEF ListArrives
    <2>2. /\ now' = now /\ views[v].since \in Nat /\ made \in Nat
          /\ views[v].since <= now /\ now <= views[v].since + Patience
      BY <1>0, <1>5, <2>1 DEF ListArrives, InTime
    <2>3. ListOk BY <1>0, <2>1, <2>2
    <2>4. views'[v].since = views[v].since /\ views'[v].list = made
      BY <1>0, <2>1 DEF View
    <2>5. InTime(v)' BY <1>0, <2>1, <2>2, <2>4 DEF InTime
    <2>6. \A w \in Views : w # v => views'[w] = views[w] BY <1>0, <2>1
    <2> QED BY <1>a, <2>2, <2>3, <2>5, <2>6
  <1>6. ASSUME NEW v \in Views, Leave(v) PROVE CallsAreInTime'
    <2>1. ListOk /\ now' = now BY <1>0, <1>6 DEF Leave
    <2>2. InTime(v)' BY <1>0, <1>6 DEF Leave, NoView, InTime, InView
    <2>3. \A w \in Views : w # v => views'[w] = views[w] BY <1>0, <1>6 DEF Leave
    <2> QED BY <1>a, <2>1, <2>2, <2>3
  <1>7. SyncFetches \/ SyncStores \/ SyncFails => CallsAreInTime'
    BY <1>0, <1>b DEF SyncFetches, SyncStores, SyncFails
  <1>8. ASSUME NEW c \in Contests, NEW r \in Ratings, Publish(c, r) PROVE CallsAreInTime'
    BY <1>0, <1>8, <1>b DEF Publish
  <1>9. ASSUME ClockTicks PROVE CallsAreInTime'
    <2>1. now' = now + 1 /\ list' = list /\ views' = views BY <1>9 DEF ClockTicks
    <2>2. ListOk
      <3>1. CASE list = None BY <2>1, <3>1
      <3>2. CASE list \in [made : Nat, at : Nat] /\ list # None BY <1>0, <2>1, <3>2
      <3> QED BY <1>0, <3>1, <3>2
    <2>3. ASSUME NEW v \in Views PROVE InTime(v)'
      <3>1. InView(v, "waiting") => now < views[v].since + Patience
        BY <1>9 DEF ClockTicks
      <3> QED BY <1>0, <2>1, <3>1 DEF InTime, InView
    <2> QED BY <2>2, <2>3 DEF CallsAreInTime, InTime
  <1>10. ASSUME ServerRestarts PROVE CallsAreInTime'
    BY <1>10 DEF ServerRestarts, CallsAreInTime, InView, NoView
  <1> QED BY <1>1, <1>2, <1>3, <1>4, <1>5, <1>6, <1>7, <1>8, <1>9, <1>10 DEF AttendanceNext

\* The results of a view.
LEMMA AttendanceNextResults ==
    ASSUME AttendanceInv, AttendanceNext
    PROVE  ResultsAreOut'
  <1> USE AttendanceAssumption DEF AttendanceInv
  <1> DEFINE Out(view) ==
                 /\ view.known <= Len(results)
                 /\ \/ view.results = None
                    \/ /\ view.results <= Len(results)
                       /\ view.refused = TRUE \/ view.known <= view.results
  <1>0. /\ views \in [Views -> View] /\ views' \in [Views -> View]
        /\ Len(results) \in Nat /\ Len(results') \in Nat /\ Len(results) <= Len(results')
        /\ stored = None \/ stored \in 0 .. Len(results)
    BY AttendanceNextTypes DEF AttendanceTypes
  <1>1. \A v \in Views : Out(views[v]) BY DEF ResultsAreOut
  \* It is enough that what a view sees is out before the step.
  <1>2. ASSUME \A v \in Views : Out(views'[v]) PROVE ResultsAreOut'
    <2>1. \A v \in Views : views'[v].known \in Nat /\ views'[v].results \in Nat \cup {None}
      BY <1>0 DEF View
    <2> QED BY <1>0, <1>2, <2>1 DEF ResultsAreOut
  <1>3. Out(NoView) BY <1>0 DEF NoView
  <1> HIDE DEF Out
  <1>4. ASSUME NEW v \in Views, Out(views'[v]),
               \A w \in Views : w # v => views'[w] = views[w]
        PROVE  ResultsAreOut'
    BY <1>1, <1>2, <1>4
  <1>5. ASSUME NEW v \in Views, AskCodeforces(v) PROVE ResultsAreOut'
    <2>1. views'[v].known = Len(results) /\ views'[v].results = None
      BY <1>0, <1>5 DEF AskCodeforces, NoView
    <2>2. Out(views'[v]) BY <1>0, <2>1 DEF Out
    <2> QED BY <1>0, <1>4, <1>5, <2>2 DEF AskCodeforces
  <1>6. ASSUME NEW v \in Views, ResultsArrive(v) PROVE ResultsAreOut'
    <2>1. CASE views' = [views EXCEPT ![v].results = Len(results)]
      <3>1. views'[v].known = views[v].known /\ views'[v].results = Len(results)
        BY <1>0, <2>1 DEF View
      <3>2. Out(views'[v]) BY <1>0, <1>1, <3>1 DEF Out
      <3> QED BY <1>0, <1>4, <2>1, <3>2
    <2>2. CASE views' = [views EXCEPT ![v].results = 0, ![v].refused = TRUE]
      <3>1. views'[v].known = views[v].known /\ views'[v].results = 0
            /\ views'[v].refused = TRUE
        BY <1>0, <2>2 DEF View
      <3>2. Out(views'[v]) BY <1>0, <1>1, <3>1 DEF Out
      <3> QED BY <1>0, <1>4, <2>2, <3>2
    <2> QED BY <1>6, <2>1, <2>2 DEF ResultsArrive
  <1>7. ASSUME NEW v \in Views, ReadProfile(v) PROVE ResultsAreOut'
    <2>1. views'[v].known = 0 /\ views'[v].results = None
      BY <1>0, <1>7 DEF ReadProfile, NoView
    <2>2. Out(views'[v]) BY <1>0, <2>1 DEF Out
    <2> QED BY <1>0, <1>4, <1>7, <2>2 DEF ReadProfile
  <1>8. ASSUME NEW v \in Views, ReadHistory(v) PROVE ResultsAreOut'
    <2>1. views'[v].known = stored /\ views'[v].results = stored
      BY <1>0, <1>8 DEF ReadHistory, View
    <2>2. stored \in 0 .. Len(results) BY <1>0, <1>8 DEF ReadHistory, AttendanceTypes
    <2>3. Out(views'[v]) BY <1>0, <2>1, <2>2 DEF Out
    <2> QED BY <1>0, <1>4, <1>8, <2>3 DEF ReadHistory
  <1>9. ASSUME NEW v \in Views, ListArrives(v) PROVE ResultsAreOut'
    <2>1. PICK made : views' = [views EXCEPT ![v].list = made] BY <1>9 DEF ListArrives
    <2>2. /\ views'[v].known = views[v].known /\ views'[v].results = views[v].results
          /\ views'[v].refused = views[v].refused
      BY <1>0, <2>1 DEF View
    <2>3. Out(views'[v]) BY <1>1, <2>2 DEF Out
    <2> QED BY <1>0, <1>4, <2>1, <2>3
  <1>10. ASSUME NEW v \in Views, Leave(v) PROVE ResultsAreOut'
    <2>1. views'[v] = NoView BY <1>0, <1>10 DEF Leave
    <2> QED BY <1>0, <1>3, <1>4, <1>10, <2>1 DEF Leave
  <1>11. views' = views => ResultsAreOut' BY <1>1, <1>2
  <1>12. ServerRestarts => ResultsAreOut' BY <1>2, <1>3 DEF ServerRestarts
  <1>13. SyncFetches \/ SyncStores \/ SyncFails \/ ClockTicks => views' = views
    BY DEF SyncFetches, SyncStores, SyncFails, ClockTicks
  <1>14. \A c \in Contests, r \in Ratings : Publish(c, r) => views' = views BY DEF Publish
  <1> QED BY <1>5, <1>6, <1>7, <1>8, <1>9, <1>10, <1>11, <1>12, <1>13, <1>14 DEF AttendanceNext

\* Types, the ages of lists and what is out are inductive (codeforces.rs:171-215,
\* atcoder.rs:126-168, atcoder_handler.rs:81-116).
THEOREM AttendanceInvCorrect == AttendanceSpec => []AttendanceInv
  <1>1. AttendanceInv /\ UNCHANGED attendanceVars => AttendanceInv'
    BY DEF AttendanceInv, AttendanceTypes, CallsAreInTime, ResultsAreOut, InView, attendanceVars
  <1>2. AttendanceInv /\ AttendanceNext => AttendanceInv'
    BY AttendanceNextTypes, AttendanceNextTimes, AttendanceNextResults DEF AttendanceInv
  <1> QED BY AttendanceInitInv, <1>1, <1>2, PTL DEF AttendanceSpec

\* The summary of every table adds up to its rows (codeforces.rs:353-361).
THEOREM SummariesAddUp == AttendanceSpec => []SummaryAddsUp
  <1>1. SummaryAddsUp BY RowsAddUp DEF SummaryAddsUp
  <1> QED BY <1>1, PTL

\* The age of the list behind an answer.
LEMMA AnsweredInTime ==
    ASSUME AttendanceInv
    PROVE  ListIsRecent
  <1> USE AttendanceAssumption DEF AttendanceInv
  <1> SUFFICES ASSUME NEW v \in Views, Answered(v)
               PROVE  now - views[v].list < ListLife + 2 * Patience
    BY DEF ListIsRecent
  <1>1. InView(v, "waiting") /\ views[v].list # None BY DEF Answered
  <1>2. now \in Nat /\ views[v] \in View BY DEF AttendanceTypes
  <1>3. views[v].since \in Nat /\ views[v].list \in Nat BY <1>1, <1>2 DEF View
  <1>4. now <= views[v].since + Patience
        /\ views[v].since < views[v].list + ListLife + Patience
    BY <1>1 DEF CallsAreInTime
  <1> QED BY <1>2, <1>3, <1>4

\* No table is made from a list older than its life and two calls, whatever the order in
\* which views store their lists (codeforces.rs:171-215, atcoder.rs:126-168).
THEOREM ListsAreRecent == AttendanceSpec => []ListIsRecent
  BY AttendanceInvCorrect, AnsweredInTime, PTL

\* Results a view cannot miss, in its table.
LEMMA KnownAreShown ==
    ASSUME AttendanceInv
    PROVE  EntriesAreShown
  <1> USE AttendanceAssumption DEF AttendanceInv
  <1> SUFFICES ASSUME NEW v \in Views, Answered(v), ~views[v].refused,
                      NEW i \in 1 .. views[v].known,
                      results[i].contest \in Listed(views[v].list),
                      ~(results[i].at > results[i].contest + Slack),
                      ~(Cardinality({d \in Contests : d > results[i].contest}) >= MaxRows)
               PROVE  results[i].contest \in Rows(views[v]) \cap Entered(views[v])
    BY DEF EntriesAreShown
  <1> DEFINE view == views[v]
             c == results[i].contest
             R == [contest : Contests, at : Nat, rating : Ratings]
  <1>1. results \in Seq(R) /\ Len(results) \in Nat /\ view \in View BY DEF AttendanceTypes
  <1>2. view.results # None BY DEF Answered
  <1>3. view.known \in Nat /\ view.results \in Nat /\ view.refused = FALSE
    BY <1>1, <1>2 DEF View
  <1>4. view.results <= Len(results) /\ view.known <= view.results
    BY <1>2, <1>3 DEF ResultsAreOut
  <1>5. i \in 1 .. view.results /\ i \in 1 .. Len(results) /\ view.results \in 1 .. Len(results)
    BY <1>1, <1>3, <1>4, SMTT(30)
  <1>6. results[i] \in R
    <2> HIDE DEF R
    <2> QED BY <1>1, <1>5, Element
  <1>7. c \in Entered(view) BY <1>5 DEF Entered
  <1>8. FirstAt(view) \in Nat /\ FirstAt(view) <= results[i].at
    BY <1>5, FirstIsFirst
  <1>9. c \in Nat /\ results[i].at \in Nat BY <1>6
  <1>10. results[i].at <= c + Slack BY <1>9
  <1>11. c \in Since(view) BY <1>8, <1>9, <1>10 DEF Since
  <1> DEFINE later == {d \in Since(view) : d > c}
             above == {d \in Contests : d > c}
  <1>12. later \subseteq above BY DEF Since, Listed
  <1>13. IsFiniteSet(above)
    <2>1. above \subseteq Contests OBVIOUS
    <2> QED BY <2>1, FS_Subset
  <1>14. IsFiniteSet(later) /\ Cardinality(later) <= Cardinality(above)
    <2> HIDE DEF later, above
    <2> QED BY <1>12, <1>13, FS_Subset
  <1>15. Cardinality(later) \in Nat /\ Cardinality(above) \in Nat
    BY <1>13, <1>14, FS_CardinalityType
  <1>16. Cardinality(above) < MaxRows BY <1>15
  <1>17. Cardinality(later) < MaxRows BY <1>14, <1>15, <1>16
  <1> HIDE DEF later
  <1>18. c \in {e \in Since(view) : Cardinality({d \in Since(view) : d > e}) < MaxRows}
    BY <1>11, <1>17 DEF later
  <1>19. view.results # 0 BY <1>5
  <1> QED BY <1>7, <1>18, <1>19 DEF Rows

\* A contest whose result was out when a view asked for it is shown as entered, with the
\* exceptions the property names (codeforces.rs:318-345, atcoder_handler.rs:171-183).
THEOREM EntriesStayShown == AttendanceSpec => []EntriesAreShown
  BY AttendanceInvCorrect, KnownAreShown, PTL

\* A behaviour of the statistics is one of each part: the part that is not followed
\* stays as it was (codeforces.rs:366-426, build_profile_stats).
THEOREM PartsAreFollowed == StatisticsSpec => CountSpec /\ AttendanceSpec
  <1>1. StatisticsInit => CountInit /\ AttendanceInit BY DEF StatisticsInit
  <1>2. [StatisticsNext]_statisticsVars =>
            [CountNext]_countVars /\ [AttendanceNext]_attendanceVars
    BY DEF StatisticsNext, statisticsVars
  <1> QED BY <1>1, <1>2, PTL DEF StatisticsSpec, CountSpec, AttendanceSpec

\* So both keep what they promise when they are put together.
THEOREM StatisticsAreRight ==
    StatisticsSpec => /\ []OnlyTiesAreSkipped /\ []ChartsCountProblems
                      /\ []SummaryAddsUp /\ []ListIsRecent /\ []EntriesAreShown
  BY PartsAreFollowed, TiesAloneAreSkipped, ChartsAreRight, SummariesAddUp,
     ListsAreRecent, EntriesStayShown, PTL


-----------------------------------------------------------------------------
(* The backup.                                                             *)

\* The whole ones of a list of dumps.
WholeOf(dumps) == {i \in DOMAIN dumps : dumps[i].kind = "whole"}

File == [run : Runs, kind : Kinds]

\* A part of the indices of a list is finite.
LEMMA PartOfList ==
    ASSUME NEW s \in Seq(File), NEW T \in SUBSET DOMAIN s
    PROVE  IsFiniteSet(T) /\ Cardinality(T) \in Nat
  <1>1. IsFiniteSet(DOMAIN s) BY FS_Interval
  <1> QED BY <1>1, FS_Subset, FS_CardinalityType

\* A dump more counts if it is whole.
LEMMA WholeAppend ==
    ASSUME NEW s \in Seq(File), NEW f \in File
    PROVE  Cardinality(WholeOf(Append(s, f))) =
               Cardinality(WholeOf(s)) + (IF f.kind = "whole" THEN 1 ELSE 0)
  <1>1. IsFiniteSet(WholeOf(s)) /\ Cardinality(WholeOf(s)) \in Nat
    BY PartOfList DEF WholeOf
  <1>2. WholeOf(Append(s, f)) =
            IF f.kind = "whole" THEN WholeOf(s) \cup {Len(s) + 1} ELSE WholeOf(s)
    BY DEF WholeOf
  <1>3. Len(s) + 1 \notin WholeOf(s) BY DEF WholeOf
  <1>4. Cardinality(WholeOf(s) \cup {Len(s) + 1}) = Cardinality(WholeOf(s)) + 1
    BY <1>1, <1>3, FS_AddElement
  <1>5. CASE f.kind = "whole" BY <1>2, <1>4, <1>5
  <1>6. CASE f.kind # "whole" BY <1>1, <1>2, <1>6
  <1> QED BY <1>5, <1>6

\* The last one does not count if it is not whole.
LEMMA WholeFront ==
    ASSUME NEW s \in Seq(File), s # <<>>, Last(s).kind # "whole"
    PROVE  WholeOf(Front(s)) = WholeOf(s)
  BY DEF WholeOf, Front, Last

\* The whole dumps and the others are all there are.
LEMMA WholeAndLeftovers ==
    ASSUME BackupTypes
    PROVE  /\ Cardinality(Whole) \in Nat /\ Cardinality(Leftovers) \in Nat
           /\ Cardinality(Whole) + Cardinality(Leftovers) = Len(files)
  <1>1. files \in Seq(File) BY DEF BackupTypes, File
  <1>2. Whole \subseteq DOMAIN files /\ Leftovers \subseteq DOMAIN files
    BY DEF Whole, Leftovers
  <1>3. IsFiniteSet(DOMAIN files) /\ Cardinality(DOMAIN files) = Len(files)
    BY <1>1, ListDomain
  <1> QED BY <1>2, <1>3, PartAndRest DEF Leftovers

\* There is no dump at first.
LEMMA BackupInitInv == BackupInit => BackupInv
  <1> SUFFICES ASSUME BackupInit PROVE BackupInv
    OBVIOUS
  <1>1. BackupTypes
    <2>1. files \in Seq(File) BY DEF BackupInit
    <2>2. 0 \in 0 .. MaxRuns BY BackupAssumption
    <2> QED BY <2>1, <2>2 DEF BackupInit, BackupTypes, File
  <1>2. DumpsInOrder /\ OneRunAtATime BY DEF BackupInit, DumpsInOrder, OneRunAtATime, Runs
  <1>3. SuccessesAreHeld BY DEF BackupInit, SuccessesAreHeld
  <1>4. Cardinality(Whole) \in Nat BY <1>1, WholeAndLeftovers
  <1>5. DumpsAreCounted BY <1>4 DEF BackupInit, DumpsAreCounted
  <1> QED BY <1>1, <1>2, <1>3, <1>5 DEF BackupInv

\* Types.
LEMMA BackupNextTypes ==
    ASSUME BackupInv, BackupNext
    PROVE  BackupTypes'
  <1> USE BackupAssumption DEF BackupInv, BackupTypes
  <1>1. CASE Elapse BY <1>1 DEF Elapse
  <1>2. CASE Start
    <2>1. runs + 1 \in Runs BY <1>2 DEF Start, OneRunAtATime, Runs
    <2>2. runs' \in 0 .. MaxRuns BY <1>2, <2>1 DEF Start, Runs
    <2>3. outcome' \in [Runs -> {"none", "running", "ok", "failed", "stopped"}]
      BY <1>2, <2>1 DEF Start
    <2> QED BY <1>2, <2>2, <2>3 DEF Start
  <1>3. CASE Boot BY <1>3 DEF Boot
  <1> DEFINE broken == [run |-> runs, kind |-> "broken"]
  <1>4. step = "dumping" => Remains \subseteq Seq(File)
    BY DEF OneRunAtATime, Runs, Kinds, Remains, File
  <1>5. CASE Stop BY <1>5, <1>4 DEF Stop, File
  <1>6. CASE DumpEnds
    <2>1. PICK kind \in Kinds : files' = Append(files, [run |-> runs, kind |-> kind])
      BY <1>6 DEF DumpEnds
    <2>2. [run |-> runs, kind |-> kind] \in File
      BY <1>6 DEF DumpEnds, OneRunAtATime, Runs, File
    <2>3. files' \in Seq(File) BY <2>1, <2>2 DEF File
    <2> QED BY <1>6, <2>3 DEF DumpEnds, File
  <1>7. CASE DumpFails BY <1>7, <1>4 DEF DumpFails, End, File
  <1>8. CASE Verify
    <2>1. Front(files) \in Seq(File)
      <3>1. files \in Seq(File) /\ files # <<>> BY <1>8 DEF Verify, DumpsInOrder, File
      <3>2. Len(files) \in Nat \ {0} BY <3>1
      <3>3. SubSeq(files, 1, Len(files) - 1) \in Seq(File) BY <3>1, <3>2, Piece
      <3> QED BY <3>3 DEF Front
    <2>2. files' \in Seq(File) BY <1>8, <2>1 DEF Verify, File
    <2>3. step' \in {"idle", "rotating"} /\ verified' \in Nat BY <1>8 DEF Verify, End
    <2>4. outcome' \in [Runs -> {"none", "running", "ok", "failed", "stopped"}]
      BY <1>8 DEF Verify, End
    <2> QED BY <1>8, <2>2, <2>3, <2>4 DEF Verify, File
  <1>9. CASE Rotate
    <2>1. files' \in Seq(File) BY <1>9 DEF Rotate, Newest, File
    <2> QED BY <1>9, <2>1 DEF Rotate, End, File
  <1>10. CASE Copy BY <1>10 DEF Copy
  <1>11. CASE CopyFails BY <1>11 DEF CopyFails, End
  <1>12. CASE Compare BY <1>12 DEF Compare, End
  <1> QED BY <1>1, <1>2, <1>3, <1>5, <1>6, <1>7, <1>8, <1>9, <1>10, <1>11, <1>12 DEF BackupNext

\* By age, and none younger than a run.
Aged(dumps, run) ==
    /\ \A i, j \in DOMAIN dumps : i < j => dumps[i].run < dumps[j].run
    /\ \A i \in DOMAIN dumps : dumps[i].run <= run

\* A dump of a list is of a run.
LEMMA AgedElement ==
    ASSUME NEW s \in Seq(File), NEW i \in 1 .. Len(s)
    PROVE  s[i] \in File /\ s[i].run \in Nat
  <1>1. s[i] \in File OBVIOUS
  <1> QED BY <1>1 DEF File, Runs

\* A list stays in order with a younger dump at its end,
LEMMA AgedAppend ==
    ASSUME NEW s \in Seq(File), NEW r \in Runs, Aged(s, r),
           \A i \in DOMAIN s : s[i].run < r,
           NEW f \in File, f.run = r
    PROVE  Aged(Append(s, f), r)
  <1> DEFINE t == Append(s, f)
             n == Len(s)
  <1>1. n \in Nat /\ DOMAIN s = 1 .. n /\ DOMAIN t = 1 .. (n + 1) OBVIOUS
  <1>2. t[n + 1] = f /\ \A i \in 1 .. n : t[i] = s[i] OBVIOUS
  <1>3. \A i \in 1 .. n : s[i].run \in Nat BY AgedElement
  <1>4. ASSUME NEW i \in 1 .. (n + 1), NEW j \in 1 .. (n + 1), i < j
        PROVE  t[i].run < t[j].run
    <2>1. i \in 1 .. n BY <1>1, <1>4
    <2>2. CASE j = n + 1 BY <1>1, <1>2, <2>1, <2>2
    <2>3. CASE j \in 1 .. n BY <1>1, <1>2, <1>4, <2>1, <2>3 DEF Aged
    <2> QED BY <1>1, <2>2, <2>3
  <1>5. ASSUME NEW i \in 1 .. (n + 1) PROVE t[i].run <= r
    <2>1. CASE i = n + 1 BY <1>2, <2>1 DEF Runs
    <2>2. CASE i \in 1 .. n BY <1>1, <1>2, <2>2 DEF Aged
    <2> QED BY <1>1, <2>1, <2>2
  <1> HIDE DEF t
  <1>6. Aged(t, r) BY <1>1, <1>4, <1>5 DEF Aged
  <1> QED BY <1>6 DEF t

\* and with a piece of it cut off.
LEMMA AgedPiece ==
    ASSUME NEW s \in Seq(File), NEW r \in Nat, Aged(s, r),
           NEW m \in 1 .. Len(s) + 1, NEW n \in 0 .. Len(s), m <= n + 1
    PROVE  Aged(SubSeq(s, m, n), r)
  <1> DEFINE t == SubSeq(s, m, n)
  <1>1. Len(s) \in Nat /\ DOMAIN s = 1 .. Len(s) OBVIOUS
  <1>2. t \in Seq(File) /\ Len(t) = n + 1 - m BY Piece
  <1>3. \A i \in 1 .. n + 1 - m : t[i] = s[m + i - 1] BY Piece
  <1> HIDE DEF t
  <1>4. DOMAIN t = 1 .. n + 1 - m BY <1>2
  <1>5. \A i \in 1 .. n + 1 - m : m + i - 1 \in DOMAIN s BY <1>1
  <1>6. \A i, j \in 1 .. n + 1 - m : i < j => m + i - 1 < m + j - 1 BY <1>1
  <1>7. Aged(t, r) BY <1>3, <1>4, <1>5, <1>6 DEF Aged
  <1> QED BY <1>7 DEF t

\* The run under way.
LEMMA BackupNextRun ==
    ASSUME BackupInv, BackupNext
    PROVE  OneRunAtATime'
  <1> USE BackupAssumption DEF BackupInv, OneRunAtATime
  <1>0. runs \in Nat /\ MaxRuns \in Nat BY DEF BackupTypes
  <1>1. CASE Elapse BY <1>1 DEF Elapse
  <1>2. CASE Start
    <2>1. runs' = runs + 1 /\ runs' \in Runs BY <1>0, <1>2 DEF Start, Runs
    <2>2. outcome'[runs'] = "running" BY <1>2, <2>1 DEF Start, BackupTypes
    <2>3. \A r \in Runs : r > runs' => outcome'[r] = "none"
      BY <1>0, <1>2, <2>1 DEF Start, BackupTypes, Runs
    <2> QED BY <1>0, <1>2, <2>1, <2>2, <2>3 DEF Start
  <1>3. CASE Boot BY <1>3 DEF Boot
  <1>4. \A o : outcome' \in {outcome, [outcome EXCEPT ![runs] = o]} /\ runs' = runs =>
            \A r \in Runs : r > runs' => outcome'[r] = "none"
    BY <1>0 DEF BackupTypes, Runs
  <1>5. CASE Stop BY <1>0, <1>4, <1>5 DEF Stop
  <1>6. CASE DumpEnds BY <1>6 DEF DumpEnds
  <1>7. CASE DumpFails BY <1>0, <1>4, <1>7 DEF DumpFails, End
  <1>8. CASE Verify BY <1>0, <1>4, <1>8 DEF Verify, End
  <1>9. CASE Rotate BY <1>0, <1>4, <1>9 DEF Rotate, End
  <1>10. CASE Copy BY <1>10 DEF Copy
  <1>11. CASE CopyFails BY <1>0, <1>4, <1>11 DEF CopyFails, End
  <1>12. CASE Compare BY <1>0, <1>4, <1>12 DEF Compare, End
  <1> QED BY <1>1, <1>2, <1>3, <1>5, <1>6, <1>7, <1>8, <1>9, <1>10, <1>11, <1>12 DEF BackupNext

\* What the rotation leaves of a list that is too long.
LEMMA NewestPiece ==
    ASSUME NEW s \in Seq(File), NEW n \in Nat, n = Len(s), n > Keep
    PROVE  LET t == SubSeq(s, n - Keep + 1, n) IN
           /\ t \in Seq(File) /\ Len(t) = Keep
           /\ \A i \in 1 .. Keep : t[i] = s[n - Keep + i]
           /\ \A r \in Nat : Aged(s, r) => Aged(t, r)
  <1> USE BackupAssumption
  <1>1. PICK m \in 1 .. n + 1 : m = n - Keep + 1 OBVIOUS
  <1>2. n \in 0 .. n /\ m <= n + 1 /\ n + 1 - m = Keep BY <1>1
  <1>3. /\ SubSeq(s, m, n) \in Seq(File) /\ Len(SubSeq(s, m, n)) = n + 1 - m
        /\ \A i \in 1 .. n + 1 - m : SubSeq(s, m, n)[i] = s[m + i - 1]
    BY <1>2, Piece
  <1>4. \A r \in Nat : Aged(s, r) => Aged(SubSeq(s, m, n), r)
    BY <1>2, AgedPiece
  <1>5. \A i \in 1 .. Keep : m + i - 1 = n - Keep + i BY <1>1
  <1> QED BY <1>1, <1>2, <1>3, <1>4, <1>5

\* What a dump that ends, well or not, makes of the list.
LEMMA DumpAppends ==
    ASSUME BackupInv, step = "dumping", NEW kind \in Kinds
    PROVE  LET dumps == Append(files, [run |-> runs, kind |-> kind]) IN
           /\ runs \in Runs
           /\ [run |-> runs, kind |-> kind] \in File
           /\ dumps \in Seq(File) /\ Len(dumps) = Len(files) + 1
           /\ dumps[Len(files) + 1] = [run |-> runs, kind |-> kind]
           /\ \A i \in 1 .. Len(files) : dumps[i] = files[i]
           /\ Aged(dumps, runs)
  <1> DEFINE f == [run |-> runs, kind |-> kind]
  <1>1. files \in Seq(File) BY DEF BackupInv, BackupTypes, File
  <1>2. runs \in Runs
    BY BackupAssumption DEF BackupInv, BackupTypes, OneRunAtATime, Runs
  <1>3. f \in File BY <1>2 DEF File
  <1>4. f.run = runs OBVIOUS
  <1>5. Aged(files, runs) /\ \A i \in DOMAIN files : files[i].run < runs
    BY DEF BackupInv, DumpsInOrder, Aged
  <1> HIDE DEF f
  <1>6. Aged(Append(files, f), runs) BY <1>1, <1>2, <1>3, <1>4, <1>5, AgedAppend
  <1>7. /\ Append(files, f) \in Seq(File) /\ Len(Append(files, f)) = Len(files) + 1
        /\ Append(files, f)[Len(files) + 1] = f
        /\ \A i \in 1 .. Len(files) : Append(files, f)[i] = files[i]
    BY <1>1, <1>3
  <1> QED BY <1>2, <1>3, <1>6, <1>7 DEF f

\* The ages.
LEMMA BackupNextOrder ==
    ASSUME BackupInv, BackupNext
    PROVE  DumpsInOrder'
  <1> USE BackupAssumption DEF BackupInv
  <1>0. /\ files \in Seq(File) /\ runs \in Nat /\ Aged(files, runs)
        /\ Len(files) \in Nat /\ DOMAIN files = 1 .. Len(files)
    BY DEF BackupTypes, File, DumpsInOrder, Aged
  <1>r. step = "dumping" => \A dumps \in Remains : Aged(dumps, runs)
    BY <1>0, DumpAppends DEF Remains, Kinds
  <1>1. CASE Elapse BY <1>1 DEF Elapse, DumpsInOrder
  <1>2. CASE Start
    <2>1. \A i \in DOMAIN files : files[i].run \in Nat /\ files[i].run <= runs
      BY <1>0, AgedElement DEF Aged
    <2>2. \A i \in DOMAIN files : files[i].run < runs + 1 BY <1>0, <2>1
    <2> QED BY <1>0, <1>2, <2>1, <2>2 DEF Start, DumpsInOrder
  <1>3. CASE Boot BY <1>3 DEF Boot, DumpsInOrder
  <1>4. CASE Stop
    <2>1. Aged(files', runs) BY <1>0, <1>r, <1>4 DEF Stop
    <2> QED BY <1>4, <2>1 DEF Stop, DumpsInOrder, Aged
  <1>5. CASE DumpEnds
    <2>1. PICK kind \in Kinds : files' = Append(files, [run |-> runs, kind |-> kind])
      BY <1>5 DEF DumpEnds
    <2>2. Aged(files', runs) /\ files' \in Seq(File) /\ Len(files') = Len(files) + 1
          /\ files'[Len(files) + 1] = [run |-> runs, kind |-> kind]
      BY <1>5, <2>1, DumpAppends DEF DumpEnds
    <2>3. files' # <<>> /\ Last(files').run = runs
      BY <1>0, <2>2 DEF Last
    <2> QED BY <1>5, <2>2, <2>3 DEF DumpEnds, DumpsInOrder, Aged
  <1>6. CASE DumpFails
    <2>1. Aged(files', runs) BY <1>0, <1>r, <1>6 DEF DumpFails
    <2> QED BY <1>6, <2>1 DEF DumpFails, End, DumpsInOrder, Aged
  <1>7. CASE Verify
    <2>1. CASE UNCHANGED files
      BY <1>7, <2>1 DEF Verify, End, DumpsInOrder
    <2>2. CASE files' = Front(files) /\ step' = "idle"
      <3>1. Len(files) \in Nat \ {0} BY <1>0, <1>7 DEF Verify, DumpsInOrder
      <3>2. Aged(files', runs) BY <1>0, <2>2, <3>1, AgedPiece DEF Front
      <3> QED BY <1>7, <2>2, <3>2 DEF Verify, DumpsInOrder, Aged
    <2> QED BY <1>7, <2>1, <2>2 DEF Verify, End
  <1>8. CASE Rotate
    <2>1. CASE Len(files) <= Keep
      BY <1>8, <2>1 DEF Rotate, Newest, End, DumpsInOrder
    <2>2. CASE Len(files) > Keep
      <3> DEFINE n == Len(files)
      <3>1. files' = SubSeq(files, n - Keep + 1, n) BY <1>0, <1>8, <2>2 DEF Rotate, Newest
      <3>4. /\ files' \in Seq(File) /\ Len(files') = Keep /\ Aged(files', runs)
            /\ \A i \in 1 .. Keep : files'[i] = files[n - Keep + i]
        BY <1>0, <2>2, <3>1, NewestPiece
      <3>5. Len(files') = Keep /\ files'[Keep] = files[n] BY <1>0, <3>4
      <3>6. files' # <<>> /\ Last(files') = Last(files) BY <3>4, <3>5 DEF Last
      <3>7. runs' = runs /\ step' \in {"copying", "idle"} BY <1>8 DEF Rotate, End
      <3>8. Last(files).run = runs BY <1>8 DEF Rotate, DumpsInOrder
      <3> QED BY <3>4, <3>6, <3>7, <3>8 DEF DumpsInOrder, Aged
    <2> QED BY <1>0, <2>1, <2>2
  <1>9. CASE Copy BY <1>9 DEF Copy, DumpsInOrder
  <1>10. CASE CopyFails BY <1>10 DEF CopyFails, End, DumpsInOrder
  <1>11. CASE Compare BY <1>11 DEF Compare, End, DumpsInOrder
  <1> QED BY <1>1, <1>2, <1>3, <1>4, <1>5, <1>6, <1>7, <1>8, <1>9, <1>10, <1>11 DEF BackupNext

\* Held, for a list of which the first n are settled.
HeldIn(dumps, n, r) ==
    \/ \E i \in 1 .. n : dumps[i] = [run |-> r, kind |-> "whole"]
    \/ Keep <= n /\ \A i \in (n - Keep + 1) .. n : dumps[i].run > r

\* One more newer dump does not change it,
LEMMA HeldWithNewer ==
    ASSUME NEW s, NEW t, NEW n \in Nat, NEW r, HeldIn(s, n, r),
           \A i \in 1 .. n : t[i] = s[i], t[n + 1].run > r
    PROVE  HeldIn(t, n, r) /\ HeldIn(t, n + 1, r)
  <1> USE BackupAssumption
  <1>1. CASE \E i \in 1 .. n : s[i] = [run |-> r, kind |-> "whole"]
    <2>1. PICK i \in 1 .. n : s[i] = [run |-> r, kind |-> "whole"] BY <1>1
    <2>2. i \in 1 .. (n + 1) /\ t[i] = s[i] BY <2>1
    <2> QED BY <2>1, <2>2 DEF HeldIn
  <1>2. CASE Keep <= n /\ \A i \in (n - Keep + 1) .. n : s[i].run > r
    <2>1. \A i \in (n - Keep + 1) .. n : t[i].run > r BY <1>2
    <2>2. \A i \in (n + 1 - Keep + 1) .. (n + 1) : i = n + 1 \/ i \in (n - Keep + 1) .. n
      OBVIOUS
    <2>3. \A i \in (n + 1 - Keep + 1) .. (n + 1) : t[i].run > r BY <2>1, <2>2
    <2> QED BY <1>2, <2>1, <2>3 DEF HeldIn
  <1> QED BY <1>1, <1>2 DEF HeldIn

\* What a list holds is held by every list that begins like it.
LEMMA HeldWithoutLast ==
    ASSUME NEW s, NEW t, NEW n \in Nat, NEW r, HeldIn(s, n, r),
           \A i \in 1 .. n : t[i] = s[i]
    PROVE  HeldIn(t, n, r)
  <1> USE BackupAssumption
  <1>1. CASE \E i \in 1 .. n : s[i] = [run |-> r, kind |-> "whole"] BY <1>1 DEF HeldIn
  <1>2. CASE Keep <= n /\ \A i \in (n - Keep + 1) .. n : s[i].run > r
    <2>1. \A i \in (n - Keep + 1) .. n : t[i].run > r BY <1>2
    <2> QED BY <1>2, <2>1 DEF HeldIn
  <1> QED BY <1>1, <1>2 DEF HeldIn

\* nor does the rotation: what it drops is older than what it leaves.
LEMMA HeldInNewest ==
    ASSUME NEW s \in Seq(File), NEW n \in Nat, n = Len(s), n > Keep, NEW r \in Nat,
           NEW q \in Nat, Aged(s, q), HeldIn(s, n, r)
    PROVE  HeldIn(SubSeq(s, n - Keep + 1, n), Keep, r)
  <1> USE BackupAssumption
  <1> DEFINE t == SubSeq(s, n - Keep + 1, n)
  <1>1. \A k \in 1 .. Keep : t[k] = s[n - Keep + k] BY NewestPiece
  <1> SUFFICES HeldIn(t, Keep, r) OBVIOUS
  <1> HIDE DEF t
  <1>2. DOMAIN s = 1 .. n /\ \A k \in 1 .. Keep : n - Keep + k \in 1 .. n OBVIOUS
  <1>3. CASE \E i \in 1 .. n : s[i] = [run |-> r, kind |-> "whole"]
    <2>1. PICK i \in 1 .. n : s[i] = [run |-> r, kind |-> "whole"] BY <1>3
    <2>2. CASE i > n - Keep
      <3>1. PICK k \in 1 .. Keep : n - Keep + k = i BY <2>2
      <3> QED BY <1>1, <2>1, <3>1 DEF HeldIn
    <2>3. CASE i <= n - Keep
      <3>1. \A k \in 1 .. Keep : s[i].run < s[n - Keep + k].run
        BY <1>2, <2>3 DEF Aged
      <3>2. \A k \in 1 .. Keep : s[n - Keep + k].run \in Nat BY <1>2, AgedElement
      <3>3. ASSUME NEW k \in 1 .. Keep PROVE t[k].run > r
        <4>1. s[i].run = r /\ s[i].run < s[n - Keep + k].run BY <2>1, <3>1
        <4>2. s[n - Keep + k].run \in Nat /\ t[k] = s[n - Keep + k] BY <1>1, <3>2
        <4> QED BY <4>1, <4>2
      <3>4. Keep - Keep + 1 = 1 OBVIOUS
      <3> QED BY <3>3, <3>4 DEF HeldIn
    <2> QED BY <2>2, <2>3
  <1>4. CASE \A i \in (n - Keep + 1) .. n : s[i].run > r
    <2>1. \A k \in 1 .. Keep : n - Keep + k \in (n - Keep + 1) .. n OBVIOUS
    <2>2. \A k \in 1 .. Keep : t[k].run > r BY <1>1, <1>4, <2>1
    <2>3. Keep - Keep + 1 = 1 OBVIOUS
    <2> QED BY <2>2, <2>3 DEF HeldIn
  <1> QED BY <1>3, <1>4 DEF HeldIn

\* A run that has ended well is older than the one under way.
LEMMA EndedIsOlder ==
    ASSUME BackupInv, NEW r \in Runs, outcome[r] = "ok"
    PROVE  r <= runs /\ (step # "idle" => r < runs)
  BY BackupAssumption DEF BackupInv, BackupTypes, OneRunAtATime, Runs

\* Successes stay held.
LEMMA BackupNextHeld ==
    ASSUME BackupInv, BackupNext
    PROVE  SuccessesAreHeld'
  <1> USE BackupAssumption
  <1> DEFINE n == Len(files)
             sizes == {"rotating", "copying", "comparing"}
  <1>0. /\ files \in Seq(File) /\ n \in Nat /\ DOMAIN files = 1 .. n
        /\ runs \in Nat /\ Aged(files, runs)
        /\ step # "idle" => runs \in Runs /\ outcome[runs] = "running"
        /\ outcome \in [Runs -> {"none", "running", "ok", "failed", "stopped"}]
        /\ remote \in [Runs -> {"nothing", "part", "whole"}]
    BY DEF BackupInv, BackupTypes, File, DumpsInOrder, Aged, OneRunAtATime, Runs
  <1>a. \A r \in Runs : outcome[r] = "ok" =>
            r \in Nat /\ r <= runs /\ (step # "idle" => r < runs)
    BY EndedIsOlder DEF Runs
  <1>b. \A r \in Runs : outcome[r] = "ok" =>
            HeldIn(files, Settled, r) /\ (bucket => remote[r] = "whole")
    BY DEF BackupInv, SuccessesAreHeld, Held, HeldIn
  <1>c. step \in sizes => HeldIn(files, n, runs)
    BY <1>0 DEF BackupInv, SuccessesAreHeld, Held, HeldIn, Settled
  \* It is enough to look at the list, if the outcome of no run becomes "ok".
  <1>d. ASSUME UNCHANGED <<bucket, remote>>, step' \notin sizes,
               \A r \in Runs : outcome'[r] = "ok" => outcome[r] = "ok",
               \A r \in Runs : outcome'[r] = "ok" => HeldIn(files', Settled', r)
        PROVE  SuccessesAreHeld'
    BY <1>b, <1>d DEF SuccessesAreHeld, Held, HeldIn
  <1>e. \A o \in {"failed", "stopped"} :
            step # "idle" /\ outcome' = [outcome EXCEPT ![runs] = o] =>
                \A r \in Runs : outcome'[r] = "ok" => outcome[r] = "ok" /\ r # runs
    BY <1>0
  <1>f. ASSUME step = "dumping", files' \in Remains, NEW r \in Runs, outcome[r] = "ok"
        PROVE  HeldIn(files', Len(files'), r)
    <2>1. HeldIn(files, n, r) /\ r < runs /\ r \in Nat BY <1>a, <1>b, <1>f DEF Settled
    <2>2. CASE files' = files BY <2>1, <2>2
    <2>3. CASE files' = Append(files, [run |-> runs, kind |-> "broken"])
      <3>1. /\ Len(files') = n + 1
            /\ files'[n + 1] = [run |-> runs, kind |-> "broken"]
            /\ \A i \in 1 .. n : files'[i] = files[i]
        BY <1>f, <2>3, DumpAppends DEF Kinds
      <3>2. files'[n + 1].run > r BY <1>0, <2>1, <3>1
      <3> QED BY <1>0, <2>1, <3>1, <3>2, HeldWithNewer
    <2> QED BY <1>f, <2>2, <2>3 DEF Remains
  \* A dump that has been written and is not verified counts from now on.
  <1>g. ASSUME step = "verifying", NEW r \in Runs, outcome[r] = "ok"
        PROVE  HeldIn(files, n, r)
    <2>1. HeldIn(files, n - 1, r) /\ r < runs /\ r \in Nat BY <1>a, <1>b, <1>g DEF Settled
    <2>2. n - 1 \in Nat /\ n - 1 + 1 = n /\ files[n].run = runs
      BY <1>0, <1>g DEF BackupInv, DumpsInOrder, Last
    <2>3. files[n - 1 + 1].run > r BY <1>0, <2>1, <2>2
    <2>4. HeldIn(files, n - 1 + 1, r) BY <2>1, <2>2, <2>3, HeldWithNewer
    <2> QED BY <2>2, <2>4
  <1>1. CASE Elapse
    BY <1>1 DEF Elapse, BackupInv, SuccessesAreHeld, Held, Settled
  <1>2. CASE Start
    <2>1. runs + 1 \in Runs
      BY <1>0, <1>2 DEF Start, BackupInv, BackupTypes, OneRunAtATime, Runs
    <2>2. \A r \in Runs : outcome'[r] = "ok" => outcome[r] = "ok"
      BY <1>0, <1>2, <2>1 DEF Start
    <2>3. Settled' = n /\ Settled = n
      BY <1>2 DEF Start, Settled, BackupInv, OneRunAtATime
    <2> QED BY <1>2, <1>b, <1>d, <2>2, <2>3 DEF Start
  <1>3. CASE Boot
    BY <1>3 DEF Boot, BackupInv, SuccessesAreHeld, Held, Settled
  <1>4. CASE Stop
    <2>1. step' = "idle" /\ Settled' = Len(files') BY <1>4 DEF Stop, Settled
    <2>2. \A r \in Runs : outcome'[r] = "ok" => outcome[r] = "ok" BY <1>4, <1>e DEF Stop
    <2>3. \A r \in Runs : outcome[r] = "ok" => HeldIn(files', Len(files'), r)
      <3>1. CASE step = "dumping" BY <1>4, <1>f, <3>1 DEF Stop
      <3>2. CASE step = "verifying" BY <1>4, <1>g, <3>2 DEF Stop
      <3>3. CASE step \notin {"dumping", "verifying"}
        BY <1>4, <1>b, <3>3 DEF Stop, Settled
      <3> QED BY <3>1, <3>2, <3>3
    <2> QED BY <1>4, <1>d, <2>1, <2>2, <2>3 DEF Stop
  <1>5. CASE DumpEnds
    <2>1. PICK kind \in Kinds : files' = Append(files, [run |-> runs, kind |-> kind])
      BY <1>5 DEF DumpEnds
    <2>2. Len(files') = n + 1 /\ \A i \in 1 .. n : files'[i] = files[i]
      BY <1>5, <2>1, DumpAppends DEF DumpEnds
    <2>3. Settled' = n /\ Settled = n BY <1>0, <1>5, <2>2 DEF DumpEnds, Settled
    <2>4. \A r \in Runs : outcome[r] = "ok" => HeldIn(files', n, r)
      BY <1>0, <1>b, <2>2, <2>3, HeldWithoutLast
    <2> QED BY <1>5, <1>d, <2>3, <2>4 DEF DumpEnds
  <1>6. CASE DumpFails
    <2>1. step' = "idle" /\ Settled' = Len(files') BY <1>6 DEF DumpFails, End, Settled
    <2>2. \A r \in Runs : outcome'[r] = "ok" => outcome[r] = "ok"
      BY <1>6, <1>e DEF DumpFails, End
    <2> QED BY <1>6, <1>d, <1>f, <2>1, <2>2 DEF DumpFails
  <1>7. CASE Verify
    <2>1. CASE Last(files).kind = "broken"
      <3>1. files' = Front(files) /\ End("failed") BY <1>7, <2>1 DEF Verify
      <3>2. n \in Nat \ {0} BY <1>0, <1>7 DEF Verify, BackupInv, DumpsInOrder
      <3>3. /\ Len(files') = n - 1 /\ n - 1 \in Nat
            /\ \A i \in 1 .. n - 1 : files'[i] = files[i]
        BY <1>0, <3>1, <3>2 DEF Front
      <3>4. Settled = n - 1 /\ Settled' = n - 1
        BY <1>7, <3>1, <3>3 DEF Verify, End, Settled
      <3>5. \A r \in Runs : outcome[r] = "ok" => HeldIn(files', n - 1, r)
        BY <1>b, <3>3, <3>4, HeldWithoutLast
      <3>6. \A r \in Runs : outcome'[r] = "ok" => outcome[r] = "ok"
        BY <1>7, <1>e, <3>1 DEF Verify, End
      <3> QED BY <1>7, <1>d, <3>1, <3>4, <3>5, <3>6 DEF Verify, End
    <2>2. CASE Last(files).kind = "empty"
      <3>1. files' = files /\ End("failed") BY <1>7, <2>2 DEF Verify
      <3>2. Settled' = n BY <3>1 DEF End, Settled
      <3>3. \A r \in Runs : outcome'[r] = "ok" => outcome[r] = "ok"
        BY <1>7, <1>e, <3>1 DEF Verify, End
      <3> QED BY <1>7, <1>d, <1>g, <3>1, <3>2, <3>3 DEF Verify, End
    <2>3. CASE Last(files).kind \notin {"broken", "empty"}
      <3>1. files' = files /\ outcome' = outcome /\ step' = "rotating"
            /\ runs' = runs /\ bucket' = bucket /\ remote' = remote
        BY <1>7, <2>3 DEF Verify
      <3>2. Settled' = n BY <3>1 DEF Settled
      <3>3. HeldIn(files, n, runs)
        <4>1. n \in Nat \ {0} /\ files[n] = Last(files) /\ Last(files).run = runs
          BY <1>0, <1>7 DEF Verify, BackupInv, DumpsInOrder, Last
        <4>2. files[n] \in File BY <1>0, <4>1
        <4>3. files[n] = [run |-> runs, kind |-> "whole"]
          BY <2>3, <4>1, <4>2 DEF File, Kinds
        <4> QED BY <4>1, <4>3 DEF HeldIn
      <3> QED BY <1>7, <1>b, <1>g, <3>1, <3>2, <3>3
          DEF Verify, SuccessesAreHeld, Held, HeldIn
    <2> QED BY <2>1, <2>2, <2>3
  <1>8. CASE Rotate
    <2>1. step' \in {"copying", "idle"} /\ UNCHANGED <<runs, bucket, remote>>
          /\ Settled' = Len(files') /\ Settled = n
      BY <1>8 DEF Rotate, End, Settled
    <2>2. \A r \in Nat : HeldIn(files, n, r) => HeldIn(files', Len(files'), r)
      <3>1. CASE n <= Keep BY <1>8, <3>1 DEF Rotate, Newest
      <3>2. CASE n > Keep
        <4>1. files' = SubSeq(files, n - Keep + 1, n) BY <1>8, <1>0, <3>2 DEF Rotate, Newest
        <4>2. Len(files') = Keep BY <1>0, <3>2, <4>1, NewestPiece
        <4> QED BY <1>0, <3>2, <4>1, <4>2, HeldInNewest
      <3> QED BY <1>0, <3>1, <3>2
    <2>3. HeldIn(files', Len(files'), runs) BY <1>0, <1>8, <1>c, <2>2 DEF Rotate
    <2>4. \A r \in Runs : outcome[r] = "ok" => HeldIn(files', Len(files'), r)
      BY <1>a, <1>b, <2>1, <2>2
    <2>5. \A r \in Runs : outcome'[r] = "ok" =>
              outcome[r] = "ok" \/ (r = runs /\ ~bucket)
      BY <1>0, <1>8 DEF Rotate, End
    <2> QED BY <1>b, <2>1, <2>3, <2>4, <2>5 DEF SuccessesAreHeld, Held, HeldIn
  <1>9. CASE Copy
    <2>1. UNCHANGED <<files, runs, outcome, bucket>> /\ Settled' = n /\ Settled = n
      BY <1>9 DEF Copy, Settled
    <2>2. \A r \in Runs : outcome[r] = "ok" => remote'[r] = remote[r]
      BY <1>0, <1>9 DEF Copy
    <2>3. HeldIn(files, n, runs) BY <1>c, <1>9 DEF Copy
    <2> QED BY <1>b, <2>1, <2>2, <2>3 DEF SuccessesAreHeld, Held, HeldIn
  <1>10. CASE CopyFails
    <2>1. UNCHANGED <<files, bucket, remote>> /\ Settled' = n /\ Settled = n /\ step' = "idle"
      BY <1>10 DEF CopyFails, End, Settled
    <2>2. \A r \in Runs : outcome'[r] = "ok" => outcome[r] = "ok"
      BY <1>10, <1>e DEF CopyFails, End
    <2> QED BY <1>b, <1>d, <2>1, <2>2
  <1>11. CASE Compare
    <2>1. UNCHANGED <<files, bucket, remote, runs>> /\ Settled' = n /\ Settled = n
          /\ step' = "idle"
      BY <1>11 DEF Compare, End, Settled
    <2>2. HeldIn(files, n, runs) BY <1>c, <1>11 DEF Compare
    <2>3. \A r \in Runs : outcome'[r] = "ok" =>
              outcome[r] = "ok" \/ (r = runs /\ remote[r] = "whole")
      BY <1>0, <1>11 DEF Compare, End, SameSize
    <2> QED BY <1>b, <2>1, <2>2, <2>3 DEF SuccessesAreHeld, Held, HeldIn
  <1> QED BY <1>1, <1>2, <1>3, <1>4, <1>5, <1>6, <1>7, <1>8, <1>9, <1>10, <1>11 DEF BackupNext

\* The count of the whole dumps.
LEMMA BackupNextCount ==
    ASSUME BackupInv, BackupNext
    PROVE  DumpsAreCounted'
  <1> USE BackupAssumption
  <1> DEFINE n == Len(files)
             w == Cardinality(Whole)
  <1>0. /\ files \in Seq(File) /\ n \in Nat /\ verified \in Nat
        /\ w \in Nat /\ Whole = WholeOf(files) /\ Whole' = WholeOf(files')
    <2>1. Whole = WholeOf(files) /\ Whole' = WholeOf(files') BY DEF Whole, WholeOf
    <2>2. w \in Nat BY WholeAndLeftovers DEF BackupInv
    <2> QED BY <2>1, <2>2 DEF BackupInv, BackupTypes, File
  <1>t. verified' \in Nat BY BackupNextTypes DEF BackupTypes
  <1>a. step # "verifying" => n >= Keep \/ w >= verified
    BY <1>0 DEF BackupInv, DumpsAreCounted, Settled
  \* Outside "verifying" the count is the plain one.
  <1>b. ASSUME step' # "verifying", Len(files') >= Keep \/ Cardinality(Whole') >= verified'
        PROVE  DumpsAreCounted'
    BY <1>b, <1>t DEF DumpsAreCounted, Settled
  <1>c. ASSUME step = "dumping", files' \in Remains
        PROVE  Len(files') >= Keep \/ Cardinality(Whole') >= verified
    <2>1. CASE files' = files BY <1>a, <1>c, <2>1 DEF Whole
    <2>2. CASE files' = Append(files, [run |-> runs, kind |-> "broken"])
      <3> DEFINE f == [run |-> runs, kind |-> "broken"]
      <3>1. f \in File /\ Len(files') = n + 1 BY <1>c, <2>2, DumpAppends DEF Kinds
      <3>2. Cardinality(Whole') = w + 0 BY <1>0, <2>2, <3>1, WholeAppend
      <3> QED BY <1>0, <1>a, <1>c, <3>1, <3>2
    <2> QED BY <1>c, <2>1, <2>2 DEF Remains
  <1>1. CASE Elapse
    BY <1>1 DEF Elapse, BackupInv, DumpsAreCounted, Settled, Whole
  <1>2. CASE Start
    <2>1. step # "verifying" BY <1>2 DEF Start, BackupInv, OneRunAtATime
    <2> QED BY <1>2, <1>a, <1>b, <2>1 DEF Start, Whole
  <1>3. CASE Boot
    BY <1>3 DEF Boot, BackupInv, DumpsAreCounted, Settled, Whole
  <1>4. CASE Stop
    <2>1. step' # "verifying" /\ verified' = verified BY <1>4 DEF Stop
    <2>2. CASE step = "dumping" BY <1>4, <1>b, <1>c, <2>1, <2>2 DEF Stop
    <2>3. CASE step = "verifying"
      <3>1. n - 1 >= Keep \/ w >= verified
        BY <1>0, <2>3 DEF BackupInv, DumpsAreCounted, Settled
      <3>2. files' = files BY <1>4, <2>3 DEF Stop
      <3> QED BY <1>0, <1>b, <2>1, <3>1, <3>2
    <2>4. CASE step \notin {"dumping", "verifying"}
      <3>1. files' = files BY <1>4, <2>4 DEF Stop
      <3> QED BY <1>0, <1>a, <1>b, <2>1, <2>4, <3>1
    <2> QED BY <2>2, <2>3, <2>4
  <1>5. CASE DumpEnds
    <2>1. PICK kind \in Kinds : files' = Append(files, [run |-> runs, kind |-> kind])
      BY <1>5 DEF DumpEnds
    <2> DEFINE f == [run |-> runs, kind |-> kind]
    <2>2. f \in File /\ Len(files') = n + 1 /\ files'[n + 1] = f /\ f.kind = kind
      BY <1>5, <2>1, DumpAppends DEF DumpEnds
    <2>3. Cardinality(Whole') = w + (IF kind = "whole" THEN 1 ELSE 0)
      BY <1>0, <2>1, <2>2, WholeAppend
    <2>4. Last(files').kind = kind /\ Settled' = n /\ verified' = verified
      BY <1>0, <1>5, <2>2 DEF DumpEnds, Last, Settled
    <2>5. n >= Keep \/ w >= verified BY <1>5, <1>a DEF DumpEnds
    <2> QED BY <1>0, <1>5, <2>3, <2>4, <2>5 DEF DumpEnds, DumpsAreCounted
  <1>6. CASE DumpFails
    BY <1>6, <1>b, <1>c DEF DumpFails, End
  <1>7. CASE Verify
    <2>1. n \in Nat \ {0} /\ step = "verifying" /\ Settled = n - 1
      BY <1>0, <1>7 DEF Verify, BackupInv, DumpsInOrder, Settled
    <2>2. CASE Last(files).kind = "broken"
      <3>1. files' = Front(files) /\ verified' = verified /\ step' = "idle"
        BY <1>7, <2>2 DEF Verify, End
      <3>2. Len(files') = n - 1 BY <1>0, <2>1, <3>1 DEF Front
      <3>3. Whole' = Whole BY <1>0, <2>1, <2>2, <3>1, WholeFront
      <3>4. n - 1 >= Keep \/ w >= verified
        BY <1>0, <2>1, <2>2 DEF BackupInv, DumpsAreCounted
      <3> QED BY <1>b, <3>1, <3>2, <3>3, <3>4
    <2>3. CASE Last(files).kind = "empty"
      <3>1. files' = files /\ verified' = verified /\ step' = "idle"
        BY <1>7, <2>3 DEF Verify, End
      <3>2. n - 1 >= Keep \/ w >= verified
        BY <1>0, <2>1, <2>3 DEF BackupInv, DumpsAreCounted
      <3> QED BY <1>0, <1>b, <3>1, <3>2
    <2>4. CASE Last(files).kind \notin {"broken", "empty"}
      <3>1. files' = files /\ verified' = verified + 1 /\ step' = "rotating"
        BY <1>7, <2>4 DEF Verify
      <3>2. Last(files).kind = "whole"
        <4>1. files[n] \in File BY <1>0, <2>1
        <4> QED BY <2>4, <4>1 DEF File, Kinds, Last
      <3>3. n - 1 >= Keep \/ w >= verified + 1
        BY <1>0, <2>1, <3>2 DEF BackupInv, DumpsAreCounted
      <3> QED BY <1>0, <1>b, <3>1, <3>3
    <2> QED BY <2>2, <2>3, <2>4
  <1>8. CASE Rotate
    <2>1. step' # "verifying" /\ step # "verifying" /\ verified' = verified
      BY <1>8 DEF Rotate, End
    <2>2. CASE n <= Keep
      <3>1. files' = files BY <1>8, <2>2 DEF Rotate, Newest
      <3> QED BY <1>0, <1>a, <1>b, <2>1, <3>1
    <2>3. CASE n > Keep
      <3>1. files' = SubSeq(files, n - Keep + 1, n) BY <1>0, <1>8, <2>3 DEF Rotate, Newest
      <3>2. Len(files') = Keep BY <1>0, <2>3, <3>1, NewestPiece
      <3> QED BY <1>b, <2>1, <3>2
    <2> QED BY <1>0, <2>2, <2>3
  <1>9. CASE Copy BY <1>9, <1>0, <1>a, <1>b DEF Copy
  <1>10. CASE CopyFails BY <1>10, <1>0, <1>a, <1>b DEF CopyFails, End
  <1>11. CASE Compare BY <1>11, <1>0, <1>a, <1>b DEF Compare, End
  <1> QED BY <1>1, <1>2, <1>3, <1>4, <1>5, <1>6, <1>7, <1>8, <1>9, <1>10, <1>11 DEF BackupNext

\* The invariant says what the properties say.
LEMMA BackupInvImplies ==
    ASSUME BackupInv
    PROVE  FailuresCostOneEach /\ SilenceIsSuccess
  <1> USE BackupAssumption
  <1> DEFINE n == Len(files)
             w == Cardinality(Whole)
             l == Cardinality(Leftovers)
  <1>1. w \in Nat /\ l \in Nat /\ w + l = n BY WholeAndLeftovers DEF BackupInv
  <1>2. n >= Keep \/ w >= verified
    BY <1>1 DEF BackupInv, DumpsAreCounted, Settled, BackupTypes
  <1>3. Min({verified, Keep - l}) = IF verified <= Keep - l THEN verified ELSE Keep - l
    <2>1. verified \in Int /\ Keep - l \in Int BY <1>1 DEF BackupInv, BackupTypes
    <2> HIDE DEF l
    <2> QED BY <2>1, SmallerOfTwo
  <1>4. FailuresCostOneEach
    BY <1>1, <1>2, <1>3 DEF FailuresCostOneEach, BackupInv, BackupTypes
  <1>5. ASSUME NEW r \in Runs, outcome[r] = "ok"
        PROVE  \/ \E i \in Whole : files[i].run = r
               \/ Cardinality({i \in DOMAIN files : files[i].run > r}) >= Keep
    <2>1. Settled \in {n, n - 1} /\ Settled <= n /\ DOMAIN files = 1 .. n /\ n \in Nat
          /\ files \in Seq(File)
      BY <1>1 DEF Settled, BackupInv, BackupTypes, File
    <2>2. CASE \E i \in 1 .. Settled : files[i] = [run |-> r, kind |-> "whole"]
      BY <2>1, <2>2 DEF Whole
    <2>3. CASE Keep <= Settled /\ \A i \in (Settled - Keep + 1) .. Settled : files[i].run > r
      <3> DEFINE newest == (Settled - Keep + 1) .. Settled
                 newer == {i \in DOMAIN files : files[i].run > r}
      <3>1. Settled \in Nat /\ newest \subseteq DOMAIN files BY <2>1, <2>3
      <3>2. newest \subseteq newer BY <2>3, <3>1
      <3>3. Cardinality(newest) = Keep BY <3>1, FS_Interval
      <3>4. IsFiniteSet(newer) /\ Cardinality(newer) \in Nat BY <2>1, PartOfList
      <3> HIDE DEF newest, newer
      <3>5. Cardinality(newest) <= Cardinality(newer) BY <3>2, <3>4, FS_Subset
      <3> QED BY <3>3, <3>5 DEF newer
    <2> QED BY <1>5, <2>2, <2>3 DEF BackupInv, SuccessesAreHeld, Held
  <1>6. SilenceIsSuccess
    BY <1>5 DEF SilenceIsSuccess, BackupInv, SuccessesAreHeld
  <1> QED BY <1>4, <1>6

\* Types, the order of the dumps, what is held of every success and the count of whole
\* dumps are inductive (cpgeeks-backup.sh, its unit and timer).
THEOREM BackupInvCorrect == BackupSpec => []BackupInv
  <1>1. BackupInv /\ UNCHANGED backupVars => BackupInv'
    BY DEF BackupInv, BackupTypes, DumpsInOrder, OneRunAtATime, SuccessesAreHeld, Held,
           Settled, DumpsAreCounted, Whole, backupVars
  <1>2. BackupInv /\ BackupNext => BackupInv'
    BY BackupNextTypes, BackupNextOrder, BackupNextRun, BackupNextHeld, BackupNextCount
    DEF BackupInv
  <1> QED BY BackupInitInv, <1>1, <1>2, PTL DEF BackupSpec

\* A failed or interrupted run costs at most one of the dumps that are kept, however
\* many runs there are and are kept (cpgeeks-backup.sh:48-67).
THEOREM FailuresCostLittle == BackupSpec => []FailuresCostOneEach
  BY BackupInvCorrect, BackupInvImplies, PTL

\* A run that ended without a failure has its dump where it should be
\* (cpgeeks-backup.sh:63-96).
THEOREM SilenceIsJustified == BackupSpec => []SilenceIsSuccess
  BY BackupInvCorrect, BackupInvImplies, PTL

=============================================================================
