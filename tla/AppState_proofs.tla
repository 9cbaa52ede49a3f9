--------------------------- MODULE AppState_proofs ---------------------------
(***************************************************************************)
(* What holds of RateLimiter for all keys, limits and windows, and that it *)
(* implements WindowLimit; then that the limiter of AppState is that       *)
(* limiter, and what holds of the results kept beside it.                  *)
(***************************************************************************)
EXTENDS AppState, FiniteSetTheorems, TLAPS

USE LimiterAssumption

USE DEF Promise!Hit, Promise!InWindow, Promise!Instants, Hit, InWindow, Instants

\* The window of an earlier instant reaches back further.
LEMMA EarlierWindow ==
  ASSUME NEW S \in SUBSET Hit, NEW at \in Int, NEW later \in Int, at <= later,
         NEW w \in Nat
  PROVE  InWindow(S, later, w) \subseteq InWindow(S, at, w)
  OBVIOUS

\* Part of a finite set.
LEMMA SmallerSet ==
  ASSUME NEW T, NEW S \in SUBSET T, IsFiniteSet(T)
  PROVE  /\ IsFiniteSet(S) /\ Cardinality(S) \in Nat /\ Cardinality(T) \in Nat
         /\ Cardinality(S) <= Cardinality(T)
  BY FS_Subset, FS_CardinalityType

\* WindowLimit counts as this module does.
LEMMA SameCardinality == \A S : Promise!Cardinality(S) = Cardinality(S)
  BY DEF Promise!Cardinality, Cardinality

LEMMA SameFinite == \A S : Promise!IsFiniteSet(S) = IsFiniteSet(S)
  BY DEF Promise!IsFiniteSet, IsFiniteSet

\* A sweep runs only in a crowded map.
LEMMA SweepIsCrowded ==
  ASSUME TypeOK, Overfull
  PROVE  Promise!Crowded
  <1>1. SUFFICES ASSUME IsFiniteSet(Keys), Cardinality(Keys) <= MaxTracked
                 PROVE  FALSE
    BY SameCardinality, SameFinite DEF Promise!Crowded
  <1>2. tracked \subseteq Keys
    BY DEF TypeOK
  <1>3. /\ Cardinality(tracked) \in Nat /\ Cardinality(Keys) \in Nat
        /\ Cardinality(tracked) <= Cardinality(Keys)
    BY <1>1, <1>2, SmallerSet
  <1>4. QED
    BY <1>1, <1>3 DEF Overfull

\* What a sweep loses has a longer window than the caller's.
LEMMA ForgottenBounds ==
  ASSUME LimiterInv, NEW k \in Keys, NEW at \in Instants
  PROVE  /\ Forgotten(k, at) \subseteq Promise!Forgettable(k)
         /\ \A j \in Forgotten(k, at) : Window[k] < Window[j]
         /\ Forgotten(k, at) \cap Kept(k, at) = {}
         /\ \A j \in Forgotten(k, at) : ~SafeFromSweeps(j)
  <1>1. at \in Nat /\ at <= now /\ now \in Nat /\ tracked \subseteq Keys
    BY DEF LimiterInv, TypeOK
  <1>2. ASSUME NEW j \in Forgotten(k, at)
        PROVE  j \in Keys /\ Promise!Crowded /\ Window[k] < Window[j]
    <2>1. /\ j \in tracked /\ j \in Keys /\ j \notin Kept(k, at)
          /\ InWindow(hits[j], now, Window[j]) # {}
      BY <1>1 DEF Forgotten
    <2>2. Overfull /\ ~Survives(j, at, Window[k])
      BY <2>1 DEF Kept
    <2>3. PICK h \in hits[j] : now - h.at < Window[j]
      BY <2>1
    <2>4. h.at \in Nat
      BY <2>1 DEF LimiterInv, TypeOK
    <2>5. at - h.at >= Window[k]
      BY <1>1, <2>2, <2>4 DEF Survives
    <2>6. Window[k] < Window[j]
      BY <1>1, <2>1, <2>3, <2>4, <2>5
    <2>7. QED
      BY <2>1, <2>2, <2>6, SweepIsCrowded DEF LimiterInv
  <1>3. Forgotten(k, at) \subseteq Promise!Forgettable(k)
    BY <1>2 DEF Promise!Forgettable
  <1>4. Forgotten(k, at) \cap Kept(k, at) = {}
    BY DEF Forgotten
  <1>5. \A j \in Forgotten(k, at) : ~SafeFromSweeps(j)
    BY <1>2 DEF SafeFromSweeps
  <1>6. QED
    BY <1>2, <1>3, <1>4, <1>5

\* What a check finds lies between the two windows of WindowLimit.
LEMMA FoundBounds ==
  ASSUME LimiterInv, NEW k \in Keys, NEW at \in Instants
  PROVE  /\ InWindow(log[k], now, Window[k]) \subseteq Found(k, at)
         /\ Found(k, at) \subseteq InWindow(log[k], at, Window[k])
         /\ Found(k, at) \subseteq hits[k]
         /\ at \in Nat /\ at <= now
  <1>1. at \in Nat /\ at <= now /\ now \in Nat
    BY DEF LimiterInv, TypeOK
  <1>2. log[k] \subseteq Hit /\ hits[k] \subseteq log[k]
    BY DEF LimiterInv, TypeOK, MapInv
  <1>3. Found(k, at) \subseteq hits[k]
    BY DEF Found, Fresh
  <1>4. Found(k, at) \subseteq InWindow(log[k], at, Window[k])
    BY <1>2 DEF Found, Fresh
  <1>5. ASSUME NEW h \in InWindow(log[k], now, Window[k])
        PROVE  h \in Found(k, at)
    <2>1. h \in hits[k] /\ k \in tracked
      BY <1>5 DEF LimiterInv, MapInv
    <2>2. h \in InWindow(hits[k], at, Window[k])
      BY <1>1, <1>2, <1>5, <2>1
    <2>3. k \in Kept(k, at)
      BY <2>1, <2>2 DEF Kept, Survives
    <2>4. QED
      BY <2>2, <2>3 DEF Found, Fresh
  <1>6. QED
    BY <1>1, <1>3, <1>4, <1>5

\* The other keys keep every hit that is still in their window, or are forgotten.
LEMMA OthersKept ==
  ASSUME LimiterInv, NEW k \in Keys, NEW at \in Instants,
         NEW j \in Keys, j \notin Forgotten(k, at)
  PROVE  InWindow(log[j], now, Window[j]) # {} => j \in Kept(k, at)
  <1>1. SUFFICES ASSUME NEW h \in InWindow(log[j], now, Window[j])
                 PROVE  j \in Kept(k, at)
    OBVIOUS
  <1>2. h \in hits[j] /\ j \in tracked
    BY DEF LimiterInv, MapInv
  <1>3. h \in InWindow(hits[j], now, Window[j])
    BY <1>1, <1>2
  <1>4. QED
    BY <1>2, <1>3 DEF Forgotten

\* A call let through leaves at most the limit in the window.
LEMMA RoomForOne ==
  ASSUME LimiterInv, NEW k \in Keys, NEW at \in Instants,
         HasRoom(Found(k, at), k)
  PROVE  LET new == Stamp(k, at)
         IN  /\ Cardinality(InWindow(log[k], now, Window[k])) < Limit[k]
             /\ Cardinality(InWindow(log[k] \cup {new}, now, Window[k]))
                    <= Limit[k]
  <1>. DEFINE new == Stamp(k, at)
              W == InWindow(log[k], now, Window[k])
              V == InWindow(log[k] \cup {new}, now, Window[k])
  <1>1. W \subseteq Found(k, at) /\ Found(k, at) \subseteq log[k]
    BY FoundBounds DEF LimiterInv, MapInv
  <1>2. IsFiniteSet(log[k])
    BY DEF LimiterInv, MapInv
  <1>3. /\ IsFiniteSet(Found(k, at)) /\ Cardinality(Found(k, at)) \in Nat
    BY <1>1, <1>2, SmallerSet
  <1>4. /\ IsFiniteSet(W) /\ Cardinality(W) \in Nat
        /\ Cardinality(W) <= Cardinality(Found(k, at))
    BY <1>1, <1>3, SmallerSet
  <1>5. Cardinality(W) < Limit[k]
    BY <1>3, <1>4 DEF HasRoom
  <1>6. V \subseteq W \cup {new}
    OBVIOUS
  <1>. HIDE DEF new, W, V
  <1>7. /\ IsFiniteSet(W \cup {new}) /\ Cardinality(W \cup {new}) \in Nat
        /\ Cardinality(W \cup {new}) <= Cardinality(W) + 1
    <2>1. /\ IsFiniteSet(W \cup {new})
          /\ Cardinality(W \cup {new}) =
                 IF new \in W THEN Cardinality(W) ELSE Cardinality(W) + 1
      BY <1>4, FS_AddElement
    <2>2. QED
      BY <1>4, <2>1
  <1>8. Cardinality(V) \in Nat /\ Cardinality(V) <= Cardinality(W \cup {new})
    BY <1>6, <1>7, SmallerSet
  <1>9. Cardinality(V) <= Limit[k]
    BY <1>4, <1>5, <1>7, <1>8
  <1>10. QED
    BY <1>5, <1>9 DEF W, V, new

-----------------------------------------------------------------------------

\* The empty map satisfies the invariant.
LEMMA InitInv == Init => LimiterInv
  <1>1. SUFFICES ASSUME Init PROVE LimiterInv
    OBVIOUS
  <1>2. TypeOK
    BY <1>1 DEF Init, Promise!LogInit, TypeOK
  <1>3. \A k \in Keys : log[k] = {} /\ hits[k] = {}
    BY <1>1 DEF Init, Promise!LogInit
  <1>4. MapInv
    BY <1>3, FS_EmptySet DEF MapInv
  <1>5. ASSUME NEW k \in Keys
        PROVE  Cardinality(InWindow(log[k], now, Window[k])) <= Limit[k]
    <2>. DEFINE W == InWindow(log[k], now, Window[k])
    <2>1. W = {}
      BY <1>3
    <2>. HIDE DEF W
    <2>2. Cardinality(W) = 0
      BY <2>1, FS_EmptySet
    <2>3. QED
      BY <2>2 DEF W
  <1>6. LogLimited
    BY <1>5 DEF LogLimited
  <1>7. GrantedInv
    BY <1>1, <1>3 DEF Init, GrantedInv
  <1>8. QED
    BY <1>2, <1>4, <1>6, <1>7 DEF LimiterInv

\* A step that drops or ages hits of the log, and keeps those in their window.
LEMMA ShrinkingStep ==
  ASSUME LimiterInv, TypeOK',
         now <= now', calls' = calls,
         \A k \in Keys :
             /\ log'[k] \subseteq log[k]
             /\ hits'[k] \subseteq log'[k]
             /\ InWindow(log'[k], now', Window[k]) \subseteq hits'[k]
             /\ hits'[k] # {} => k \in tracked'
             /\ SafeFromSweeps(k) => granted'[k] = log'[k]
  PROVE  LimiterInv'
  <1>1. now \in Nat /\ now' \in Nat
    BY DEF LimiterInv, TypeOK
  <1>2. ASSUME NEW k \in Keys
        PROVE  /\ IsFiniteSet(log'[k])
               /\ \A h \in log'[k] : h.at <= now' /\ h.id < calls'
               /\ Cardinality(InWindow(log'[k], now', Window[k])) <= Limit[k]
    <2>1. /\ IsFiniteSet(log[k]) /\ log'[k] \subseteq log[k]
          /\ log[k] \subseteq Hit
          /\ \A h \in log[k] : h.at <= now /\ h.id < calls
      BY DEF LimiterInv, MapInv, TypeOK
    <2>2. \A h \in log[k] : h.at \in Nat /\ h.at <= now'
      BY <1>1, <2>1
    <2>3. InWindow(log'[k], now', Window[k])
              \subseteq InWindow(log[k], now, Window[k])
      BY <1>1, <2>1
    <2>4. InWindow(log[k], now, Window[k]) \subseteq log[k]
      OBVIOUS
    <2>5. IsFiniteSet(InWindow(log[k], now, Window[k]))
      BY <2>1, <2>4, FS_Subset
    <2>6. /\ Cardinality(InWindow(log'[k], now', Window[k])) \in Nat
          /\ Cardinality(InWindow(log[k], now, Window[k])) \in Nat
          /\ Cardinality(InWindow(log'[k], now', Window[k]))
                 <= Cardinality(InWindow(log[k], now, Window[k]))
      BY <2>3, <2>5, SmallerSet
    <2>7. Cardinality(InWindow(log[k], now, Window[k])) <= Limit[k]
      BY DEF LimiterInv, LogLimited
    <2>8. Limit[k] \in Nat
      OBVIOUS
    <2>9. Cardinality(InWindow(log'[k], now', Window[k])) <= Limit[k]
      BY <2>6, <2>7, <2>8
    <2>10. QED
      BY <2>1, <2>2, <2>9, FS_Subset
  <1>3. MapInv'
    BY <1>2 DEF MapInv
  <1>4. LogLimited'
    BY <1>2 DEF LogLimited
  <1>5. GrantedInv'
    BY DEF GrantedInv
  <1>6. QED
    BY <1>3, <1>4, <1>5 DEF LimiterInv

\* A check keeps the types.
LEMMA CheckType ==
  ASSUME LimiterInv, NEW k \in Keys, NEW at \in Instants, Check(k, at)
  PROVE  TypeOK'
  <1>1. Found(k, at) \subseteq hits[k] /\ at \in Nat /\ at <= now
    BY FoundBounds
  <1>2. /\ hits \in [Keys -> SUBSET Hit] /\ log \in [Keys -> SUBSET Hit]
        /\ granted \in [Keys -> SUBSET Hit]
        /\ calls \in Nat /\ now \in Nat /\ tracked \subseteq Keys
        /\ \A j \in Keys : \A h \in hits[j] : h.at <= now /\ h.id < calls
    BY DEF LimiterInv, TypeOK
  <1>3. Stamp(k, at) \in Hit /\ Stamp(k, at).at <= now /\ Stamp(k, at).id = calls
    BY <1>1, <1>2 DEF Stamp
  <1>4. /\ tracked' \subseteq Keys /\ calls' \in Nat /\ calls <= calls' /\ now' = now
        /\ log' \in [Keys -> SUBSET Hit] /\ granted' \in [Keys -> SUBSET Hit]
    <2>. DEFINE S == Forgotten(k, at)
    <2>1. Promise!Forgetting(S) \in [Keys -> SUBSET Hit]
      BY <1>2 DEF Promise!Forgetting
    <2>2. [at |-> at, id |-> calls] \in Hit
      BY <1>3 DEF Stamp
    <2>. HIDE DEF S, Hit, Promise!Hit
    <2>3. log' \in [Keys -> SUBSET Hit] /\ granted' \in [Keys -> SUBSET Hit]
      BY <1>2, <2>1, <2>2 DEF Check, S
    <2>4. QED
      BY <1>2, <2>3 DEF Check, Kept
  <1>5. PICK new \in SUBSET {Stamp(k, at)} :
            hits' = Held(k, at, new) /\ (new # {} => calls' = calls + 1)
    BY DEF Check
  <1>6. \A j \in Keys : hits'[j] \subseteq hits[j] \cup new
    BY <1>1, <1>5 DEF Held
  <1>7. hits' \in [Keys -> SUBSET Hit]
    BY <1>2, <1>3, <1>5, <1>6 DEF Held
  <1>8. \A h \in new : h.at <= now /\ h.id < calls'
    BY <1>2, <1>3, <1>5
  <1>9. ASSUME NEW j \in Keys, NEW h \in hits'[j]
        PROVE  h.at <= now' /\ h.id < calls'
    <2>1. CASE h \in new
      BY <1>4, <1>8, <2>1
    <2>2. CASE h \in hits[j]
      <3>1. h \in Hit /\ h.at <= now /\ h.id < calls
        BY <1>2, <2>2
      <3>2. QED
        BY <1>2, <1>4, <3>1
    <2>3. QED
      BY <1>6, <2>1, <2>2
  <1>10. answer' \in Promise!Outcome
    BY <1>1 DEF Check, HasRoom, Promise!Outcome
  <1>11. QED
    BY <1>2, <1>4, <1>7, <1>9, <1>10 DEF TypeOK

\* A check keeps the invariant: the only step that adds to the log.
LEMMA CheckInv ==
  ASSUME LimiterInv, NEW k \in Keys, NEW at \in Instants, Check(k, at)
  PROVE  LimiterInv'
  <1>1. TypeOK' /\ TypeOK
    BY CheckType DEF LimiterInv
  <1>2. /\ InWindow(log[k], now, Window[k]) \subseteq Found(k, at)
        /\ Found(k, at) \subseteq log[k]
        /\ at \in Nat /\ at <= now
    BY FoundBounds DEF LimiterInv, MapInv
  <1>3. now' = now /\ now \in Nat /\ calls \in Nat
    BY DEF Check, LimiterInv, TypeOK
  <1>k. k \notin Forgotten(k, at)
    BY ForgottenBounds
  <1>4. ASSUME NEW j \in Keys, j # k
        PROVE  /\ log'[j] \subseteq log[j]
               /\ hits'[j] \subseteq log'[j]
               /\ InWindow(log'[j], now, Window[j]) \subseteq hits'[j]
               /\ hits'[j] # {} => j \in tracked'
               /\ SafeFromSweeps(j) => granted'[j] = log'[j]
    <2>1. /\ log'[j] = IF j \in Forgotten(k, at) THEN {} ELSE log[j]
          /\ granted'[j] = granted[j]
      BY <1>1, <1>4 DEF Check, TypeOK, Promise!Forgetting
    <2>2. hits'[j] = IF j \in Kept(k, at) THEN hits[j] ELSE {}
      BY <1>4 DEF Check, Held
    <2>3. InWindow(log[j], now, Window[j]) \subseteq hits[j] /\ hits[j] \subseteq log[j]
      BY DEF LimiterInv, MapInv
    <2>4. CASE j \in Forgotten(k, at)
      <3>1. j \notin Kept(k, at) /\ ~SafeFromSweeps(j)
        BY <2>4, ForgottenBounds
      <3>2. log'[j] = {} /\ hits'[j] = {}
        BY <2>1, <2>2, <2>4, <3>1
      <3>3. QED
        BY <3>1, <3>2
    <2>5. CASE j \notin Forgotten(k, at)
      <3>1. InWindow(log[j], now, Window[j]) # {} => j \in Kept(k, at)
        BY <2>5, OthersKept
      <3>2. SafeFromSweeps(j) => granted[j] = log[j]
        BY DEF LimiterInv, GrantedInv
      <3>3. QED
        BY <2>1, <2>2, <2>3, <2>5, <3>1, <3>2 DEF Check
    <2>6. QED
      BY <2>4, <2>5
  <1>5. CASE ~HasRoom(Found(k, at), k)
    <2>1. /\ log'[k] = log[k] /\ granted' = granted
          /\ calls' = calls /\ hits'[k] = Found(k, at) /\ k \in tracked'
      BY <1>1, <1>5, <1>k DEF Check, Held, Promise!Forgetting
    <2>2. \A j \in Keys :
             /\ log'[j] \subseteq log[j]
             /\ hits'[j] \subseteq log'[j]
             /\ InWindow(log'[j], now', Window[j]) \subseteq hits'[j]
             /\ hits'[j] # {} => j \in tracked'
             /\ SafeFromSweeps(j) => granted'[j] = log'[j]
      BY <1>2, <1>3, <1>4, <2>1 DEF LimiterInv, MapInv, GrantedInv
    <2>3. QED
      BY <1>1, <1>3, <2>1, <2>2, ShrinkingStep
  <1>6. CASE HasRoom(Found(k, at), k)
    <2>. DEFINE new == Stamp(k, at)
    <2>1. /\ hits'[k] = Found(k, at) \cup {new}
          /\ log'[k] = log[k] \cup {new}
          /\ granted'[k] = granted[k] \cup {new}
          /\ calls' = calls + 1 /\ k \in tracked'
      BY <1>1, <1>6, <1>k DEF Check, Held, Stamp, TypeOK, Promise!Forgetting
    <2>2. new.at <= now' /\ new.id < calls'
      BY <1>2, <1>3, <2>1 DEF Stamp
    <2>. HIDE DEF new
    <2>3. \A j \in Keys : \A h \in log[j] :
              h \in Hit /\ h.at <= now' /\ h.id < calls'
      BY <1>1, <1>3, <2>1 DEF LimiterInv, MapInv, TypeOK
    <2>4. InWindow(log'[k], now', Window[k]) \subseteq hits'[k]
      BY <1>2, <1>3, <2>1
    <2>5. IsFiniteSet(log'[k])
      <3>1. IsFiniteSet(log[k])
        BY DEF LimiterInv, MapInv
      <3>2. IsFiniteSet(log[k] \cup {new})
        BY <3>1, FS_AddElement
      <3>3. QED
        BY <2>1, <3>2
    <2>6. MapInv'
      <3>1. SUFFICES ASSUME NEW j \in Keys
                     PROVE  /\ InWindow(log'[j], now', Window[j]) \subseteq hits'[j]
                            /\ hits'[j] \subseteq log'[j]
                            /\ IsFiniteSet(log'[j])
                            /\ \A h \in log'[j] : h.at <= now' /\ h.id < calls'
                            /\ hits'[j] # {} => j \in tracked'
        BY DEF MapInv
      <3>2. CASE j = k
        BY <1>2, <2>1, <2>2, <2>3, <2>4, <2>5, <3>2
      <3>3. CASE j # k
        <4>1. /\ log'[j] \subseteq log[j] /\ hits'[j] \subseteq log'[j]
              /\ InWindow(log'[j], now, Window[j]) \subseteq hits'[j]
              /\ hits'[j] # {} => j \in tracked'
          BY <1>4, <3>3
        <4>2. IsFiniteSet(log'[j])
          BY <4>1, FS_Subset DEF LimiterInv, MapInv
        <4>3. QED
          BY <1>3, <2>3, <4>1, <4>2
      <3>4. QED
        BY <3>2, <3>3
    <2>7. LogLimited'
      <3>1. Cardinality(InWindow(log'[k], now', Window[k])) <= Limit[k]
        BY <1>3, <1>6, <2>1, RoomForOne DEF new
      <3>2. ASSUME NEW j \in Keys \ {k}
            PROVE  Cardinality(InWindow(log'[j], now', Window[j])) <= Limit[j]
        <4>1. /\ InWindow(log'[j], now', Window[j]) \subseteq
                    InWindow(log[j], now, Window[j])
              /\ InWindow(log[j], now, Window[j]) \subseteq log[j]
          BY <1>3, <1>4
        <4>2. IsFiniteSet(InWindow(log[j], now, Window[j]))
          BY <4>1, FS_Subset DEF LimiterInv, MapInv
        <4>3. /\ Cardinality(InWindow(log'[j], now', Window[j])) \in Nat
              /\ Cardinality(InWindow(log[j], now, Window[j])) \in Nat
              /\ Cardinality(InWindow(log'[j], now', Window[j]))
                     <= Cardinality(InWindow(log[j], now, Window[j]))
          BY <4>1, <4>2, SmallerSet
        <4>4. Cardinality(InWindow(log[j], now, Window[j])) <= Limit[j]
          BY DEF LimiterInv, LogLimited
        <4>5. Limit[j] \in Nat
          OBVIOUS
        <4>6. QED
          BY <4>3, <4>4, <4>5
      <3>3. QED
        BY <3>1, <3>2 DEF LogLimited
    <2>8. GrantedInv'
      <3>1. SafeFromSweeps(k) => granted[k] = log[k]
        BY DEF LimiterInv, GrantedInv
      <3>2. QED
        BY <1>4, <2>1, <3>1 DEF GrantedInv
    <2>9. QED
      BY <1>1, <2>6, <2>7, <2>8 DEF LimiterInv
  <1>7. QED
    BY <1>5, <1>6

\* Every step keeps the invariant.
LEMMA NextInv ==
  ASSUME LimiterInv, [Next]_vars
  PROVE  LimiterInv'
  <1>1. ASSUME NEW k \in Keys, NEW at \in Instants, Check(k, at)
        PROVE  LimiterInv'
    BY <1>1, CheckInv
  <1>2. ASSUME NEW k \in Keys, NEW at \in Instants, Count(k, at)
        PROVE  LimiterInv'
    <2>1. /\ at \in Nat /\ at <= now /\ now' = now /\ calls' = calls
          /\ log' = log /\ granted' = granted
      BY <1>2 DEF Count, LimiterInv, TypeOK
    <2>2. hits'[k] = Fresh(hits[k], at, k) /\ tracked' = tracked
      BY <1>2 DEF Count, LimiterInv, TypeOK
    <2>3. \A j \in Keys : j # k => hits'[j] = hits[j]
      BY <1>2 DEF Count, LimiterInv, TypeOK
    <2>4. Fresh(hits[k], at, k) \subseteq hits[k]
      BY DEF Fresh
    <2>5. TypeOK'
      BY <1>2, <2>1, <2>4 DEF Count, LimiterInv, TypeOK
    <2>6. InWindow(log[k], now, Window[k]) \subseteq Fresh(hits[k], at, k)
      <3>1. InWindow(log[k], now, Window[k]) \subseteq hits[k] /\ hits[k] \subseteq Hit
        BY DEF LimiterInv, MapInv, TypeOK
      <3>2. now \in Nat
        BY DEF LimiterInv, TypeOK
      <3>3. QED
        BY <2>1, <3>1, <3>2 DEF Fresh
    <2>7. \A j \in Keys :
             /\ log'[j] \subseteq log[j]
             /\ hits'[j] \subseteq log'[j]
             /\ InWindow(log'[j], now', Window[j]) \subseteq hits'[j]
             /\ hits'[j] # {} => j \in tracked'
             /\ SafeFromSweeps(j) => granted'[j] = log'[j]
      BY <2>1, <2>2, <2>3, <2>4, <2>6 DEF LimiterInv, MapInv, GrantedInv
    <2>8. now <= now'
      BY <2>1 DEF LimiterInv, TypeOK
    <2>9. QED
      BY <2>1, <2>5, <2>7, <2>8, ShrinkingStep
  <1>3. ASSUME NEW S \in SUBSET Keys, UNCHANGED <<answer, calls, now>>,
               log' = [k \in Keys |-> IF k \in S THEN {} ELSE log[k]],
               granted' = [k \in Keys |-> IF k \in S THEN {} ELSE granted[k]],
               hits' = [k \in Keys |-> IF k \in S THEN {} ELSE hits[k]],
               tracked' = tracked \ S
        PROVE  LimiterInv'
    <2>1. TypeOK'
      BY <1>3 DEF LimiterInv, TypeOK
    <2>2. now \in Nat /\ now <= now'
      BY <1>3 DEF LimiterInv, TypeOK
    <2>3. \A j \in Keys :
             /\ log'[j] \subseteq log[j]
             /\ hits'[j] \subseteq log'[j]
             /\ InWindow(log'[j], now', Window[j]) \subseteq hits'[j]
             /\ hits'[j] # {} => j \in tracked'
             /\ SafeFromSweeps(j) => granted'[j] = log'[j]
      BY <1>3 DEF LimiterInv, MapInv, GrantedInv
    <2>4. QED
      BY <1>3, <2>1, <2>2, <2>3, ShrinkingStep
  <1>4. ASSUME NEW k \in Keys, Reset(k)
        PROVE  LimiterInv'
    <2>1. /\ log' = [j \in Keys |-> IF j \in {k} THEN {} ELSE log[j]]
          /\ granted' = [j \in Keys |-> IF j \in {k} THEN {} ELSE granted[j]]
          /\ hits' = [j \in Keys |-> IF j \in {k} THEN {} ELSE hits[j]]
      BY <1>4 DEF Reset, LimiterInv, TypeOK
    <2>2. tracked' = tracked \ {k} /\ UNCHANGED <<answer, calls, now>>
      BY <1>4 DEF Reset
    <2>3. QED
      BY <1>3, <2>1, <2>2
  <1>5. ASSUME Restart
        PROVE  LimiterInv'
    <2>1. /\ log' = [j \in Keys |-> IF j \in Keys THEN {} ELSE log[j]]
          /\ granted' = [j \in Keys |-> IF j \in Keys THEN {} ELSE granted[j]]
          /\ hits' = [j \in Keys |-> IF j \in Keys THEN {} ELSE hits[j]]
      BY <1>5 DEF Restart
    <2>2. tracked' = tracked \ Keys /\ UNCHANGED <<answer, calls, now>>
      BY <1>5 DEF Restart, LimiterInv, TypeOK
    <2>3. QED
      BY <1>3, <2>1, <2>2
  <1>6. ASSUME Tick
        PROVE  LimiterInv'
    <2>1. /\ now' = now + 1 /\ now \in Nat
          /\ UNCHANGED <<hits, tracked, log, answer, calls, granted>>
      BY <1>6 DEF Tick, LimiterInv, TypeOK
    <2>2. TypeOK'
      BY <2>1 DEF LimiterInv, TypeOK
    <2>3. \A j \in Keys :
              InWindow(log[j], now + 1, Window[j]) \subseteq InWindow(log[j], now, Window[j])
      BY <2>1 DEF LimiterInv, TypeOK
    <2>4. \A j \in Keys :
             /\ log'[j] \subseteq log[j]
             /\ hits'[j] \subseteq log'[j]
             /\ InWindow(log'[j], now', Window[j]) \subseteq hits'[j]
             /\ hits'[j] # {} => j \in tracked'
             /\ SafeFromSweeps(j) => granted'[j] = log'[j]
      BY <2>1, <2>3 DEF LimiterInv, MapInv, GrantedInv
    <2>5. QED
      BY <2>1, <2>2, <2>4, ShrinkingStep
  <1>7. ASSUME UNCHANGED vars
        PROVE  LimiterInv'
    BY <1>7 DEF vars, LimiterInv, TypeOK, MapInv, LogLimited, GrantedInv
  <1>8. QED
    BY <1>1, <1>2, <1>4, <1>5, <1>6, <1>7 DEF Next

\* The inductive invariant: the map holds every hit still in its window, so that
\* a check counts at least the calls of that window (rate_limit.rs:57-104).
THEOREM InvCorrect == Spec => []LimiterInv
  <1>1. LimiterInv /\ [Next]_vars => LimiterInv'
    BY NextInv
  <1>2. QED
    BY <1>1, InitInv, PTL DEF Spec

\* Every variable keeps its type, and no instant of the map lies ahead of the
\* clock (rate_limit.rs:59, 83).
THEOREM TypeCorrect == Spec => []TypeOK
  BY InvCorrect, PTL DEF LimiterInv

\* No key that a sweep cannot lose gets more calls through than its limit in its
\* window, in whatever order the callers took the lock (rate_limit.rs:57-85).
THEOREM SafeKeysStayLimited == Spec => []SafeKeysAreLimited
  <1>1. LimiterInv => SafeKeysAreLimited
    BY DEF LimiterInv, GrantedInv, LogLimited, SafeKeysAreLimited
  <1>2. QED
    BY <1>1, InvCorrect, PTL

-----------------------------------------------------------------------------

\* Every step of the limiter is one of WindowLimit, or changes nothing there.
LEMMA StepImplements ==
  ASSUME LimiterInv, [Next]_vars
  PROVE  [Promise!LogNext]_(Promise!abstractVars)
  <1>1. ASSUME NEW k \in Keys, NEW at \in Instants, Check(k, at)
        PROVE  Promise!LogCheck(k, at, Forgotten(k, at))
    <2>1. CASE HasRoom(Found(k, at), k)
      <3>1. Cardinality(InWindow(log[k], now, Window[k])) < Limit[k]
        BY <2>1, RoomForOne
      <3>2. QED
        BY <1>1, <2>1, <3>1, SameCardinality DEF Check, Promise!LogCheck
    <2>2. CASE ~HasRoom(Found(k, at), k)
      <3>1. /\ Found(k, at) \subseteq InWindow(log[k], at, Window[k])
            /\ InWindow(log[k], at, Window[k]) \subseteq log[k]
            /\ IsFiniteSet(log[k])
        BY FoundBounds DEF LimiterInv, MapInv
      <3>2. IsFiniteSet(InWindow(log[k], at, Window[k]))
        BY <3>1, FS_Subset
      <3>3. /\ Cardinality(Found(k, at)) \in Nat
            /\ Cardinality(InWindow(log[k], at, Window[k])) \in Nat
            /\ Cardinality(Found(k, at))
                   <= Cardinality(InWindow(log[k], at, Window[k]))
        BY <3>1, <3>2, SmallerSet
      <3>4. Limit[k] \in Nat
        OBVIOUS
      <3>5. Cardinality(InWindow(log[k], at, Window[k])) >= Limit[k]
        BY <2>2, <3>3, <3>4 DEF HasRoom
      <3>6. Promise!Cardinality(InWindow(log[k], at, Window[k])) >= Limit[k]
        BY <3>5, SameCardinality
      <3>. HasRoom(Found(k, at), k) = FALSE
        BY <2>2 DEF HasRoom
      <3>7. /\ answer' = [key |-> k, at |-> at, ok |-> FALSE]
            /\ log' = Promise!Forgetting(Forgotten(k, at))
            /\ UNCHANGED <<calls, now>>
        BY <1>1, <2>2 DEF Check
      <3>8. QED
        BY <3>6, <3>7 DEF Promise!LogCheck
    <2>3. QED
      BY <2>1, <2>2
  <1>2. ASSUME NEW k \in Keys, NEW at \in Instants, Count(k, at)
        PROVE  UNCHANGED Promise!abstractVars
    BY <1>2 DEF Count, Promise!abstractVars
  <1>3. ASSUME NEW k \in Keys, Reset(k)
        PROVE  Promise!LogClear({k})
    BY <1>3 DEF Reset, Promise!LogClear, Promise!Forgetting, LimiterInv, TypeOK
  <1>4. ASSUME Restart
        PROVE  Promise!LogClear(Keys)
    BY <1>4 DEF Restart, Promise!LogClear, Promise!Forgetting
  <1>5. ASSUME Tick
        PROVE  Promise!LogTick
    BY <1>5 DEF Tick, Promise!LogTick
  <1>6. ASSUME UNCHANGED vars
        PROVE  UNCHANGED Promise!abstractVars
    BY <1>6 DEF vars, Promise!abstractVars
  <1>7. QED
    BY <1>1, <1>2, <1>3, <1>4, <1>5, <1>6, ForgottenBounds DEF Next, Promise!LogNext

\* The limiter implements WindowLimit: pruning, sweeping and the order of the
\* callers show in its answers only in that a sweep may lose keys with a longer
\* window than the caller's (rate_limit.rs:57-104).
THEOREM ImplementsPromise == Spec => KeepsPromise
  <1>1. Init => Promise!LogInit
    BY DEF Init
  <1>2. LimiterInv /\ [Next]_vars => [Promise!LogNext]_(Promise!abstractVars)
    BY StepImplements
  <1>3. QED
    BY <1>1, <1>2, InvCorrect, PTL DEF Spec, KeepsPromise, Promise!LogSpec

-----------------------------------------------------------------------------
(* The limiter of AppState, and the results beside it.                     *)

\* What the process does with the limiter is what the limiter allows.
LEMMA AppStepIsOfLimiter == [AppNext]_appVars => [Next]_vars
  <1>. SUFFICES ASSUME [AppNext]_appVars
                PROVE  Next \/ UNCHANGED vars
    OBVIOUS
  <1>1. ASSUME NEW k \in Keys, NEW at \in Instants, Check(k, at) \/ Count(k, at)
        PROVE  Next
    BY <1>1 DEF Next
  <1>2. ASSUME NEW k \in Analyzers, NEW at \in Instants, Analyze(k, at)
        PROVE  Next
    BY <1>1, <1>2, ResultAssumption DEF Analyze
  <1>3. ASSUME NEW k \in Keys \ Analyzers, NEW at \in Instants, OtherCheck(k, at)
        PROVE  Next
    BY <1>1, <1>3 DEF OtherCheck
  <1>4. ASSUME NEW k \in Keys \ Analyzers, OtherReset(k)
        PROVE  Next
    BY <1>4 DEF OtherReset, Next
  <1>5. CASE AppRestart \/ AppTick
    BY <1>5 DEF AppRestart, AppTick, Next
  <1>6. CASE AnalysisFails \/ StoreResult
    BY <1>6 DEF AnalysisFails, StoreResult
  <1>7. ASSUME NEW r \in Results, GetResult(r)
        PROVE  UNCHANGED vars
    BY <1>7 DEF GetResult
  <1>8. CASE UNCHANGED appVars
    BY <1>8 DEF appVars, vars
  <1>9. QED
    BY <1>2, <1>3, <1>4, <1>5, <1>6, <1>7, <1>8 DEF AppNext

\* Every behaviour of the process is one of the limiter, so its limit and its
\* promise hold of the analyses too (ranker_handler.rs:45-49).
THEOREM AppIsLimited == AppSpec => Spec
  <1>1. AppInit => Init
    BY DEF AppInit
  <1>2. QED
    BY <1>1, AppStepIsOfLimiter, PTL DEF AppSpec, Spec

\* The results stored no earlier than the r-th of b.
NotEarlier(b, r) == {s \in DOMAIN b : s # r /\ b[s] >= b[r]}

\* They are finitely many, and a later result does not make them fewer.
LEMMA NotEarlierGrows ==
  ASSUME NEW b \in Seq(Nat), NEW t \in Nat, NEW r \in DOMAIN b
  PROVE  LET c == Append(b, t)
         IN  /\ IsFiniteSet(NotEarlier(b, r)) /\ IsFiniteSet(NotEarlier(c, r))
             /\ Cardinality(NotEarlier(b, r)) \in Nat
             /\ Cardinality(NotEarlier(c, r)) \in Nat
             /\ Cardinality(NotEarlier(b, r)) <= Cardinality(NotEarlier(c, r))
  <1>. DEFINE c == Append(b, t)
  <1>1. /\ DOMAIN b = 1..Len(b) /\ DOMAIN c = 1..(Len(b) + 1) /\ Len(b) \in Nat
        /\ \A s \in DOMAIN b : c[s] = b[s]
    OBVIOUS
  <1>2. IsFiniteSet(1..(Len(b) + 1))
    <2>1. 1 \in Int /\ Len(b) + 1 \in Int
      BY <1>1
    <2>2. QED
      BY <2>1, FS_Interval, ZenonT(60)
  <1>3. NotEarlier(b, r) \subseteq NotEarlier(c, r)
    BY <1>1 DEF NotEarlier
  <1>4. NotEarlier(c, r) \subseteq 1..(Len(b) + 1)
    BY <1>1 DEF NotEarlier
  <1>. HIDE DEF c
  <1>5. IsFiniteSet(NotEarlier(c, r)) /\ Cardinality(NotEarlier(c, r)) \in Nat
    BY <1>2, <1>4, FS_Subset, FS_CardinalityType
  <1>6. QED
    BY <1>3, <1>5, SmallerSet DEF c

\* What stays when room is made leaves a place, and loses only to the rest.
LEMMA RoomIsMade ==
  ASSUME NEW live, IsFiniteSet(live), NEW stay \in SUBSET live,
         MakesRoom(stay, live)
  PROVE  /\ IsFiniteSet(stay) /\ Cardinality(stay) \in Nat
         /\ Cardinality(stay) + 1 <= MaxResults
         /\ stay # live => Cardinality(stay) + 1 = MaxResults
  <1>1. /\ IsFiniteSet(stay) /\ Cardinality(stay) \in Nat
        /\ Cardinality(live) \in Nat
        /\ Cardinality(stay) = Cardinality(live) => stay = live
    BY FS_Subset, FS_CardinalityType
  <1>2. QED
    BY <1>1, ResultAssumption DEF MakesRoom

\* Storing a result keeps the invariant: what is dropped alive is outnumbered by
\* what stays and the new result.
LEMMA StoreKeeps ==
  ASSUME CacheInv, StoreResult
  PROVE  /\ kept' \subseteq Results'
         /\ LostOnlyToNewer'
         /\ CacheIsBounded'
  <1>. DEFINE live == {r \in kept : Alive(r)}
              new == Len(born) + 1
              fresh == Append(born, now)
  <1>1. PICK stay \in SUBSET kept :
          MakesRoom(stay, live) /\ stay \subseteq live /\ kept' = stay \cup {new}
    BY DEF StoreResult
  <1>2. /\ now \in Nat /\ born \in Seq(Nat) /\ kept \subseteq Results
        /\ \A r \in Results : born[r] <= now /\ born[r] \in Nat
        /\ born' = fresh /\ now' = now
    BY DEF CacheInv, AppTypeOK, TypeOK, StoreResult, vars, Results
  <1>3. /\ Results = 1..Len(born) /\ DOMAIN fresh = 1..new /\ Len(born) \in Nat
        /\ fresh \in Seq(Nat) /\ fresh[new] = now
        /\ \A r \in Results : fresh[r] = born[r]
    BY <1>2 DEF Results
  <1>4. IsFiniteSet(live)
    <2>1. live \subseteq 1..Len(born)
      BY <1>2, <1>3
    <2>2. IsFiniteSet(1..Len(born))
      BY <1>3, FS_Interval
    <2>3. QED
      BY <2>1, <2>2, FS_Subset
  <1>. HIDE DEF live, new, fresh
  <1>5. /\ IsFiniteSet(stay) /\ Cardinality(stay) \in Nat
        /\ Cardinality(stay) + 1 <= MaxResults
        /\ stay # live => Cardinality(stay) + 1 = MaxResults
    BY <1>1, <1>4, RoomIsMade
  <1>6. new \notin stay
    BY <1>1, <1>2, <1>3 DEF new
  <1>7. /\ IsFiniteSet(stay \cup {new})
        /\ Cardinality(stay \cup {new}) = Cardinality(stay) + 1
    BY <1>5, <1>6, FS_AddElement
  <1>8. kept' \subseteq Results'
    BY <1>1, <1>2, <1>3 DEF Results, new
  <1>9. CacheIsBounded'
    BY <1>1, <1>5, <1>7 DEF CacheIsBounded
  <1>10. ASSUME NEW r \in DOMAIN fresh, now - fresh[r] < ResultLife, r \notin kept'
         PROVE  Cardinality(NotEarlier(fresh, r)) >= MaxResults
    <2>1. r \in Results /\ fresh[r] = born[r] /\ born[r] \in Nat
      BY <1>1, <1>2, <1>3, <1>10 DEF new
    <2>2. r \in DOMAIN born /\ Alive(r)
      BY <1>10, <2>1 DEF Alive, Results
    <2>3. /\ IsFiniteSet(NotEarlier(fresh, r))
          /\ Cardinality(NotEarlier(born, r)) \in Nat
          /\ Cardinality(NotEarlier(fresh, r)) \in Nat
          /\ Cardinality(NotEarlier(born, r)) <= Cardinality(NotEarlier(fresh, r))
      BY <1>2, <2>2, NotEarlierGrows DEF fresh
    <2>4. CASE r \notin kept
      <3>1. Cardinality(NotEarlier(born, r)) >= MaxResults
        BY <2>1, <2>2, <2>4 DEF CacheInv, LostOnlyToNewer, NotEarlier, Results
      <3>2. QED
        BY <2>3, <3>1, ResultAssumption
    <2>5. CASE r \in kept
      <3>1. r \in live \ stay
        BY <1>1, <1>10, <2>2, <2>5 DEF live
      <3>2. \A s \in stay : born[r] <= born[s]
        BY <1>1, <3>1 DEF MakesRoom
      <3>3. \A s \in stay : s \in Results /\ fresh[s] = born[s] /\ born[s] \in Nat
        BY <1>1, <1>2, <1>3 DEF live
      <3>4. stay \subseteq NotEarlier(fresh, r)
        BY <1>3, <2>1, <3>1, <3>2, <3>3 DEF NotEarlier, new
      <3>5. new \in NotEarlier(fresh, r)
        BY <1>1, <1>2, <1>3, <1>10, <2>1 DEF NotEarlier, new
      <3>6. Cardinality(stay \cup {new}) <= Cardinality(NotEarlier(fresh, r))
        BY <2>3, <3>4, <3>5, FS_Subset
      <3>7. Cardinality(stay) + 1 = MaxResults
        BY <1>5, <3>1
      <3>8. QED
        BY <1>5, <1>7, <2>3, <3>6, <3>7
    <2>6. QED
      BY <2>4, <2>5
  <1>11. LostOnlyToNewer'
    BY <1>2, <1>10 DEF LostOnlyToNewer, Alive, Results, NotEarlier
  <1>12. QED
    BY <1>8, <1>9, <1>11

\* The type invariant of the results, but for the part of the limiter.
LEMMA ResultTypes ==
  ASSUME CacheInv, [AppNext]_appVars, TypeOK', kept' \subseteq Results'
  PROVE  AppTypeOK'
  <1>1. /\ running \in Nat /\ born \in Seq(Nat) /\ now \in Nat
        /\ \A r \in Results : born[r] <= now
    BY DEF CacheInv, AppTypeOK, TypeOK
  <1>2. CASE born' = born /\ (now' = now \/ now' = now + 1) /\ running' \in Nat
    BY <1>1, <1>2 DEF AppTypeOK, Results
  <1>3. CASE AppRestart
    <2>1. born' = <<>> /\ running' = 0
      BY <1>3 DEF AppRestart
    <2>2. QED
      BY <2>1 DEF AppTypeOK, Results
  <1>4. CASE StoreResult
    <2>1. born' = Append(born, now) /\ now' = now /\ running' \in Nat
      BY <1>1, <1>4 DEF StoreResult, vars
    <2>2. /\ born' \in Seq(Nat) /\ DOMAIN born' = 1..(Len(born) + 1)
          /\ born'[Len(born) + 1] = now /\ DOMAIN born = 1..Len(born)
          /\ \A r \in DOMAIN born : born'[r] = born[r]
      BY <1>1, <2>1
    <2>3. \A r \in Results' : born'[r] <= now'
      BY <1>1, <2>1, <2>2 DEF Results
    <2>4. QED
      BY <2>1, <2>2, <2>3 DEF AppTypeOK
  <1>5. ASSUME NEW k \in Keys, NEW at \in Instants, Analyze(k, at)
        PROVE  born' = born /\ now' = now /\ running' \in Nat
    BY <1>1, <1>5 DEF Analyze, Check
  <1>6. ASSUME NEW k \in Keys, NEW at \in Instants, OtherCheck(k, at)
        PROVE  born' = born /\ now' = now /\ running' \in Nat
    BY <1>1, <1>6 DEF OtherCheck, Check, Count
  <1>7. CASE \/ AnalysisFails \/ \E r \in Results : GetResult(r)
             \/ \E k \in Keys \ Analyzers : OtherReset(k)
             \/ AppTick \/ UNCHANGED appVars
    BY <1>1, <1>2, <1>7
    DEF AnalysisFails, GetResult, OtherReset, Reset, AppTick, Tick, appVars, vars
  <1>8. QED
    BY <1>2, <1>3, <1>4, <1>5, <1>6, <1>7, ResultAssumption DEF AppNext

\* A step that stores nothing and forgets nothing alive keeps what is lost.
LEMMA OtherStepsKeep ==
  ASSUME CacheInv, [AppNext]_appVars, ~StoreResult, ~AppRestart
  PROVE  /\ kept' \subseteq Results'
         /\ LostOnlyToNewer'
         /\ CacheIsBounded'
  <1>1. /\ now \in Nat /\ born \in Seq(Nat) /\ kept \subseteq Results
        /\ \A r \in Results : born[r] \in Nat
    BY DEF CacheInv, AppTypeOK, TypeOK, Results
  <1>2. /\ born' = born /\ (now' = now \/ now' = now + 1)
        /\ kept' \subseteq kept
        /\ \A r \in kept \ kept' : ~Alive(r)
    <2>1. CASE \/ \E k \in Analyzers, at \in Instants : Analyze(k, at)
               \/ \E k \in Keys \ Analyzers, at \in Instants : OtherCheck(k, at)
               \/ \E k \in Keys \ Analyzers : OtherReset(k)
      BY <2>1 DEF Analyze, OtherCheck, OtherReset, Check, Count, Reset
    <2>2. CASE \E r \in Results : GetResult(r)
      BY <2>2 DEF GetResult, vars
    <2>3. CASE AnalysisFails \/ AppTick \/ UNCHANGED appVars
      BY <2>3 DEF AnalysisFails, AppTick, Tick, appVars, vars
    <2>4. QED
      BY <2>1, <2>2, <2>3 DEF AppNext
  <1>3. kept' \subseteq Results'
    BY <1>1, <1>2 DEF Results
  <1>4. LostOnlyToNewer'
    <2>1. ASSUME NEW r \in Results, now' - born[r] < ResultLife, r \notin kept'
          PROVE  Cardinality({s \in Results : s # r /\ born[s] >= born[r]})
                     >= MaxResults
      <3>1. Alive(r)
        BY <1>1, <1>2, <2>1, ResultAssumption DEF Alive
      <3>2. QED
        BY <1>2, <2>1, <3>1 DEF CacheInv, LostOnlyToNewer
    <2>2. QED
      BY <1>2, <2>1 DEF LostOnlyToNewer, Alive, Results
  <1>5. CacheIsBounded'
    <2>1. kept \subseteq 1..Len(born) /\ Len(born) \in Nat
      BY <1>1 DEF Results
    <2>2. IsFiniteSet(1..Len(born))
      BY <2>1, FS_Interval
    <2>. IsFiniteSet(kept)
      BY <2>1, <2>2, FS_Subset
    <2>3. /\ Cardinality(kept') \in Nat /\ Cardinality(kept) \in Nat
          /\ Cardinality(kept') <= Cardinality(kept)
      BY <1>2, SmallerSet
    <2>4. QED
      BY <2>3, ResultAssumption DEF CacheInv, CacheIsBounded
  <1>6. QED
    BY <1>3, <1>4, <1>5

\* The invariant of the results is inductive beside that of the limiter.
LEMMA AppNextInv ==
  ASSUME CacheInv, [AppNext]_appVars, TypeOK'
  PROVE  CacheInv'
  <1>1. /\ kept' \subseteq Results' /\ LostOnlyToNewer' /\ CacheIsBounded'
    <2>1. CASE AppRestart
      <3>1. born' = <<>> /\ kept' = {}
        BY <2>1 DEF AppRestart
      <3>2. QED
        BY <3>1, FS_EmptySet, ResultAssumption
        DEF LostOnlyToNewer, CacheIsBounded, Results
    <2>2. QED
      BY <2>1, StoreKeeps, OtherStepsKeep
  <1>2. QED
    BY <1>1, ResultTypes DEF CacheInv

\* Types, no result with an instant ahead of the clock, a result downloadable
\* for its life unless outnumbered by no older ones, and the cap: together they
\* are inductive (app_state.rs:44-84).
THEOREM AppInvCorrect == AppSpec => []CacheInv
  <1>1. AppInit => TypeOK
    BY InitInv DEF AppInit, LimiterInv
  <1>2. AppInit => CacheInv
    BY <1>1, FS_EmptySet, ResultAssumption
    DEF AppInit, CacheInv, AppTypeOK, LostOnlyToNewer, CacheIsBounded, Results
  <1>3. AppSpec => []TypeOK
    BY AppIsLimited, TypeCorrect, PTL
  <1>4. CacheInv /\ [AppNext]_appVars /\ TypeOK' => CacheInv'
    BY AppNextInv
  <1>5. QED
    BY <1>2, <1>3, <1>4, PTL DEF AppSpec

\* Types of the process's memory (app_state.rs:14-26).
THEOREM AppTypeCorrect == AppSpec => []AppTypeOK
  BY AppInvCorrect, PTL DEF CacheInv

\* A result stays for its life unless as many as the cache holds are stored no
\* earlier than it (app_state.rs:44-64).
THEOREM ResultsAreLostToNewer == AppSpec => []LostOnlyToNewer
  BY AppInvCorrect, PTL DEF CacheInv

\* The cache never exceeds its cap (app_state.rs:51-63).
THEOREM CacheStaysBounded == AppSpec => []CacheIsBounded
  BY AppInvCorrect, PTL DEF CacheInv

=============================================================================
