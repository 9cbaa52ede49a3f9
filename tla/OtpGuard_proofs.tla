--------------------------- MODULE OtpGuard_proofs ---------------------------
(***************************************************************************)
(* What holds of OtpGuard for every number of codes and requests, every    *)
(* limit and every window.                                                 *)
(***************************************************************************)
EXTENDS OtpGuard, FiniteSetTheorems, TLAPS

USE NoCodeAssumption, BoundAssumption, LifeAssumption

\* The limiter counts as this module does.
LEMMA SameCardinality == \A S : Limiter!Cardinality(S) = Cardinality(S)
  BY DEF Limiter!Cardinality, Cardinality

\* Part of a finite set.
LEMMA SmallerSet ==
  ASSUME NEW T, NEW S \in SUBSET T, IsFiniteSet(T)
  PROVE  /\ IsFiniteSet(S) /\ Cardinality(S) \in Nat /\ Cardinality(T) \in Nat
         /\ Cardinality(S) <= Cardinality(T)
  BY FS_Subset, FS_CardinalityType

\* A set whose members are all equal has at most one.
LEMMA AtMostOne ==
  ASSUME NEW S, \A x, y \in S : x = y
  PROVE  Cardinality(S) <= 1
  <1>1. CASE S = {}
    BY <1>1, FS_EmptySet
  <1>2. CASE S # {}
    <2>1. PICK x \in S : S = {x}
      BY <1>2
    <2>2. Cardinality({x}) = 1
      BY FS_Singleton
    <2>3. QED
      BY <2>1, <2>2
  <1>3. QED
    BY <1>1, <1>2

\* The values the handlers write.
LEMMA ConstantTypes ==
  /\ Idle \in Request /\ NoRow \in CodeRow
  /\ \A row \in CodeRow : Invalidated(row) \in CodeRow
  /\ \A row \in CodeRow, h \in Hit :
         [row EXCEPT !.wrong = @ \cup {h}] \in CodeRow
  /\ \A row \in CodeRow :
         [row EXCEPT !.state = "used", !.accepted = @ + 1] \in CodeRow
  <1>1. Idle \in Request
    BY DEF Idle, Request, Phase
  <1>2. NoRow \in CodeRow
    BY DEF NoRow, CodeRow
  <1>3. \A row \in CodeRow : Invalidated(row) \in CodeRow
    BY DEF Invalidated, CodeRow
  <1>4. \A row \in CodeRow, h \in Hit :
            [row EXCEPT !.wrong = @ \cup {h}] \in CodeRow
    BY DEF CodeRow
  <1>5. \A row \in CodeRow :
            [row EXCEPT !.state = "used", !.accepted = @ + 1] \in CodeRow
    <2>1. TAKE row \in CodeRow
    <2>2. row.accepted + 1 \in Nat
      BY DEF CodeRow
    <2>3. [row EXCEPT !.state = "used"] \in CodeRow
      BY DEF CodeRow
    <2>4. QED
      BY <2>2, <2>3 DEF CodeRow
  <1>6. QED
    BY <1>1, <1>2, <1>3, <1>4, <1>5

-----------------------------------------------------------------------------
(* The steps of the limiter.                                               *)

LEMMA ForgettingNothing == TypeOK => Limiter!Forgetting({}) = log
  BY DEF TypeOK, Limiter!Forgetting

\* A call for "send" leaves the wrong guesses alone.
LEMMA SendCheck ==
  ASSUME TypeOK, Limiter!LogCheck("send", now, {})
  PROVE  /\ log' \in [Keys -> SUBSET Hit] /\ calls' \in Nat /\ now' = now
         /\ answer' \in Limiter!Outcome /\ log'["attempt"] = log["attempt"]
  <1>1. [at |-> now, id |-> calls] \in Hit /\ "send" \in Keys
    BY DEF TypeOK, Hit, Limiter!Hit, Keys
  <1>2. /\ now' = now
        /\ \/ /\ log' = [log EXCEPT !["send"] = @ \cup {[at |-> now, id |-> calls]}]
              /\ calls' = calls + 1
              /\ answer' = [key |-> "send", at |-> now, ok |-> TRUE]
           \/ /\ answer' = [key |-> "send", at |-> now, ok |-> FALSE]
              /\ log' = log /\ calls' = calls
    BY ForgettingNothing DEF Limiter!LogCheck
  <1>3. answer' \in Limiter!Outcome
    <2>1. /\ [key |-> "send", at |-> now, ok |-> TRUE] \in Limiter!Outcome
          /\ [key |-> "send", at |-> now, ok |-> FALSE] \in Limiter!Outcome
      BY <1>1 DEF TypeOK, Limiter!Outcome
    <2>2. QED
      BY <1>2, <2>1
  <1>4. log' \in [Keys -> SUBSET Hit] /\ log'["attempt"] = log["attempt"]
    BY <1>1, <1>2 DEF TypeOK, Keys
  <1>5. QED
    BY <1>2, <1>3, <1>4 DEF TypeOK

\* A call for "attempt" is logged if it is let through.
LEMMA AttemptCheck ==
  ASSUME TypeOK, Limiter!LogCheck("attempt", now, {})
  PROVE  /\ log' \in [Keys -> SUBSET Hit] /\ calls' \in Nat /\ now' = now
         /\ answer' \in Limiter!Outcome
         /\ [at |-> now, id |-> calls] \in Hit
         /\ \/ /\ answer'.ok
               /\ Cardinality(Limiter!InWindow(log["attempt"], now, AttemptWindow))
                      < MaxAttempts
               /\ log'["attempt"] = log["attempt"] \cup {[at |-> now, id |-> calls]}
            \/ ~answer'.ok /\ log'["attempt"] = log["attempt"]
  <1>1. [at |-> now, id |-> calls] \in Hit /\ "attempt" \in Keys
    BY DEF TypeOK, Hit, Limiter!Hit, Keys
  <1>2. /\ now' = now
        /\ \/ /\ Cardinality(Limiter!InWindow(log["attempt"], now, AttemptWindow))
                     < MaxAttempts
              /\ log' = [log EXCEPT !["attempt"] = @ \cup {[at |-> now, id |-> calls]}]
              /\ calls' = calls + 1
              /\ answer' = [key |-> "attempt", at |-> now, ok |-> TRUE]
           \/ /\ answer' = [key |-> "attempt", at |-> now, ok |-> FALSE]
              /\ log' = log /\ calls' = calls
    BY <1>1, SameCardinality, ForgettingNothing DEF Limiter!LogCheck
  <1>3. answer' \in Limiter!Outcome
    <2>1. /\ [key |-> "attempt", at |-> now, ok |-> TRUE] \in Limiter!Outcome
          /\ [key |-> "attempt", at |-> now, ok |-> FALSE] \in Limiter!Outcome
      BY <1>1 DEF TypeOK, Limiter!Outcome
    <2>2. QED
      BY <1>2, <2>1
  <1>4. log' \in [Keys -> SUBSET Hit]
    BY <1>1, <1>2 DEF TypeOK
  <1>5. QED
    BY <1>1, <1>2, <1>3, <1>4 DEF TypeOK

\* The limit holds after a call let through.
LEMMA AttemptCounted ==
  ASSUME TypeOK, AttemptsLogged, Limiter!LogCheck("attempt", now, {})
  PROVE  AttemptsLogged'
  <1>. DEFINE new == [at |-> now, id |-> calls]
              W == Limiter!InWindow(log["attempt"], now, AttemptWindow)
              V == Limiter!InWindow(log'["attempt"], now, AttemptWindow)
  <1>0. now \in Nat /\ now' = now /\ log["attempt"] \subseteq Hit
    BY AttemptCheck DEF TypeOK, Keys
  <1>1. CASE log'["attempt"] = log["attempt"]
    BY <1>0, <1>1 DEF AttemptsLogged
  <1>2. CASE /\ Cardinality(W) < MaxAttempts
             /\ log'["attempt"] = log["attempt"] \cup {new}
    <2>1. V \subseteq W \cup {new} /\ W \subseteq log["attempt"]
      BY <1>2 DEF Limiter!InWindow
    <2>2. \A h \in log'["attempt"] : h.at <= now
      BY <1>0, <1>2 DEF AttemptsLogged
    <2>. HIDE DEF new, W, V
    <2>3. IsFiniteSet(log["attempt"])
      BY DEF AttemptsLogged
    <2>4. IsFiniteSet(W) /\ Cardinality(W) \in Nat
      BY <2>1, <2>3, SmallerSet
    <2>5. /\ IsFiniteSet(W \cup {new})
          /\ Cardinality(W \cup {new}) =
                 IF new \in W THEN Cardinality(W) ELSE Cardinality(W) + 1
      BY <2>4, FS_AddElement
    <2>6. Cardinality(V) \in Nat /\ Cardinality(V) <= Cardinality(W \cup {new})
      BY <2>1, <2>5, SmallerSet
    <2>7. Cardinality(V) <= MaxAttempts
      BY <1>2, <2>4, <2>5, <2>6
    <2>8. IsFiniteSet(log'["attempt"])
      BY <1>2, <2>3, FS_AddElement
    <2>9. QED
      BY <1>0, <2>2, <2>7, <2>8 DEF AttemptsLogged, V
  <1>3. QED
    BY <1>1, <1>2, AttemptCheck

\* Clearing "attempt" empties its log.
LEMMA AttemptsCleared ==
  ASSUME TypeOK, NEW S \in SUBSET Keys, "attempt" \in S, Limiter!LogClear(S)
  PROVE  /\ log' \in [Keys -> SUBSET Hit] /\ UNCHANGED <<answer, calls, now>>
         /\ log'["attempt"] = {} /\ AttemptsLogged'
  <1>1. /\ log' \in [Keys -> SUBSET Hit] /\ UNCHANGED <<answer, calls, now>>
        /\ log'["attempt"] = {}
    BY DEF TypeOK, Limiter!LogClear, Limiter!Forgetting, Keys
  <1>2. Limiter!InWindow(log'["attempt"], now', AttemptWindow) = {}
    BY <1>1 DEF Limiter!InWindow
  <1>3. Cardinality(Limiter!InWindow(log'["attempt"], now', AttemptWindow)) = 0
    BY <1>2, FS_EmptySet
  <1>4. IsFiniteSet(log'["attempt"]) /\ \A h \in log'["attempt"] : h.at <= now'
    BY <1>1, FS_EmptySet
  <1>5. QED
    BY <1>1, <1>3, <1>4 DEF AttemptsLogged

\* As the clock moves, hits only leave the window.
LEMMA AttemptsAge ==
  ASSUME TypeOK, AttemptsLogged, Limiter!LogTick
  PROVE  AttemptsLogged'
  <1>1. /\ now' = now + 1 /\ now \in Nat /\ log' = log
        /\ log["attempt"] \subseteq Hit
    BY DEF TypeOK, Limiter!LogTick, Keys
  <1>2. Limiter!InWindow(log["attempt"], now + 1, AttemptWindow)
            \subseteq Limiter!InWindow(log["attempt"], now, AttemptWindow)
    BY <1>1 DEF Limiter!InWindow, Hit, Limiter!Hit
  <1>3. /\ IsFiniteSet(log["attempt"])
        /\ Limiter!InWindow(log["attempt"], now, AttemptWindow) \subseteq log["attempt"]
    BY DEF AttemptsLogged, Limiter!InWindow
  <1>4. IsFiniteSet(Limiter!InWindow(log["attempt"], now, AttemptWindow))
    BY <1>3, FS_Subset
  <1>5. /\ Cardinality(Limiter!InWindow(log["attempt"], now + 1, AttemptWindow)) \in Nat
        /\ Cardinality(Limiter!InWindow(log["attempt"], now, AttemptWindow)) \in Nat
        /\ Cardinality(Limiter!InWindow(log["attempt"], now + 1, AttemptWindow))
              <= Cardinality(Limiter!InWindow(log["attempt"], now, AttemptWindow))
    BY <1>2, <1>4, SmallerSet
  <1>6. \A h \in log["attempt"] : h.at <= now + 1
    BY <1>1 DEF AttemptsLogged, Hit, Limiter!Hit
  <1>7. Cardinality(Limiter!InWindow(log["attempt"], now + 1, AttemptWindow))
            <= MaxAttempts
    BY <1>5 DEF AttemptsLogged
  <1>8. QED
    BY <1>1, <1>3, <1>6, <1>7 DEF AttemptsLogged

-----------------------------------------------------------------------------
(* Types.                                                                  *)

\* The first state.
LEMMA InitType == Init => TypeOK
  <1>1. SUFFICES ASSUME Init PROVE TypeOK
    OBVIOUS
  <1>2. codes \in [Codes -> CodeRow] /\ reqs \in [Requests -> Request]
    BY <1>1, ConstantTypes DEF Init
  <1>3. log \in [Keys -> SUBSET Hit] /\ calls \in Nat /\ now \in Nat
    BY <1>1 DEF Init, Limiter!LogInit
  <1>4. answer = Limiter!NoAnswer
    BY <1>1 DEF Init, Limiter!LogInit
  <1>5. QED
    BY <1>2, <1>3, <1>4 DEF TypeOK

\* Every step of a request keeps the types.
LEMMA StepType ==
  ASSUME TypeOK, NEW r \in Requests, Step(r)
  PROVE  TypeOK'
  <1>0. /\ reqs[r] \in Request /\ codes \in [Codes -> CodeRow]
        /\ reqs \in [Requests -> Request]
        /\ \A c \in Codes : codes[c] \in CodeRow
    BY DEF TypeOK
  <1>1. ASSUME Done(r) PROVE reqs' \in [Requests -> Request]
    BY <1>0, <1>1, ConstantTypes DEF Done
  <1>2. ASSUME NEW p \in Phase, Goto(r, p) PROVE reqs' \in [Requests -> Request]
    BY <1>0, <1>2 DEF Goto, Request
  <1>3. ASSUME codes' = [c \in Codes |-> Invalidated(codes[c])]
        PROVE  codes' \in [Codes -> CodeRow]
    BY <1>0, <1>3, ConstantTypes
  <1>4. ASSUME codes' = Forgiven PROVE codes' \in [Codes -> CodeRow]
    BY <1>0, <1>4 DEF Forgiven, CodeRow
  <1>5. ASSUME UNCHANGED limiterVars, codes' \in [Codes -> CodeRow],
               reqs' \in [Requests -> Request]
        PROVE  TypeOK'
    BY <1>5 DEF TypeOK, limiterVars
  <1>6. ASSUME NEW c \in Codes, SendBegin(r, c) PROVE TypeOK'
    <2>1. reqs' \in [Requests -> Request]
      <3>1. [Idle EXCEPT !.phase = "invalidate", !.code = c] \in Request
        BY DEF Idle, Request, Phase
      <3>2. QED
        BY <1>0, <1>6, <3>1 DEF SendBegin
    <2>2. QED
      BY <1>6, <2>1, SendCheck DEF SendBegin, TypeOK
  <1>7. ASSUME StoreInvalidate(r) PROVE TypeOK'
    BY <1>2, <1>3, <1>5, <1>7 DEF StoreInvalidate, Phase
  <1>8. ASSUME StoreInsert(r) PROVE TypeOK'
    <2>1. now + CodeLife \in Nat /\ reqs[r].overlapped \in BOOLEAN
      BY <1>0 DEF TypeOK, Request
    <2>2. [NoRow EXCEPT !.state = "live", !.expires = now + CodeLife,
                        !.overlapped = reqs[r].overlapped] \in CodeRow
      BY <2>1 DEF NoRow, CodeRow
    <2>3. codes' \in [Codes -> CodeRow]
      BY <1>0, <1>8, <2>2 DEF StoreInsert
    <2>4. \A q \in Requests :
              /\ [reqs[q] EXCEPT !.phase = "mail"] \in Request
              /\ [reqs[q] EXCEPT !.overlapped = TRUE] \in Request
      BY <1>0 DEF Request, Phase
    <2>5. reqs' \in [Requests -> Request]
      BY <1>0, <1>8, <2>4 DEF StoreInsert
    <2>6. QED
      BY <1>5, <1>8, <2>3, <2>5 DEF StoreInsert
  <1>9. ASSUME Mail(r) PROVE TypeOK'
    <2>1. codes' \in [Codes -> CodeRow]
      <3>1. PICK sent \in BOOLEAN : codes' = [codes EXCEPT ![reqs[r].code].mailed = sent]
        BY <1>9 DEF Mail
      <3>2. \A c \in Codes : [codes[c] EXCEPT !.mailed = sent] \in CodeRow
        BY <1>0 DEF CodeRow
      <3>3. QED
        BY <1>0, <3>1, <3>2
    <2>2. QED
      BY <1>1, <1>5, <1>9, <2>1 DEF Mail
  <1>10. ASSUME NEW guess \in Codes \cup {NoCode}, GuardCheck(r, guess) PROVE TypeOK'
    <2>1. reqs' \in [Requests -> Request]
      <3>1. [Idle EXCEPT !.phase = "verify", !.code = guess,
                         !.hit = [at |-> now, id |-> calls]] \in Request
        BY <1>10, AttemptCheck DEF GuardCheck, Admit, Idle, Request, Phase
      <3>2. QED
        BY <1>0, <1>10, <3>1 DEF GuardCheck, Admit
    <2>2. QED
      BY <1>10, <2>1, AttemptCheck DEF GuardCheck, Admit, TypeOK
  <1>11. ASSUME VerifyRow(r) PROVE TypeOK'
    <2>. DEFINE guess == reqs[r].code
                hit == reqs[r].hit
    <2>1. hit \in Hit \cup {NoHit}
      BY <1>0 DEF Request
    <2>2. CASE /\ codes' = [codes EXCEPT ![guess].state = "used", ![guess].accepted = @ + 1]
               /\ Goto(r, "reset")
      <3>1. codes' \in [Codes -> CodeRow]
        <4>1. \A c \in Codes : codes'[c] =
                 IF c = guess THEN [codes[c] EXCEPT !.state = "used", !.accepted = @ + 1]
                 ELSE codes[c]
          BY <1>0, <2>2
        <4>2. DOMAIN codes' = Codes /\ codes' = [c \in DOMAIN codes' |-> codes'[c]]
          BY <1>0, <2>2
        <4>3. \A c \in Codes : codes'[c] \in CodeRow
          BY <1>0, <4>1, ConstantTypes
        <4>4. QED
          BY <4>2, <4>3
      <3>2. QED
        BY <1>2, <1>5, <1>11, <2>2, <3>1 DEF VerifyRow, Phase
    <2>3. CASE /\ codes' = [c \in Codes |->
                      IF Live(c) /\ hit # NoHit
                      THEN [codes[c] EXCEPT !.wrong = @ \cup {hit}] ELSE codes[c]]
               /\ Goto(r, "count")
      <3>1. codes' \in [Codes -> CodeRow]
        BY <1>0, <2>1, <2>3, ConstantTypes
      <3>2. QED
        BY <1>2, <1>5, <1>11, <2>3, <3>1 DEF VerifyRow, Phase
    <2>4. QED
      BY <1>11, <2>2, <2>3 DEF VerifyRow
  <1>12. ASSUME ResetAttempts(r) PROVE TypeOK'
    <2>1. reqs' \in [Requests -> Request]
      BY <1>0, <1>12, ConstantTypes DEF ResetAttempts, Request
    <2>2. QED
      BY <1>4, <1>12, <2>1, AttemptsCleared DEF ResetAttempts, TypeOK, Keys
  <1>13. ASSUME CountAttempts(r) PROVE TypeOK'
    <2>1. reqs' \in [Requests -> Request]
      BY <1>1, <1>2, <1>13 DEF CountAttempts, Phase
    <2>2. QED
      BY <1>0, <1>5, <1>13, <2>1 DEF CountAttempts
  <1>14. ASSUME Burn(r) PROVE TypeOK'
    BY <1>1, <1>3, <1>5, <1>14 DEF Burn
  <1>15. ASSUME Abandon(r) PROVE TypeOK'
    BY <1>0, <1>1, <1>5, <1>15 DEF Abandon
  <1>16. QED
    BY <1>6, <1>7, <1>8, <1>9, <1>10, <1>11, <1>12, <1>13, <1>14, <1>15 DEF Step

\* Every step keeps the types.
LEMMA NextType ==
  ASSUME TypeOK, [Next]_vars
  PROVE  TypeOK'
  <1>1. ASSUME Restart PROVE TypeOK'
    <2>1. reqs' \in [Requests -> Request]
      BY <1>1, ConstantTypes DEF Restart
    <2>2. codes' \in [Codes -> CodeRow]
      BY <1>1 DEF Restart, Forgiven, CodeRow, TypeOK
    <2>3. QED
      BY <1>1, <2>1, <2>2, AttemptsCleared DEF Restart, TypeOK, Keys
  <1>2. ASSUME Tick PROVE TypeOK'
    BY <1>2 DEF Tick, TypeOK, Limiter!LogTick
  <1>3. CASE UNCHANGED vars
    BY <1>3 DEF vars, TypeOK
  <1>4. ASSUME NEW S \in SUBSET Keys, Sweep(S) PROVE TypeOK'
    <2>1. CASE "attempt" \in S
      <3>1. /\ codes' = Forgiven /\ Limiter!LogClear(S)
            /\ reqs' = [q \in Requests |-> [reqs[q] EXCEPT !.hit = NoHit]]
        BY <1>4, <2>1 DEF Sweep
      <3>2. reqs' \in [Requests -> Request]
        <4>1. \A q \in Requests : reqs[q] \in Request
          BY DEF TypeOK
        <4>2. NoHit \in Hit \cup {NoHit}
          OBVIOUS
        <4>. HIDE DEF NoHit, Hit
        <4>3. \A q \in Requests : [reqs[q] EXCEPT !.hit = NoHit] \in Request
          BY <4>1, <4>2 DEF Request
        <4>4. QED
          BY <3>1, <4>3
      <3>3. codes' \in [Codes -> CodeRow]
        BY <3>1 DEF Forgiven, CodeRow, TypeOK
      <3>4. /\ log' \in [Keys -> SUBSET Hit] /\ UNCHANGED <<answer, calls, now>>
        BY <2>1, <3>1, AttemptsCleared
      <3>5. QED
        BY <3>2, <3>3, <3>4 DEF TypeOK
    <2>2. CASE "attempt" \notin S
      BY <1>4, <2>2 DEF Sweep, TypeOK, Limiter!LogClear, Limiter!Forgetting
    <2>3. QED
      BY <2>1, <2>2
  <1>5. QED
    BY <1>1, <1>2, <1>3, <1>4, StepType DEF Next

\* Every variable keeps its type.
THEOREM TypeCorrect == Spec => []TypeOK
  BY InitType, NextType, PTL DEF Spec

-----------------------------------------------------------------------------
(* What a step of a request does to the table, the log and the requests.   *)

\* The only ways a row changes.
RowStep(r, c) ==
    \/ codes'[c] = codes[c]
    \/ codes'[c] = Invalidated(codes[c])
    \/ /\ reqs[r].phase = "insert" /\ c = reqs[r].code
       /\ codes'[c] = [NoRow EXCEPT !.state = "live", !.expires = now + CodeLife,
                                    !.overlapped = reqs[r].overlapped]
    \/ \E sent \in BOOLEAN : codes'[c] = [codes[c] EXCEPT !.mailed = sent]
    \/ /\ reqs[r].phase = "verify" /\ codes[c].state = "live"
       /\ codes'[c] = [codes[c] EXCEPT !.state = "used", !.accepted = @ + 1]
    \/ /\ reqs[r].phase = "verify" /\ reqs[r].hit # NoHit /\ Live(c)
       /\ codes'[c] = [codes[c] EXCEPT !.wrong = @ \cup {reqs[r].hit}]
    \/ codes'[c] = [codes[c] EXCEPT !.wrong = {}]

\* Every step changes a row in one of these ways.
LEMMA RowSteps ==
  ASSUME TypeOK, NEW r \in Requests, Step(r), NEW c \in Codes
  PROVE  RowStep(r, c)
  <1>0. codes \in [Codes -> CodeRow] /\ codes[c] \in CodeRow
    BY DEF TypeOK
  <1>1. ASSUME UNCHANGED codes PROVE RowStep(r, c)
    BY <1>1 DEF RowStep
  <1>2. ASSUME StoreInvalidate(r) \/ Burn(r) PROVE RowStep(r, c)
    BY <1>2 DEF StoreInvalidate, Burn, RowStep
  <1>3. ASSUME StoreInsert(r) PROVE RowStep(r, c)
    BY <1>0, <1>3 DEF StoreInsert, RowStep
  <1>4. ASSUME Mail(r) PROVE RowStep(r, c)
    <2>1. PICK sent \in BOOLEAN : codes' = [codes EXCEPT ![reqs[r].code].mailed = sent]
      BY <1>4 DEF Mail
    <2>2. codes'[c] = codes[c] \/ codes'[c] = [codes[c] EXCEPT !.mailed = sent]
      BY <1>0, <2>1
    <2>3. QED
      BY <2>2 DEF RowStep
  <1>5. ASSUME VerifyRow(r) PROVE RowStep(r, c)
    <2>1. CASE /\ Matches(reqs[r].code)
               /\ codes' = [codes EXCEPT ![reqs[r].code].state = "used",
                                         ![reqs[r].code].accepted = @ + 1]
      <3>1. CASE c = reqs[r].code
        <4>1. codes'[c] = [codes[c] EXCEPT !.state = "used", !.accepted = @ + 1]
          BY <1>0, <2>1, <3>1
        <4>2. codes[c].state = "live" /\ reqs[r].phase = "verify"
          BY <1>5, <2>1, <3>1 DEF Matches, Live, VerifyRow
        <4>3. QED
          BY <4>1, <4>2 DEF RowStep
      <3>2. CASE c # reqs[r].code
        BY <1>0, <2>1, <3>2 DEF RowStep
      <3>3. QED
        BY <3>1, <3>2
    <2>2. CASE codes' = [d \in Codes |->
                   IF Live(d) /\ reqs[r].hit # NoHit
                   THEN [codes[d] EXCEPT !.wrong = @ \cup {reqs[r].hit}] ELSE codes[d]]
      <3>1. reqs[r].phase = "verify"
        BY <1>5 DEF VerifyRow
      <3>2. CASE Live(c) /\ reqs[r].hit # NoHit
        BY <2>2, <3>1, <3>2 DEF RowStep
      <3>3. CASE ~(Live(c) /\ reqs[r].hit # NoHit)
        BY <2>2, <3>3 DEF RowStep
      <3>4. QED
        BY <3>2, <3>3
    <2>3. QED
      BY <1>5, <2>1, <2>2 DEF VerifyRow
  <1>6. ASSUME ResetAttempts(r) PROVE RowStep(r, c)
    BY <1>6 DEF ResetAttempts, Forgiven, RowStep
  <1>7. QED
    BY <1>1, <1>2, <1>3, <1>4, <1>5, <1>6
    DEF Step, SendBegin, GuardCheck, CountAttempts, Abandon

\* The log of the wrong guesses grows, or it is cleared and they with it.
LEMMA LogStep ==
  ASSUME TypeOK, AttemptsLogged, NEW r \in Requests, Step(r)
  PROVE  /\ now' = now /\ AttemptsLogged'
         /\ \/ log["attempt"] \subseteq log'["attempt"]
            \/ /\ \A c \in Codes : codes'[c] = [codes[c] EXCEPT !.wrong = {}]
               /\ \A q \in Requests : reqs'[q].hit = NoHit
  <1>1. ASSUME UNCHANGED limiterVars PROVE log' = log /\ now' = now /\ AttemptsLogged'
    BY <1>1 DEF limiterVars, AttemptsLogged
  <1>2. ASSUME NEW c \in Codes, SendBegin(r, c)
        PROVE  log'["attempt"] = log["attempt"] /\ now' = now /\ AttemptsLogged'
    <2>1. log'["attempt"] = log["attempt"] /\ now' = now
      BY <1>2, SendCheck DEF SendBegin
    <2>2. QED
      BY <2>1 DEF AttemptsLogged
  <1>3. ASSUME NEW guess \in Codes \cup {NoCode}, GuardCheck(r, guess)
        PROVE  log["attempt"] \subseteq log'["attempt"] /\ now' = now /\ AttemptsLogged'
    BY <1>3, AttemptCheck, AttemptCounted DEF GuardCheck, Admit
  <1>4. ASSUME ResetAttempts(r)
        PROVE  /\ now' = now /\ AttemptsLogged'
               /\ \A c \in Codes : codes'[c] = [codes[c] EXCEPT !.wrong = {}]
               /\ \A q \in Requests : reqs'[q].hit = NoHit
    <2>1. now' = now /\ AttemptsLogged'
      BY <1>4, AttemptsCleared DEF ResetAttempts, Keys
    <2>2. \A c \in Codes : codes'[c] = [codes[c] EXCEPT !.wrong = {}]
      BY <1>4 DEF ResetAttempts, Forgiven
    <2>3. \A q \in Requests : reqs[q] \in Request
      BY DEF TypeOK
    <2>4. \A q \in Requests : reqs'[q].hit = NoHit
      BY <1>4, <2>3 DEF ResetAttempts, Request, Idle
    <2>5. QED
      BY <2>1, <2>2, <2>4
  <1>5. QED
    BY <1>1, <1>2, <1>3, <1>4
    DEF Step, StoreInvalidate, StoreInsert, Mail, VerifyRow, CountAttempts, Burn, Abandon

-----------------------------------------------------------------------------
(* The inductive invariant.                                                *)

\* A code goes from never accepted to used in one statement.
LEMMA AcceptedStep ==
  ASSUME TypeOK, AcceptedOnce, NEW r \in Requests, Step(r)
  PROVE  AcceptedOnce'
  <1>1. SUFFICES ASSUME NEW c \in Codes
                 PROVE  /\ codes'[c].accepted <= 1
                        /\ codes'[c].state # "used" => codes'[c].accepted = 0
    BY DEF AcceptedOnce
  <1>2. /\ codes[c] \in CodeRow /\ codes[c].accepted <= 1
        /\ codes[c].state # "used" => codes[c].accepted = 0
    BY DEF TypeOK, AcceptedOnce
  <1>3. RowStep(r, c)
    BY RowSteps
  <1>4. CASE /\ codes[c].state = "live"
             /\ codes'[c] = [codes[c] EXCEPT !.state = "used", !.accepted = @ + 1]
    <2>1. codes'[c].state = "used" /\ codes'[c].accepted = codes[c].accepted + 1
      BY <1>2, <1>4 DEF CodeRow
    <2>2. QED
      BY <1>2, <1>4, <2>1
  <1>5. CASE codes'[c].accepted = 0
    BY <1>5
  <1>6. CASE /\ codes'[c].accepted = codes[c].accepted
             /\ codes[c].state = "used" => codes'[c].state = "used"
    BY <1>2, <1>6
  <1>7. QED
    BY <1>2, <1>3, <1>4, <1>5, <1>6 DEF RowStep, Invalidated, CodeRow, NoRow

\* Every wrong guess counted is in the log, and no older than its code.
LEMMA GuessesStep ==
  ASSUME TypeOK, AttemptsLogged, GuessesLogged, NEW r \in Requests, Step(r)
  PROVE  GuessesLogged'
  <1>0. /\ now' = now /\ now \in Nat /\ reqs \in [Requests -> Request]
        /\ \A q \in Requests : reqs[q] \in Request
        /\ \/ log["attempt"] \subseteq log'["attempt"]
           \/ /\ \A c \in Codes : codes'[c] = [codes[c] EXCEPT !.wrong = {}]
              /\ \A q \in Requests : reqs'[q].hit = NoHit
    BY LogStep DEF TypeOK
  <1>1. ASSUME NEW c \in Codes
        PROVE  /\ codes'[c].expires <= now' + CodeLife
               /\ codes'[c].wrong \subseteq log'["attempt"]
               /\ \A h \in codes'[c].wrong : codes'[c].expires <= h.at + CodeLife
    <2>1. /\ codes[c] \in CodeRow
          /\ codes[c].expires <= now + CodeLife
          /\ codes[c].wrong \subseteq log["attempt"]
          /\ \A h \in codes[c].wrong : codes[c].expires <= h.at + CodeLife
      BY DEF TypeOK, GuessesLogged
    <2>2. CASE codes'[c] = [codes[c] EXCEPT !.wrong = {}]
      BY <1>0, <2>1, <2>2 DEF CodeRow
    <2>3. CASE /\ log["attempt"] \subseteq log'["attempt"]
               /\ codes'[c] # [codes[c] EXCEPT !.wrong = {}]
      <3>1. CASE /\ codes'[c].expires = codes[c].expires
                 /\ codes'[c].wrong = codes[c].wrong
        BY <1>0, <2>1, <2>3, <3>1
      <3>2. CASE codes'[c].expires = now + CodeLife /\ codes'[c].wrong = {}
        BY <1>0, <3>2
      <3>3. CASE /\ reqs[r].phase = "verify" /\ reqs[r].hit # NoHit
                 /\ codes'[c].expires = codes[c].expires
                 /\ codes'[c].wrong = codes[c].wrong \cup {reqs[r].hit}
        <4>1. reqs[r].hit \in log["attempt"] /\ reqs[r].hit.at = now
          BY <3>3 DEF GuessesLogged
        <4>2. QED
          BY <1>0, <2>1, <2>3, <3>3, <4>1
      <3>4. RowStep(r, c)
        BY RowSteps
      <3>5. QED
        BY <2>1, <2>3, <3>1, <3>2, <3>3, <3>4, ZenonT(60)
        DEF RowStep, Invalidated, CodeRow, NoRow
    <2>4. QED
      BY <1>0, <2>2, <2>3
  <1>2. ASSUME NEW q \in Requests, reqs'[q].phase = "verify", reqs'[q].hit # NoHit
        PROVE  reqs'[q].hit \in log'["attempt"] /\ reqs'[q].hit.at = now'
    <2>1. log["attempt"] \subseteq log'["attempt"]
      BY <1>0, <1>2
    <2>2. CASE reqs'[q] = reqs[q]
      BY <1>0, <1>2, <2>1, <2>2 DEF GuessesLogged
    <2>3. CASE reqs'[q] # reqs[q]
      <3>1. ASSUME NEW guess \in Codes \cup {NoCode}, GuardCheck(r, guess)
            PROVE  reqs'[q].hit \in log'["attempt"] /\ reqs'[q].hit.at = now'
        <4>1. Limiter!LogCheck("attempt", now, {}) /\ answer'.ok
          BY <2>3, <3>1 DEF GuardCheck, Admit
        <4>2. log'["attempt"] = log["attempt"] \cup {[at |-> now, id |-> calls]}
          BY <4>1, AttemptCheck
        <4>3. q = r /\ reqs'[q].hit = [at |-> now, id |-> calls]
          <5>1. reqs' = [reqs EXCEPT ![r] = [Idle EXCEPT !.phase = "verify", !.code = guess,
                                                        !.hit = [at |-> now, id |-> calls]]]
            BY <3>1, <4>1 DEF GuardCheck, Admit
          <5>2. q = r
            BY <1>0, <2>3, <5>1
          <5>3. reqs'[q] = [Idle EXCEPT !.phase = "verify", !.code = guess,
                                        !.hit = [at |-> now, id |-> calls]]
            BY <1>0, <5>1, <5>2
          <5>4. QED
            BY <5>2, <5>3 DEF Idle
        <4>4. QED
          BY <1>0, <4>2, <4>3
      <3>2. ASSUME NEW c \in Codes, SendBegin(r, c)
            PROVE  FALSE
        BY <1>0, <1>2, <2>3, <3>2 DEF SendBegin, Idle
      <3>3. ASSUME Done(r) PROVE FALSE
        BY <1>0, <1>2, <2>3, <3>3 DEF Done, Idle
      <3>4. ASSUME NEW p \in Phase \ {"verify"}, Goto(r, p) PROVE FALSE
        BY <1>0, <1>2, <2>3, <3>4 DEF Goto, Request
      <3>5. ASSUME StoreInsert(r) PROVE FALSE
        BY <1>0, <1>2, <2>3, <3>5 DEF StoreInsert, Request
      <3>6. ASSUME ResetAttempts(r) PROVE FALSE
        BY <1>0, <1>2, <2>3, <3>6 DEF ResetAttempts, Request, Idle
      <3>7. QED
        BY <3>1, <3>2, <3>3, <3>4, <3>5, <3>6
        DEF Step, StoreInvalidate, Mail, VerifyRow, CountAttempts, Burn, Abandon, Phase
    <2>4. QED
      BY <2>2, <2>3
  <1>3. QED
    BY <1>1, <1>2 DEF GuessesLogged

\* An insertion that nothing disturbed finds no live code.
LEMMA StoresStep ==
  ASSUME TypeOK, StoresAlone, NEW r \in Requests, Step(r)
  PROVE  StoresAlone'
  <1>0. /\ reqs \in [Requests -> Request] /\ codes \in [Codes -> CodeRow]
        /\ \A q \in Requests : reqs[q] \in Request
        /\ \A c \in Codes : codes[c] \in CodeRow
    BY DEF TypeOK
  <1>1. CASE StoreInsert(r)
    <2>1. ASSUME NEW q \in Requests, reqs'[q].phase = "insert" PROVE reqs'[q].overlapped
      BY <1>0, <1>1, <2>1 DEF StoreInsert, Request
    <2>2. \A c \in Codes : codes'[c] =
              IF c = reqs[r].code
              THEN [NoRow EXCEPT !.state = "live", !.expires = now + CodeLife,
                                 !.overlapped = reqs[r].overlapped]
              ELSE codes[c]
      BY <1>0, <1>1 DEF StoreInsert
    <2>3. CASE reqs[r].overlapped
      <3>1. \A c \in Codes : codes'[c].state = "live" /\ ~codes'[c].overlapped =>
                codes'[c] = codes[c]
        BY <2>2, <2>3 DEF NoRow
      <3>2. QED
        BY <2>1, <3>1 DEF StoresAlone
    <2>4. CASE ~reqs[r].overlapped
      <3>1. \A c \in Codes : codes[c].state # "live"
        BY <1>1, <2>4 DEF StoreInsert, StoresAlone
      <3>2. \A c \in Codes : codes'[c].state = "live" => c = reqs[r].code
        BY <2>2, <3>1
      <3>3. QED
        BY <2>1, <3>2 DEF StoresAlone
    <2>5. QED
      BY <1>0, <2>3, <2>4 DEF Request
  <1>2. CASE ~StoreInsert(r)
    <2>1. ASSUME NEW c \in Codes
          PROVE  codes'[c].state = "live" =>
                     codes[c].state = "live" /\ codes'[c].overlapped = codes[c].overlapped
      <3>1. CASE reqs[r].phase # "insert"
        <4>1. RowStep(r, c) /\ codes[c] \in CodeRow
          BY <1>0, RowSteps
        <4>2. CASE \E sent \in BOOLEAN : codes'[c] = [codes[c] EXCEPT !.mailed = sent]
          BY <4>1, <4>2 DEF CodeRow
        <4>3. CASE codes'[c] = [codes[c] EXCEPT !.state = "used", !.accepted = @ + 1]
          BY <4>1, <4>3 DEF CodeRow
        <4>4. CASE codes'[c] = [codes[c] EXCEPT !.wrong = @ \cup {reqs[r].hit}]
          BY <4>1, <4>4 DEF CodeRow
        <4>5. CASE codes'[c] = [codes[c] EXCEPT !.wrong = {}]
          BY <4>1, <4>5 DEF CodeRow
        <4>6. CASE codes'[c] = codes[c] \/ codes'[c] = Invalidated(codes[c])
          BY <4>1, <4>6 DEF Invalidated, CodeRow
        <4>7. QED
          BY <3>1, <4>1, <4>2, <4>3, <4>4, <4>5, <4>6 DEF RowStep
      <3>2. CASE reqs[r].phase = "insert"
        <4>1. reqs[r] # Idle
          BY <3>2 DEF Idle
        <4>2. Abandon(r)
          BY <1>2, <3>2, <4>1 DEF Step, StoreInvalidate, Mail, VerifyRow, CountAttempts, Burn,
                           SendBegin, GuardCheck, ResetAttempts
        <4>3. codes' = codes
          BY <4>2 DEF Abandon
        <4>4. QED
          BY <4>3
      <3>3. QED
        BY <3>1, <3>2
    <2>2. ASSUME NEW q \in Requests, reqs'[q].phase = "insert", ~reqs'[q].overlapped
          PROVE  \A c \in Codes : codes'[c].state # "live"
      <3>1. CASE StoreInvalidate(r)
        BY <1>0, <3>1 DEF StoreInvalidate, Invalidated, CodeRow
      <3>2. CASE reqs[q].phase = "insert" /\ reqs[q].overlapped = reqs'[q].overlapped
        BY <2>1, <2>2, <3>2 DEF StoresAlone
      <3>3. ASSUME NEW c \in Codes, SendBegin(r, c)
            PROVE  reqs[q].phase = "insert" /\ reqs[q].overlapped = reqs'[q].overlapped
        BY <1>0, <2>2, <3>3 DEF SendBegin, Idle
      <3>4. ASSUME Done(r)
            PROVE  reqs[q].phase = "insert" /\ reqs[q].overlapped = reqs'[q].overlapped
        BY <1>0, <2>2, <3>4 DEF Done, Idle
      <3>5. ASSUME NEW p \in Phase \ {"insert"}, Goto(r, p)
            PROVE  reqs[q].phase = "insert" /\ reqs[q].overlapped = reqs'[q].overlapped
        BY <1>0, <2>2, <3>5 DEF Goto, Request
      <3>6. ASSUME NEW guess \in Codes \cup {NoCode}, GuardCheck(r, guess)
            PROVE  reqs[q].phase = "insert" /\ reqs[q].overlapped = reqs'[q].overlapped
        BY <1>0, <2>2, <3>6, ZenonT(60) DEF GuardCheck, Admit, Idle
      <3>7. ASSUME ResetAttempts(r)
            PROVE  reqs[q].phase = "insert" /\ reqs[q].overlapped = reqs'[q].overlapped
        BY <1>0, <2>2, <3>7 DEF ResetAttempts, Request, Idle
      <3>8. QED
        BY <1>2, <3>1, <3>2, <3>3, <3>4, <3>5, <3>6, <3>7
        DEF Step, Mail, VerifyRow, CountAttempts, Burn, Abandon, Phase
    <2>3. QED
      BY <2>1, <2>2 DEF StoresAlone
  <1>3. QED
    BY <1>1, <1>2

\* The first state satisfies the invariant.
LEMMA InitInv == Init => GuardInv
  <1>1. SUFFICES ASSUME Init PROVE GuardInv
    OBVIOUS
  <1>2. /\ \A c \in Codes : codes[c] = NoRow
        /\ \A r \in Requests : reqs[r] = Idle
        /\ log["attempt"] = {} /\ now = 0
    BY <1>1 DEF Init, Limiter!LogInit, Keys
  <1>3. AcceptedOnce /\ StoresAlone
    BY <1>2 DEF AcceptedOnce, StoresAlone, NoRow, Idle
  <1>4. GuessesLogged
    BY <1>2 DEF GuessesLogged, NoRow, Idle
  <1>5. Limiter!InWindow(log["attempt"], now, AttemptWindow) = {}
    BY <1>2 DEF Limiter!InWindow
  <1>6. Cardinality(Limiter!InWindow(log["attempt"], now, AttemptWindow)) = 0
    BY <1>5, FS_EmptySet
  <1>7. AttemptsLogged
    BY <1>2, <1>6, FS_EmptySet DEF AttemptsLogged
  <1>8. QED
    BY <1>1, <1>3, <1>4, <1>7, InitType DEF GuardInv

\* Every step keeps the invariant.
LEMMA NextInv ==
  ASSUME GuardInv, [Next]_vars
  PROVE  GuardInv'
  <1>0. TypeOK /\ TypeOK'
    BY NextType DEF GuardInv
  <1>1. ASSUME NEW r \in Requests, Step(r) PROVE GuardInv'
    BY <1>0, <1>1, LogStep, AcceptedStep, GuessesStep, StoresStep DEF GuardInv
  <1>2. ASSUME Restart PROVE GuardInv'
    <2>1. /\ \A c \in Codes : codes'[c] = [codes[c] EXCEPT !.wrong = {}]
          /\ \A r \in Requests : reqs'[r] = Idle
          /\ now' = now
          /\ \A c \in Codes : codes[c] \in CodeRow
      BY <1>0, <1>2, AttemptsCleared DEF Restart, Forgiven, Keys, TypeOK
    <2>2. AttemptsLogged'
      BY <1>0, <1>2, AttemptsCleared DEF Restart, Keys
    <2>3. AcceptedOnce'
      BY <2>1, ZenonT(60) DEF GuardInv, AcceptedOnce, CodeRow
    <2>4. GuessesLogged'
      <3>1. \A c \in Codes : codes'[c].wrong = {} /\ codes'[c].expires = codes[c].expires
        BY <2>1 DEF CodeRow
      <3>2. \A c \in Codes : codes[c].expires <= now + CodeLife
        BY DEF GuardInv, GuessesLogged
      <3>3. \A r \in Requests : reqs'[r].phase # "verify"
        BY <2>1 DEF Idle
      <3>4. QED
        BY <2>1, <3>1, <3>2, <3>3 DEF GuessesLogged
    <2>5. StoresAlone'
      <3>1. \A c \in Codes : /\ codes'[c].state = codes[c].state
                             /\ codes'[c].overlapped = codes[c].overlapped
        BY <2>1 DEF CodeRow
      <3>2. \A r \in Requests : reqs'[r].phase # "insert"
        BY <2>1 DEF Idle
      <3>3. StoresAlone
        BY DEF GuardInv
      <3>4. QED
        BY <3>1, <3>2, <3>3 DEF StoresAlone
    <2>6. QED
      BY <1>0, <2>2, <2>3, <2>4, <2>5 DEF GuardInv
  <1>3. ASSUME Tick PROVE GuardInv'
    <2>1. /\ now \in Nat /\ now' = now + 1 /\ log' = log
          /\ codes' = codes /\ reqs' = reqs
          /\ \A r \in Requests : reqs[r].phase # "verify"
      BY <1>0, <1>3 DEF Tick, TypeOK, Limiter!LogTick
    <2>2. AttemptsLogged'
      BY <1>0, <1>3, AttemptsAge DEF GuardInv, Tick
    <2>3. AcceptedOnce' /\ StoresAlone'
      BY <2>1 DEF GuardInv, AcceptedOnce, StoresAlone
    <2>4. \A c \in Codes : codes[c] \in CodeRow
      BY <1>0 DEF TypeOK
    <2>5. GuessesLogged'
      BY <2>1, <2>4 DEF GuardInv, GuessesLogged, CodeRow
    <2>6. QED
      BY <1>0, <2>2, <2>3, <2>5 DEF GuardInv
  <1>4. ASSUME UNCHANGED vars PROVE GuardInv'
    BY <1>0, <1>4 DEF vars, GuardInv, AcceptedOnce, AttemptsLogged, GuessesLogged, StoresAlone
  <1>5. ASSUME NEW S \in SUBSET Keys, Sweep(S), "attempt" \notin S PROVE GuardInv'
    <2>1. /\ UNCHANGED <<codes, reqs, now>> /\ log'["attempt"] = log["attempt"]
      BY <1>5 DEF Sweep, Limiter!LogClear, Limiter!Forgetting, Keys
    <2>2. QED
      BY <1>0, <2>1 DEF GuardInv, AcceptedOnce, AttemptsLogged, GuessesLogged, StoresAlone
  <1>6. ASSUME NEW S \in SUBSET Keys, Sweep(S), "attempt" \in S PROVE GuardInv'
    <2>1. /\ \A c \in Codes : codes'[c] = [codes[c] EXCEPT !.wrong = {}]
          /\ \A r \in Requests : reqs'[r] = [reqs[r] EXCEPT !.hit = NoHit]
          /\ now' = now
          /\ \A c \in Codes : codes[c] \in CodeRow
          /\ \A r \in Requests : reqs[r] \in Request
      BY <1>0, <1>6, AttemptsCleared DEF Sweep, Forgiven, Keys, TypeOK
    <2>2. AttemptsLogged'
      BY <1>0, <1>6, AttemptsCleared DEF Sweep
    <2>3. AcceptedOnce'
      BY <2>1, ZenonT(60) DEF GuardInv, AcceptedOnce, CodeRow
    <2>4. GuessesLogged'
      <3>1. \A c \in Codes : codes'[c].wrong = {} /\ codes'[c].expires = codes[c].expires
        BY <2>1, ZenonT(60) DEF CodeRow
      <3>2. \A c \in Codes : codes[c].expires <= now + CodeLife
        BY DEF GuardInv, GuessesLogged
      <3>3. \A r \in Requests : reqs'[r].hit = NoHit
        BY <2>1 DEF Request
      <3>4. QED
        BY <2>1, <3>1, <3>2, <3>3 DEF GuessesLogged
    <2>5. StoresAlone'
      <3>1. \A c \in Codes : /\ codes'[c].state = codes[c].state
                             /\ codes'[c].overlapped = codes[c].overlapped
        BY <2>1 DEF CodeRow
      <3>2. \A r \in Requests : /\ reqs'[r].phase = reqs[r].phase
                                /\ reqs'[r].overlapped = reqs[r].overlapped
        BY <2>1 DEF Request
      <3>3. StoresAlone
        BY DEF GuardInv
      <3>4. QED
        BY <3>1, <3>2, <3>3 DEF StoresAlone
    <2>6. QED
      BY <1>0, <2>2, <2>3, <2>4, <2>5 DEF GuardInv
  <1>7. QED
    BY <1>1, <1>2, <1>3, <1>4, <1>5, <1>6 DEF Next

\* The inductive invariant (otp.rs:13-61, auth_handler.rs:133-166).
THEOREM InvCorrect == Spec => []GuardInv
  BY InitInv, NextInv, PTL DEF Spec

\* A code is accepted at most once, however many requests carry it
\* (otp.rs:43-61).
THEOREM CodesAreSingleUse == Spec => []SingleUse
  <1>1. GuardInv => SingleUse
    BY DEF GuardInv, AcceptedOnce, SingleUse
  <1>2. QED
    BY <1>1, InvCorrect, PTL

\* No live code has more wrong guesses held against it than the limit, in any
\* interleaving of guesses, codes, cut-off requests, restarts and sweeps
\* (auth_handler.rs:129-166).
THEOREM GuessesAreCapped == Spec => []GuessesCapped
  <1>1. ASSUME GuardInv, NEW c \in Codes, Live(c)
        PROVE  Cardinality(codes[c].wrong) <= MaxAttempts
    <2>. DEFINE W == Limiter!InWindow(log["attempt"], now, AttemptWindow)
    <2>1. /\ codes[c] \in CodeRow /\ now \in Nat
          /\ log["attempt"] \subseteq Hit
      BY <1>1 DEF GuardInv, TypeOK, Keys
    <2>2. codes[c].wrong \subseteq log["attempt"]
      BY <1>1 DEF GuardInv, GuessesLogged
    <2>3. \A h \in codes[c].wrong : now - h.at < AttemptWindow
      <3>1. TAKE h \in codes[c].wrong
      <3>2. codes[c].expires <= h.at + CodeLife /\ h.at \in Nat
        BY <1>1, <2>1, <2>2 DEF GuardInv, GuessesLogged, Hit, Limiter!Hit
      <3>3. now < codes[c].expires /\ codes[c].expires \in Nat
        BY <1>1, <2>1 DEF Live, CodeRow
      <3>4. QED
        BY <2>1, <3>2, <3>3
    <2>4. codes[c].wrong \subseteq W /\ W \subseteq log["attempt"]
      BY <2>2, <2>3 DEF Limiter!InWindow
    <2>5. IsFiniteSet(log["attempt"]) /\ Cardinality(W) <= MaxAttempts
      BY <1>1 DEF GuardInv, AttemptsLogged
    <2>. HIDE DEF W
    <2>6. IsFiniteSet(W)
      BY <2>4, <2>5, FS_Subset
    <2>7. /\ Cardinality(codes[c].wrong) \in Nat /\ Cardinality(W) \in Nat
          /\ Cardinality(codes[c].wrong) <= Cardinality(W)
      BY <2>4, <2>6, SmallerSet
    <2>8. QED
      BY <2>5, <2>7
  <1>2. GuardInv => GuessesCapped
    BY <1>1 DEF GuessesCapped
  <1>3. QED
    BY <1>2, InvCorrect, PTL

\* Two live codes exist only where one was stored while another was being
\* inserted (otp.rs:13-32).
THEOREM OneCodeAtATime == Spec => []OneCodeUnlessOverlapped
  <1>1. GuardInv => OneCodeUnlessOverlapped
    <2>1. SUFFICES ASSUME GuardInv PROVE OneCodeUnlessOverlapped
      OBVIOUS
    <2>2. \A c, d \in {e \in Codes : codes[e].state = "live" /\ ~codes[e].overlapped} : c = d
      BY <2>1 DEF GuardInv, StoresAlone
    <2>3. QED
      BY <2>2, AtMostOne DEF OneCodeUnlessOverlapped
  <1>2. QED
    BY <1>1, InvCorrect, PTL

=============================================================================
