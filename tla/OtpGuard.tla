------------------------------ MODULE OtpGuard ------------------------------
(***************************************************************************)
(* The one-time codes of one email address: utils/otp.rs and the guarded   *)
(* verification of handlers/auth_handler.rs, on top of the rate limiter.   *)
(* The limiter is WindowLimit, which RateLimiter is shown to implement.    *)
(*                                                                         *)
(* Every SQL statement and every call of the limiter is one action.  Two   *)
(* requests interleave between them, and a request may be cut off there.   *)
(* A tick is some minutes: a guess that passed the limiter reaches the     *)
(* table within the tick.  Codes are random, and no two here are equal.    *)
(***************************************************************************)
EXTENDS Integers, FiniteSets

CONSTANTS
    Requests,       \* slots for requests in flight
    Codes,          \* the codes generated; each is generated at most once
    NoCode,         \* a guess that matches no code
    MaxAttempts,    \* OTP_MAX_ATTEMPTS (5)
    AttemptWindow,  \* OTP_ATTEMPT_WINDOW (15 minutes)
    SendMax,        \* OTP_SEND_MAX (5)
    SendWindow,     \* OTP_SEND_WINDOW (60 minutes)
    CodeLife,       \* expires_at - created_at (10 minutes)
    MaxTime,        \* bound on the clock
    MaxCalls        \* bound on the calls the limiter lets through

ASSUME NoCodeAssumption == NoCode \notin Codes
ASSUME BoundAssumption ==
    /\ MaxAttempts \in Nat \ {0} /\ AttemptWindow \in Nat \ {0}
    /\ SendMax \in Nat \ {0} /\ SendWindow \in Nat \ {0}
    /\ CodeLife \in Nat \ {0} /\ MaxTime \in Nat /\ MaxCalls \in Nat

\* A code does not outlive the window its wrong guesses are counted in.
ASSUME LifeAssumption == CodeLife <= AttemptWindow

VARIABLES
    codes,  \* the rows of otp_codes for this address
    reqs,   \* requests in flight
    log, answer, calls, now  \* the limiter

vars == <<codes, reqs, log, answer, calls, now>>

Keys == {"attempt", "send"}

Limiter == INSTANCE WindowLimit WITH
    Limit <- [k \in Keys |-> IF k = "attempt" THEN MaxAttempts ELSE SendMax],
    Window <- [k \in Keys |-> IF k = "attempt" THEN AttemptWindow ELSE SendWindow],
    MaxLag <- 0,
    MaxTracked <- 0

Hit == Limiter!Hit
NoHit == [at |-> 0, id |-> -1]

\* A row of the table, whether its code reached the inbox, and three history
\* fields: another code was inserted while it was being stored; the hits of the
\* limiter behind the wrong guesses made while it was live, since the limiter
\* last forgot them; and how many guesses it was accepted for.
CodeRow == [state : {"none", "live", "used"}, expires : Nat, mailed : BOOLEAN,
            overlapped : BOOLEAN, wrong : SUBSET Hit, accepted : Nat]
NoRow == [state |-> "none", expires |-> 0, mailed |-> FALSE,
          overlapped |-> FALSE, wrong |-> {}, accepted |-> 0]

\* A request: its code, the history field of the row it stores, and its hit,
\* unless the limiter has forgotten it since.
Phase == {"idle", "invalidate", "insert", "mail", "verify", "reset", "count", "burn"}
Request == [phase : Phase, code : Codes \cup {NoCode}, hit : Hit \cup {NoHit},
            overlapped : BOOLEAN]
Idle == [phase |-> "idle", code |-> NoCode, hit |-> NoHit, overlapped |-> FALSE]

TypeOK ==
    /\ codes \in [Codes -> CodeRow]
    /\ reqs \in [Requests -> Request]
    /\ log \in [Keys -> SUBSET Hit]
    /\ answer \in Limiter!Outcome \cup {Limiter!NoAnswer}
    /\ calls \in Nat
    /\ now \in Nat

Init ==
    /\ codes = [c \in Codes |-> NoRow]
    /\ reqs = [r \in Requests |-> Idle]
    /\ Limiter!LogInit

Goto(r, phase) == reqs' = [reqs EXCEPT ![r].phase = phase]
Done(r) == reqs' = [reqs EXCEPT ![r] = Idle]

limiterVars == <<log, answer, calls, now>>

-----------------------------------------------------------------------------
(* A handler that mails a code: register, resend, forgot, change-email.    *)

\* The cap on mails per address comes first; a refused request ends there.
SendBegin(r, c) ==
    /\ reqs[r] = Idle
    /\ codes[c].state = "none" /\ \A q \in Requests : reqs[q].code # c
    /\ calls < MaxCalls
    /\ Limiter!LogCheck("send", now, {})
    /\ IF answer'.ok
       THEN reqs' = [reqs EXCEPT ![r] = [Idle EXCEPT !.phase = "invalidate", !.code = c]]
       ELSE UNCHANGED reqs
    /\ UNCHANGED codes

\* Faulty variant: the previous codes stay as they are.
InvalidatesNothing(row) == row

\* SET used = true WHERE used = false
Invalidated(row) == IF row.state = "live" THEN [row EXCEPT !.state = "used"] ELSE row

StoreInvalidate(r) ==
    /\ reqs[r].phase = "invalidate"
    /\ codes' = [c \in Codes |-> Invalidated(codes[c])]
    /\ Goto(r, "insert")
    /\ UNCHANGED limiterVars

\* INSERT; any other request between its own two statements now overlaps.
StoreInsert(r) ==
    /\ reqs[r].phase = "insert"
    /\ codes' = [codes EXCEPT ![reqs[r].code] =
           [NoRow EXCEPT !.state = "live", !.expires = now + CodeLife,
                         !.overlapped = reqs[r].overlapped]]
    /\ reqs' = [q \in Requests |->
           CASE q = r -> [reqs[r] EXCEPT !.phase = "mail"]
             [] q # r /\ reqs[q].phase = "insert" -> [reqs[q] EXCEPT !.overlapped = TRUE]
             [] OTHER -> reqs[q]]
    /\ UNCHANGED limiterVars

\* The mail is sent, or fails and the code stays in the table unread.
Mail(r) ==
    /\ reqs[r].phase = "mail"
    /\ \E sent \in BOOLEAN : codes' = [codes EXCEPT ![reqs[r].code].mailed = sent]
    /\ Done(r)
    /\ UNCHANGED limiterVars

-----------------------------------------------------------------------------
(* verify_otp_guarded, in verify, reset-password and change-email/verify.  *)

\* Faulty variant: asks how many guesses were made and counts none.
AsksOnly(r, guess) ==
    LET left == Cardinality(Limiter!InWindow(log["attempt"], now, AttemptWindow))
                    < MaxAttempts
    IN  /\ UNCHANGED <<log, now>>
        /\ calls' = calls + 1
        /\ answer' = [key |-> "attempt", at |-> now, ok |-> left]
        /\ IF left
           THEN reqs' = [reqs EXCEPT ![r] =
                    [Idle EXCEPT !.phase = "verify", !.code = guess,
                                 !.hit = [at |-> now, id |-> calls]]]
           ELSE UNCHANGED reqs

\* limiter.check, before the table is touched.
Admit(r, guess) ==
    /\ Limiter!LogCheck("attempt", now, {})
    /\ IF answer'.ok
       THEN reqs' = [reqs EXCEPT ![r] =
                [Idle EXCEPT !.phase = "verify", !.code = guess,
                             !.hit = [at |-> now, id |-> calls]]]
       ELSE UNCHANGED reqs

GuardCheck(r, guess) ==
    /\ reqs[r] = Idle
    /\ guess # NoCode => codes[guess].mailed
    /\ calls < MaxCalls
    /\ Admit(r, guess)
    /\ UNCHANGED codes

Live(c) == codes[c].state = "live" /\ now < codes[c].expires

\* Faulty variant: the statement does not ask whether the code was used.
MatchesUsed(guess) ==
    guess # NoCode /\ codes[guess].state # "none" /\ now < codes[guess].expires

\* WHERE code = $2 AND used = false AND expires_at > NOW()
Matches(guess) == guess # NoCode /\ Live(guess)

VerifyRow(r) ==
    LET guess == reqs[r].code
        hit == reqs[r].hit
    IN
    /\ reqs[r].phase = "verify"
    /\ \/ /\ Matches(guess)
          /\ codes' = [codes EXCEPT ![guess].state = "used",
                                    ![guess].accepted = @ + 1]
          /\ Goto(r, "reset")
       \/ /\ ~Matches(guess)
          /\ codes' = [c \in Codes |->
                 IF Live(c) /\ hit # NoHit
                 THEN [codes[c] EXCEPT !.wrong = @ \cup {hit}] ELSE codes[c]]
          /\ Goto(r, "count")
    /\ UNCHANGED limiterVars

\* The wrong guesses forgotten with the limiter's hits.
Forgiven == [c \in Codes |-> [codes[c] EXCEPT !.wrong = {}]]

ResetAttempts(r) ==
    /\ reqs[r].phase = "reset"
    /\ Limiter!LogClear({"attempt"})
    /\ codes' = Forgiven
    /\ reqs' = [q \in Requests |->
           IF q = r THEN Idle ELSE [reqs[q] EXCEPT !.hit = NoHit]]

CountAttempts(r) ==
    /\ reqs[r].phase = "count"
    /\ IF Cardinality(Limiter!InWindow(log["attempt"], now, AttemptWindow)) >= MaxAttempts
       THEN Goto(r, "burn") ELSE Done(r)
    /\ UNCHANGED <<codes, limiterVars>>

\* invalidate_otps
Burn(r) ==
    /\ reqs[r].phase = "burn"
    /\ codes' = [c \in Codes |-> Invalidated(codes[c])]
    /\ Done(r)
    /\ UNCHANGED limiterVars

-----------------------------------------------------------------------------

\* A statement fails, or the client goes away and the handler is dropped.
Abandon(r) ==
    /\ reqs[r] # Idle
    /\ Done(r)
    /\ UNCHANGED <<codes, limiterVars>>

\* The table survives a restart; the counters and the requests do not.
Restart ==
    /\ reqs' = [r \in Requests |-> Idle]
    /\ Limiter!LogClear(Keys)
    /\ codes' = Forgiven

\* Calls under other keys with a shorter window, some of which may sweep.
Sweep(S) ==
    /\ Limiter!LogClear(S)
    /\ IF "attempt" \in S
       THEN /\ codes' = Forgiven
            /\ reqs' = [q \in Requests |-> [reqs[q] EXCEPT !.hit = NoHit]]
       ELSE UNCHANGED <<codes, reqs>>

Tick ==
    /\ now < MaxTime
    /\ \A r \in Requests : reqs[r].phase # "verify"
    /\ Limiter!LogTick
    /\ UNCHANGED <<codes, reqs>>

Step(r) ==
    \/ \E c \in Codes : SendBegin(r, c)
    \/ StoreInvalidate(r) \/ StoreInsert(r) \/ Mail(r)
    \/ \E guess \in Codes \cup {NoCode} : GuardCheck(r, guess)
    \/ VerifyRow(r) \/ ResetAttempts(r) \/ CountAttempts(r) \/ Burn(r)
    \/ Abandon(r)

Next ==
    \/ \E r \in Requests : Step(r)
    \/ \E S \in SUBSET Keys : Sweep(S)
    \/ Restart
    \/ Tick

Spec == Init /\ [][Next]_vars

-----------------------------------------------------------------------------
(* Properties.                                                             *)

\* A code is accepted at most once, however many requests carry it
\* (otp.rs:43-61).
SingleUse == \A c \in Codes : codes[c].accepted <= 1

\* While a code is live, at most MaxAttempts wrong guesses are held against the
\* table, until a success, a restart or a sweep of the limiter clears the counter
\* (auth_handler.rs:129-166, docs/api.md:41).
GuessesCapped ==
    \A c \in Codes : Live(c) => Cardinality(codes[c].wrong) <= MaxAttempts

\* Of several live codes all but one were stored while another was being
\* inserted: a request of its own always replaces the old code (otp.rs:13-32).
OneCodeUnlessOverlapped ==
    Cardinality({c \in Codes : codes[c].state = "live" /\ ~codes[c].overlapped}) <= 1

-----------------------------------------------------------------------------
(* The inductive invariant of the proofs.                                  *)

\* A row that was not used up was never accepted.
AcceptedOnce ==
    \A c \in Codes :
        /\ codes[c].accepted <= 1
        /\ codes[c].state # "used" => codes[c].accepted = 0

\* The limiter's log of the wrong guesses never exceeds its limit.
AttemptsLogged ==
    /\ IsFiniteSet(log["attempt"])
    /\ \A h \in log["attempt"] : h.at <= now
    /\ Cardinality(Limiter!InWindow(log["attempt"], now, AttemptWindow)) <= MaxAttempts

\* A wrong guess is one of the limiter's hits, no older than the code.
GuessesLogged ==
    /\ \A c \in Codes :
           /\ codes[c].expires <= now + CodeLife
           /\ codes[c].wrong \subseteq log["attempt"]
           /\ \A h \in codes[c].wrong : codes[c].expires <= h.at + CodeLife
    /\ \A r \in Requests : reqs[r].phase = "verify" /\ reqs[r].hit # NoHit =>
           reqs[r].hit \in log["attempt"] /\ reqs[r].hit.at = now

\* Between its two statements, an undisturbed request finds no live code.
StoresAlone ==
    /\ \A r \in Requests : reqs[r].phase = "insert" /\ ~reqs[r].overlapped =>
           \A c \in Codes : codes[c].state # "live"
    /\ \A c, d \in Codes :
           /\ codes[c].state = "live" /\ ~codes[c].overlapped
           /\ codes[d].state = "live" /\ ~codes[d].overlapped
           => c = d

GuardInv == TypeOK /\ AcceptedOnce /\ AttemptsLogged /\ GuessesLogged /\ StoresAlone

=============================================================================
