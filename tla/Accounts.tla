------------------------------ MODULE Accounts ------------------------------
(***************************************************************************)
(* The life of an account: its status, its address and the address it is   *)
(* moving to, in handlers/auth_handler.rs and the admin handlers that      *)
(* decide about it.                                                        *)
(*                                                                         *)
(* A statement, or reads that follow each other with nothing in between,   *)
(* is one action; requests interleave between actions and may be cut off   *)
(* there.  store_otp and the mail are one action here (OtpGuard has their  *)
(* statements), and so is the guarded check of a code.  A code is known to *)
(* whoever reads the inbox and fits every endpoint that takes a code.      *)
(***************************************************************************)
EXTENDS Integers, FiniteSets

CONSTANTS
    Users,     \* user ids; an id is used once
    Emails,    \* the addresses people type
    Student,   \* those is_student_email accepts, in any case
    Shouted,   \* those of them not written in lower case
    NoEmail, NoUser,
    Requests,  \* slots for requests in flight
    Endpoints  \* the endpoints in use

ASSUME EmailAssumption ==
    /\ Shouted \subseteq Student /\ Student \subseteq Emails
    /\ NoEmail \notin Emails /\ NoUser \notin Users

AllEndpoints == {"register", "verify", "resend", "forgot", "reset", "claim", "confirm",
                 "approve", "reject", "ban", "reactivate", "email", "delete"}

ASSUME EndpointAssumption == Endpoints \subseteq AllEndpoints

VARIABLES
    users,   \* the users table
    code,    \* the addresses a live code was mailed to
    proved,  \* history: addresses a code was entered for, or an admin vouched for
    reqs     \* requests in flight

vars == <<users, code, proved, reqs>>

Status == {"unused", "pending_verification", "pending", "active", "rejected", "deleted"}
Row == [status : Status, email : Emails \cup {NoEmail},
        pending : Emails \cup {NoEmail}, card : BOOLEAN]
NoRow(status) == [status |-> status, email |-> NoEmail, pending |-> NoEmail, card |-> FALSE]

Phase == {"idle", "check", "code", "mail", "insert", "write", "unclaim", "discard"}
Request == [op : AllEndpoints \cup {"idle"}, phase : Phase, user : Users \cup {NoUser},
            email : Emails \cup {NoEmail}, card : BOOLEAN]
Idle == [op |-> "idle", phase |-> "idle", user |-> NoUser, email |-> NoEmail, card |-> FALSE]

TypeOK ==
    /\ users \in [Users -> Row]
    /\ code \in SUBSET Emails
    /\ proved \in SUBSET Emails
    /\ reqs \in [Requests -> Request]

Init ==
    /\ users = [u \in Users |-> NoRow("unused")]
    /\ code = {}
    /\ proved = {}
    /\ reqs = [r \in Requests |-> Idle]

-----------------------------------------------------------------------------
(* The parts of a handler.                                                 *)

Exists(u) == users[u].status \notin {"unused", "deleted"}
At(e) == {u \in Users : Exists(u) /\ users[u].email = e}
Claiming(e) == {u \in Users : Exists(u) /\ users[u].pending = e}

Begin(r, op, phase, u, e) ==
    /\ op \in Endpoints /\ reqs[r] = Idle
    /\ reqs' = [reqs EXCEPT ![r] =
           [op |-> op, phase |-> phase, user |-> u, email |-> e, card |-> FALSE]]

In(r, op, phase) == reqs[r].op = op /\ reqs[r].phase = phase
Goto(r, phase) == reqs' = [reqs EXCEPT ![r].phase = phase]
Done(r) == reqs' = [reqs EXCEPT ![r] = Idle]

\* UPDATE users ... WHERE user_id: no row, no effect.
SetRow(u, row) == users' = IF Exists(u) THEN [users EXCEPT ![u] = row] ELSE users

\* store_otp and the mail: the old code is dead whether or not the mail goes out.
Mailed(e, sent) == code' = IF sent THEN code \cup {e} ELSE code \ {e}

\* Faulty variant: the endpoint goes on without a live code.
EntersAnything(e) == code' = code \ {e} /\ UNCHANGED proved

\* A right code is entered: it is used up, and its address is proved.
Enters(e) == e \in code /\ code' = code \ {e} /\ proved' = proved \cup {e}

\* A code expires, or is burned after too many wrong guesses.
CodeDies(e) ==
    /\ e \in code
    /\ code' = code \ {e}
    /\ UNCHANGED <<users, proved, reqs>>

-----------------------------------------------------------------------------
(* Registration and verification.                                          *)

\* Photos are optional for a student address and required for any other.
Register(r, e, card) ==
    /\ card \/ e \in Student
    /\ At(e) = {}
    /\ "register" \in Endpoints /\ reqs[r] = Idle
    /\ reqs' = [reqs EXCEPT ![r] = [Idle EXCEPT !.op = "register", !.phase = "mail",
                                                !.email = e, !.card = card]]
    /\ UNCHANGED <<users, code, proved>>

RegisterMail(r) ==
    /\ In(r, "register", "mail")
    /\ \E sent \in BOOLEAN :
           /\ Mailed(reqs[r].email, sent)
           /\ IF sent THEN Goto(r, "insert") ELSE Done(r)
    /\ UNCHANGED <<users, proved>>

\* The unique index refuses an address registered in the meantime.
RegisterInsert(r) ==
    /\ In(r, "register", "insert")
    /\ \/ /\ At(reqs[r].email) = {}
          /\ \E u \in Users :
                 /\ users[u].status = "unused"
                 /\ users' = [users EXCEPT ![u] =
                        [status |-> "pending_verification", email |-> reqs[r].email,
                         pending |-> NoEmail, card |-> reqs[r].card]]
       \/ At(reqs[r].email) # {} /\ UNCHANGED users
    /\ Done(r)
    /\ UNCHANGED <<code, proved>>

Verify(r, e) ==
    /\ Enters(e)
    /\ Begin(r, "verify", "write", NoUser, e)
    /\ UNCHANGED users

\* body.email.ends_with("@student.sust.edu"), which is case-sensitive.
VerifiedStatus(e) == IF e \in Student \ Shouted THEN "active" ELSE "pending"

\* UPDATE users SET status WHERE email, whatever the status was.
VerifyWrite(r) ==
    LET e == reqs[r].email IN
    /\ In(r, "verify", "write")
    /\ users' = [u \in Users |->
           IF u \in At(e) THEN [users[u] EXCEPT !.status = VerifiedStatus(e)] ELSE users[u]]
    /\ Done(r)
    /\ UNCHANGED <<code, proved>>

\* Faulty variant: a banned account is sent codes too.
SendsToBanned(op, status) ==
    \/ op = "resend" /\ status \in {"pending_verification", "rejected"}
    \/ op = "forgot" /\ status \in {"pending", "active", "rejected"}

\* The statuses resend and forgot-password send a code to.
SendsTo(op, status) ==
    \/ op = "resend" /\ status = "pending_verification"
    \/ op = "forgot" /\ status \in {"pending", "active"}

Ask(r, op, e) ==
    /\ \E u \in At(e) : SendsTo(op, users[u].status)
    /\ Begin(r, op, "mail", NoUser, e)
    /\ UNCHANGED <<users, code, proved>>

AskMail(r) ==
    /\ reqs[r].op \in {"resend", "forgot"}
    /\ \E sent \in BOOLEAN : Mailed(reqs[r].email, sent)
    /\ Done(r)
    /\ UNCHANGED <<users, proved>>

\* reset_password: uses up the code; what it writes is in Sessions.
Reset(e) ==
    /\ "reset" \in Endpoints
    /\ Enters(e)
    /\ UNCHANGED <<users, reqs>>

-----------------------------------------------------------------------------
(* Moving to a university address.                                         *)

\* Live address of another account, or claimed by one.
IsTaken(e, u) == (At(e) \cup Claiming(e)) \ {u} # {}

Claim(r, u, e) ==
    /\ e \in Student /\ Exists(u) /\ users[u].email # e
    /\ users[u].status # "rejected"
    /\ ~IsTaken(e, u)
    /\ Begin(r, "claim", "write", u, e)
    /\ UNCHANGED <<users, code, proved>>

ClaimWrite(r) ==
    LET u == reqs[r].user IN
    /\ In(r, "claim", "write")
    /\ SetRow(u, [users[u] EXCEPT !.pending = reqs[r].email])
    /\ Goto(r, "mail")
    /\ UNCHANGED <<code, proved>>

ClaimMail(r) ==
    /\ In(r, "claim", "mail")
    /\ \E sent \in BOOLEAN :
           /\ Mailed(reqs[r].email, sent)
           /\ IF sent THEN Done(r) ELSE Goto(r, "unclaim")
    /\ UNCHANGED <<users, proved>>

\* SET pending_email = NULL, after a failed mail or an address taken meanwhile.
Unclaim(r) ==
    LET u == reqs[r].user IN
    /\ reqs[r].phase = "unclaim"
    /\ SetRow(u, [users[u] EXCEPT !.pending = NoEmail])
    /\ Done(r)
    /\ UNCHANGED <<code, proved>>

\* The account is found by the address it claims, before the code is checked.
Confirm(r, u, e) ==
    /\ u \in Claiming(e)
    /\ Begin(r, "confirm", "code", u, e)
    /\ UNCHANGED <<users, code, proved>>

ConfirmCode(r) ==
    /\ In(r, "confirm", "code")
    /\ Enters(reqs[r].email)
    /\ Goto(r, "check")
    /\ UNCHANGED users

ConfirmCheck(r) ==
    /\ In(r, "confirm", "check")
    /\ Goto(r, IF At(reqs[r].email) # {} THEN "unclaim" ELSE "write")
    /\ UNCHANGED <<users, code, proved>>

\* Active from whatever status; the unique index refuses a taken address.
ConfirmWrite(r) ==
    LET u == reqs[r].user
        e == reqs[r].email
    IN
    /\ In(r, "confirm", "write")
    /\ IF Exists(u) /\ At(e) \subseteq {u}
       THEN /\ users' = [users EXCEPT ![u].status = "active", ![u].email = e,
                                      ![u].pending = NoEmail]
            /\ Goto(r, "discard")
       ELSE UNCHANGED users /\ Done(r)
    /\ UNCHANGED <<code, proved>>

-----------------------------------------------------------------------------
(* The decisions of the admins.                                            *)

Decisions == {"approve", "reject", "ban", "reactivate"}

Admits(op, status) ==
    \/ op \in {"approve", "reject"} /\ status = "pending"
    \/ op = "ban" /\ status # "rejected"
    \/ op = "reactivate" /\ status # "active"

\* The target is read and its status checked; the write names only its id.
Decide(r, op, u) ==
    /\ Exists(u) /\ Admits(op, users[u].status)
    /\ Begin(r, op, "write", u, NoEmail)
    /\ UNCHANGED <<users, code, proved>>

DecideWrite(r) ==
    LET u == reqs[r].user
        op == reqs[r].op
    IN
    /\ op \in Decisions /\ reqs[r].phase = "write"
    /\ SetRow(u, [users[u] EXCEPT !.status =
           IF op \in {"approve", "reactivate"} THEN "active" ELSE "rejected"])
    /\ IF Exists(u) /\ op \in {"approve", "reject"} THEN Goto(r, "discard") ELSE Done(r)
    /\ proved' = IF op = "reactivate" THEN proved \cup ({users[u].email} \cap Emails)
                 ELSE proved
    /\ UNCHANGED code

\* discard_id_card: clears the paths of the photos.
Discard(r) ==
    LET u == reqs[r].user IN
    /\ reqs[r].phase = "discard"
    /\ SetRow(u, [users[u] EXCEPT !.card = FALSE])
    /\ IF reqs[r].op = "delete" THEN Goto(r, "write") ELSE Done(r)
    /\ UNCHANGED <<code, proved>>

ChangeEmail(r, u, e) ==
    /\ Exists(u) /\ ~IsTaken(e, u)
    /\ Begin(r, "email", "write", u, e)
    /\ UNCHANGED <<users, code, proved>>

ChangeEmailWrite(r) ==
    LET u == reqs[r].user
        e == reqs[r].email
    IN
    /\ In(r, "email", "write")
    /\ IF Exists(u) /\ At(e) \subseteq {u}
       THEN /\ users' = [users EXCEPT ![u].email = e, ![u].pending = NoEmail]
            /\ proved' = proved \cup {e}
       ELSE UNCHANGED <<users, proved>>
    /\ Done(r)
    /\ UNCHANGED code

Delete(r, u) ==
    /\ Exists(u)
    /\ Begin(r, "delete", IF users[u].card THEN "discard" ELSE "write", u, NoEmail)
    /\ UNCHANGED <<users, code, proved>>

\* Refused while a key refers to the account.
DeleteWrite(r) ==
    LET u == reqs[r].user IN
    /\ In(r, "delete", "write")
    /\ SetRow(u, NoRow("deleted")) \/ UNCHANGED users
    /\ Done(r)
    /\ UNCHANGED <<code, proved>>

-----------------------------------------------------------------------------

\* A statement fails, the client goes away or the server stops.
Abandon(r) ==
    /\ reqs[r] # Idle
    /\ Done(r)
    /\ UNCHANGED <<users, code, proved>>

Start(r) ==
    \/ \E e \in Emails :
           \/ \E card \in BOOLEAN : Register(r, e, card)
           \/ Verify(r, e) \/ Ask(r, "resend", e) \/ Ask(r, "forgot", e)
    \/ \E u \in Users, e \in Emails :
           Claim(r, u, e) \/ Confirm(r, u, e) \/ ChangeEmail(r, u, e)
    \/ \E u \in Users :
           Delete(r, u) \/ \E op \in Decisions : Decide(r, op, u)

Continue(r) ==
    \/ RegisterMail(r) \/ RegisterInsert(r) \/ VerifyWrite(r) \/ AskMail(r)
    \/ ClaimWrite(r) \/ ClaimMail(r) \/ Unclaim(r)
    \/ ConfirmCode(r) \/ ConfirmCheck(r) \/ ConfirmWrite(r)
    \/ DecideWrite(r) \/ Discard(r) \/ ChangeEmailWrite(r) \/ DeleteWrite(r)
    \/ Abandon(r)

Next ==
    \/ \E r \in Requests : Start(r) \/ Continue(r)
    \/ \E e \in Emails : Reset(e) \/ CodeDies(e)

Spec == Init /\ [][Next]_vars

-----------------------------------------------------------------------------
(* Properties.                                                             *)

\* The address of an account that is past verification was proved by a code
\* entered for it, or vouched for by an admin, whatever happened to accounts and
\* addresses between the code and the write (auth_handler.rs:378-392, 666-713).
PastVerificationIsProved ==
    \A u \in Users :
        users[u].status \in {"pending", "active"} => users[u].email \in proved

\* Nothing under way or in an inbox can reach u: no live code at its address, no
\* claim, no member's request in its name or with a code for its address.
OutOfReach(u) ==
    /\ users[u].status = "rejected"
    /\ users[u].email \notin code /\ users[u].pending = NoEmail
    /\ \A r \in Requests :
           /\ reqs[r].user = u =>
                  reqs[r].op \in {"reject", "ban", "reactivate", "email", "delete"}
           /\ reqs[r].email = users[u].email =>
                  reqs[r].op \in {"idle", "confirm", "email"}

\* A banned account that no code or request can reach stays so, until an admin
\* decides about it: the only way around a ban is a code mailed before it
\* (auth_handler.rs:426, 609, 820; admin_handler.rs:322, 508).
BanHoldsOutOfReach ==
    [][\A u \in Users :
          OutOfReach(u) =>
              \/ OutOfReach(u)'
              \/ \E r \in Requests :
                     /\ reqs[r].op \in {"reactivate", "email", "delete"}
                     /\ reqs[r].phase = "write" /\ reqs[r].user = u
                     /\ reqs'[r] = Idle]_vars

=============================================================================
