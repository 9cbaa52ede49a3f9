------------------------------ MODULE Sessions ------------------------------
(***************************************************************************)
(* Sessions, roles and the admin decisions that end them:                  *)
(* handlers/admin_handler.rs, middleware/auth_middleware.rs, utils/jwt.rs  *)
(* and the login and reset-password handlers of handlers/auth_handler.rs.  *)
(*                                                                         *)
(* A handler is an async fn whose SQL statements are separate round trips, *)
(* with no transaction around them.  Every statement is one action, a slot *)
(* of reqs holds what the request has read so far, and any two requests    *)
(* interleave between statements.  A request may stop between any two of   *)
(* them (client gone, statement failed, server restarted): Abandon.        *)
(*                                                                         *)
(* Time is the server's clock in whole seconds: the only precision left    *)
(* once a token's iat and the truncated cutoff are compared.  Tokens last  *)
(* 7 days, longer than the behaviours checked, so none expires here.       *)
(***************************************************************************)
EXTENDS Integers, FiniteSets

CONSTANTS
    Users,      \* user ids; an id is never handed out twice (SERIAL)
    Founders,   \* the accounts made admin by hand before the server started
    Requests,   \* slots for requests in flight
    NoUser,     \* the target of an idle slot
    Decisions,  \* the endpoints the admins use
    Bodies,     \* the role changes an admin may send
    MaxTime,    \* bound on the clock
    MaxTokens   \* bound on the tokens issued

ASSUME FoundersAssumption == Founders \subseteq Users /\ Founders # {}
ASSUME NoUserAssumption == NoUser \notin Users
ASSUME BoundsAssumption ==
    MaxTime \in Nat /\ MaxTokens \in Nat

VARIABLES
    users,   \* the users table: status, roles and sessions_valid_from
    tokens,  \* the JWTs issued; a token is never stored by the server
    reqs,    \* requests in flight
    now      \* the clock, in seconds

vars == <<users, tokens, reqs, now>>

Status == {"absent", "pending_verification", "pending", "active", "rejected"}

Row == [status : Status, admin : BOOLEAN, manager : BOOLEAN, cutoff : Nat]

\* No row with this id: not registered, or deleted.
NoRow == [status |-> "absent", admin |-> FALSE, manager |-> FALSE, cutoff |-> 0]

Roles == [admin : BOOLEAN, manager : BOOLEAN]
NoRoles == [admin |-> FALSE, manager |-> FALSE]
RolesOf(row) == [admin |-> row.admin, manager |-> row.manager]

\* What a token carries, and two history fields: the sessions of its user were
\* ended while the login was under way (raced), and since it was issued (ended).
Token == [user : Users, roles : Roles, iat : Nat,
          raced : BOOLEAN, ended : BOOLEAN]

\* RoleUpdateInput: a field that was not sent is "keep".
Choice == {"keep", "grant", "revoke"}
Body == [admin : Choice, manager : Choice]
Nothing == [admin |-> "keep", manager |-> "keep"]

ASSUME BodiesAssumption == Bodies \subseteq Body \ {Nothing}

\* body.is_admin.unwrap_or(the current value), and the same for is_manager.
Choose(choice, current) == IF choice = "keep" THEN current ELSE choice = "grant"

AllDecisions ==
    {"approve", "reject", "ban", "reactivate", "role", "email", "delete"}

ASSUME DecisionsAssumption == Decisions \subseteq AllDecisions

\* A request: its target's roles as a login or a role change read them, the change
\* sent, and a history field.  A login is raced if its member's sessions were ended, or its
\* member deleted, since it read the row.  A role change or a deletion is raced if
\* it was sent from the session of a raced login, or an admin lost the seat while it
\* was under way; a count of the other admins makes up for that.
RequestRecord == [op : AllDecisions \cup {"login", "idle"},
                  phase : {"idle", "begun", "count", "write"},
                  target : Users \cup {NoUser},
                  roles : Roles, body : Body, raced : BOOLEAN]
Idle == [op |-> "idle", phase |-> "idle", target |-> NoUser,
         roles |-> NoRoles, body |-> Nothing, raced |-> FALSE]

Request ==
    {q \in RequestRecord :
        /\ q.op # "idle" /\ q.phase # "idle" /\ q.target # NoUser
        /\ q.op = "login" => q.phase = "write"
        /\ q.phase = "count" => q.op = "role"} \cup {Idle}

TypeOK ==
    /\ users \in [Users -> Row]
    /\ tokens \subseteq Token
    /\ reqs \in [Requests -> Request]
    /\ now \in Nat

-----------------------------------------------------------------------------
(* What the handlers compute.                                              *)

Exists(u) == users[u].status # "absent"

\* Faulty variant: a cut in the same second as the login does not reach it.
AcceptsSameSecond(t) == Exists(t.user) /\ t.iat >= users[t.user].cutoff

\* The extractor every protected handler runs first: the account still exists
\* and the token is younger than its cutoff.  NULL is 0, before every token.
Accepts(t) == Exists(t.user) /\ t.iat > users[t.user].cutoff

\* Faulty variant: a cut that allows two seconds of grace.
CutSessionsWithGrace(row) == [row EXCEPT !.cutoff = now - 2]

\* sessions_valid_from = NOW()
CutSessions(row) == [row EXCEPT !.cutoff = now]

\* Faulty variant: a role change that leaves the open sessions alone.
RowWithRolesOnly(row, body, read) ==
    [row EXCEPT !.admin = Choose(body.admin, read.admin),
                !.manager = Choose(body.manager, read.manager)]

\* The row a role change writes: both columns, an omitted one from the roles
\* read before, and the cut.
RowWithRoles(row, body, read) ==
    [CutSessions(row) EXCEPT !.admin = Choose(body.admin, read.admin),
                             !.manager = Choose(body.manager, read.manager)]

\* Faulty variant: a ban that leaves the open sessions alone.
RowRejectedOnly(row) == [row EXCEPT !.status = "rejected"]

\* The row a rejection or a ban writes.
RowRejected(row) == [CutSessions(row) EXCEPT !.status = "rejected"]

\* The status checks after the target's row was read.
Admits(op, row) ==
    /\ row.status # "absent"
    /\ op \in {"approve", "reject"} => row.status = "pending"
    /\ op = "ban" => row.status # "rejected"
    /\ op = "reactivate" => row.status # "active"

\* Faulty variant: the self check covers the role handler only.
NotOnSelfRoleOnly(op) == op = "role"

\* The decisions an admin may not take about their own account.
NotOnSelf(op) == op \in {"role", "ban", "delete"}

\* The decisions that may leave nobody an admin.
TakesSeats(op) == op \in {"role", "delete"}

\* An admin loses the role: the case in which the other admins are counted.
Demotes(row, body) == row.admin /\ ~Choose(body.admin, row.admin)

\* Faulty variant: the member is counted too.
AllAdmins(u) == {v \in Users : users[v].admin}

OtherAdmins(u) == {v \in Users \ {u} : users[v].admin}

-----------------------------------------------------------------------------

Init ==
    /\ \E status \in [Users -> Status \ {"absent"}] :
         /\ \A u \in Founders : status[u] = "active"
         /\ users = [u \in Users |->
                [status |-> status[u], admin |-> u \in Founders,
                 manager |-> FALSE, cutoff |-> 0]]
    /\ tokens = {}
    /\ reqs = [r \in Requests |-> Idle]
    /\ now = 1

Tick ==
    /\ now < MaxTime
    /\ now' = now + 1
    /\ UNCHANGED <<users, tokens, reqs>>

Finish(r) == reqs' = [reqs EXCEPT ![r] = Idle]

Abandon(r) ==
    /\ reqs[r] # Idle
    /\ Finish(r)
    /\ UNCHANGED <<users, tokens, now>>

(* Login: one SELECT, then the password check and the token.               *)

\* Every status but the three refused ones, of which only "active" is left.
MayLogIn(row) == row.status = "active"

LoginRead(r, u) ==
    /\ reqs[r] = Idle
    /\ MayLogIn(users[u])
    /\ reqs' = [reqs EXCEPT ![r] = [Idle EXCEPT
                  !.op = "login", !.phase = "write", !.target = u,
                  !.roles = RolesOf(users[u])]]
    /\ UNCHANGED <<users, tokens, now>>

LoginMint(r) ==
    /\ reqs[r].op = "login"
    /\ Cardinality(tokens) < MaxTokens
    /\ tokens' = tokens \cup
         {[user |-> reqs[r].target, roles |-> reqs[r].roles, iat |-> now,
           raced |-> reqs[r].raced, ended |-> FALSE]}
    /\ Finish(r)
    /\ UNCHANGED <<users, now>>

(* An admin decision: the extractor, the SELECT of the target, for a       *)
(* demotion the count of the other admins, then one write.                 *)

DecisionBegin(r, t, op, target, body) ==
    /\ reqs[r] = Idle
    /\ Accepts(t) /\ t.roles.admin
    /\ body \in (IF op = "role" THEN Bodies ELSE {Nothing})
    /\ NotOnSelf(op) => t.user # target
    /\ reqs' = [reqs EXCEPT ![r] = [Idle EXCEPT
                  !.op = op, !.phase = "begun", !.target = target, !.body = body,
                  !.raced = t.raced /\ TakesSeats(op)]]
    /\ UNCHANGED <<users, tokens, now>>

DecisionRead(r) ==
    LET row == users[reqs[r].target] IN
    /\ reqs[r].phase = "begun"
    /\ IF Admits(reqs[r].op, row)
       THEN reqs' = [reqs EXCEPT
              ![r].roles = IF reqs[r].op = "role" THEN RolesOf(row) ELSE NoRoles,
              ![r].phase = IF reqs[r].op = "role" /\ Demotes(row, reqs[r].body)
                           THEN "count" ELSE "write"]
       ELSE Finish(r)
    /\ UNCHANGED <<users, tokens, now>>

CountAdmins(r) ==
    /\ reqs[r].phase = "count"
    /\ IF OtherAdmins(reqs[r].target) = {}
       THEN Finish(r)
       ELSE reqs' = [reqs EXCEPT ![r].phase = "write", ![r].raced = FALSE]
    /\ UNCHANGED <<users, tokens, now>>

\* The UPDATE or DELETE a decision ends with, by user id and nothing else: the
\* row's status and roles are not looked at again.  A row deleted meanwhile is
\* not found and the request fails.
Writes(r, op) == reqs[r].op = op /\ reqs[r].phase = "write"

Write(r, row) ==
    /\ users' = IF Exists(reqs[r].target)
                THEN [users EXCEPT ![reqs[r].target] = row] ELSE users
    /\ Finish(r)
    /\ UNCHANGED <<tokens, now>>

\* History: the sessions of u end now, whatever the handler wrote.
MarkEnded(u) ==
    tokens' = {IF t.user = u THEN [t EXCEPT !.ended = TRUE] ELSE t : t \in tokens}

MarkRaced(q, u, row) ==
    IF \/ reqs[q].op = "login" /\ reqs[q].target = u
       \/ TakesSeats(reqs[q].op) /\ users[u].admin /\ ~row.admin
    THEN [reqs[q] EXCEPT !.raced = TRUE] ELSE reqs[q]

\* The row of u becomes this one, at the end of request r.
Becomes(r, u, row) ==
    /\ users' = [users EXCEPT ![u] = row]
    /\ reqs' = [q \in Requests |-> IF q = r THEN Idle ELSE MarkRaced(q, u, row)]
    /\ UNCHANGED now

\* A write after which the target's earlier sessions are over.
WriteAndEnd(r, row) ==
    LET u == reqs[r].target IN
    IF Exists(u)
    THEN Becomes(r, u, row) /\ MarkEnded(u)
    ELSE Finish(r) /\ UNCHANGED <<users, tokens, now>>

Approve(r) ==
    /\ Writes(r, "approve")
    /\ Write(r, [users[reqs[r].target] EXCEPT !.status = "active"])

Reject(r) ==
    /\ Writes(r, "reject")
    /\ WriteAndEnd(r, RowRejected(users[reqs[r].target]))

Ban(r) ==
    /\ Writes(r, "ban")
    /\ WriteAndEnd(r, RowRejected(users[reqs[r].target]))

Reactivate(r) ==
    /\ Writes(r, "reactivate")
    /\ Write(r, [users[reqs[r].target] EXCEPT !.status = "active"])

UpdateRole(r) ==
    /\ Writes(r, "role")
    /\ WriteAndEnd(r, RowWithRoles(users[reqs[r].target],
                                   reqs[r].body, reqs[r].roles))

\* Only the cut: addresses are modelled in Accounts.
UpdateEmail(r) ==
    /\ Writes(r, "email")
    /\ WriteAndEnd(r, CutSessions(users[reqs[r].target]))

Delete(r) ==
    /\ Writes(r, "delete")
    /\ IF Exists(reqs[r].target)
       THEN Becomes(r, reqs[r].target, NoRow) /\ UNCHANGED tokens
       ELSE Finish(r) /\ UNCHANGED <<users, tokens, now>>

(* The last statement of the handlers that act on a mailed code.  Which    *)
(* code allows them is modelled in Accounts; here it may be any member at  *)
(* any time, through a slot that is free.                                  *)

ResetPassword(r, u) ==
    /\ reqs[r] = Idle
    /\ Exists(u)
    /\ users' = [users EXCEPT ![u] = CutSessions(@)]
    /\ MarkEnded(u)
    /\ reqs' = [q \in Requests |-> MarkRaced(q, u, users[u])]
    /\ UNCHANGED now

VerifyCode(r, u) ==
    /\ reqs[r] = Idle
    /\ Exists(u)
    /\ \E status \in {"active", "pending"} :
         users' = [users EXCEPT ![u].status = status]
    /\ UNCHANGED <<tokens, reqs, now>>

Login(r) == (\E u \in Users : LoginRead(r, u)) \/ LoginMint(r)

DecisionEnds(r) ==
    \/ Approve(r) \/ Reject(r) \/ Ban(r) \/ Reactivate(r)
    \/ UpdateRole(r) \/ UpdateEmail(r) \/ Delete(r)

Decide(r) ==
    \/ \E t \in tokens, op \in Decisions, target \in Users,
         body \in Bodies \cup {Nothing} :
         DecisionBegin(r, t, op, target, body)
    \/ DecisionRead(r)
    \/ CountAdmins(r)
    \/ DecisionEnds(r)

EnterCode(r) == \E u \in Users : ResetPassword(r, u) \/ VerifyCode(r, u)

Next ==
    \/ Tick
    \/ \E r \in Requests : Login(r) \/ Decide(r) \/ EnterCode(r) \/ Abandon(r)

Spec == Init /\ [][Next]_vars

-----------------------------------------------------------------------------
(* Properties.                                                             *)

SomeAdmin == \E u \in Users : users[u].admin

\* A password reset, a ban, a rejection, a role change or an admin's email
\* change ends every session opened before it, however close in time the two
\* were (auth_middleware.rs:82-118, docs/api.md:82).
CutRevokesIssuedTokens == \A t \in tokens : t.ended => ~Accepts(t)

\* Roles live in the token, so a token accepted today must carry the roles of
\* the row, unless a cut fell between its login's SELECT and its issue: every
\* path that writes a role has to cut (admin_handler.rs:417-420).
SessionCarriesCurrentRoles ==
    \A t \in tokens :
        Accepts(t) /\ ~t.raced => t.roles = RolesOf(users[t.user])

\* A rejected or banned member has no session, unless a login read the row
\* before the ban and issued the token after it (admin_handler.rs:514-519).
RejectedHasNoSession ==
    \A t \in tokens :
        Accepts(t) /\ ~t.raced => users[t.user].status # "rejected"

\* The last admin goes in one way only: by a role change or a deletion during
\* which another admin lost the seat, or by a deletion sent from the session of a
\* raced login.  The self checks, the cut of who loses the role and the count of
\* the others must together rule out every other way (admin_handler.rs:151,
\* 429-463, docs/api.md:1182-1185).
LastAdminGoesInRacesOnly ==
    [][SomeAdmin /\ ~SomeAdmin' =>
          \E r \in Requests : reqs[r].raced /\ (UpdateRole(r) \/ Delete(r))]_vars

\* Whatever admins decide about each other, somebody is still an admin: no request
\* demotes the only one left (admin_handler.rs:407-412, docs/api.md:1184).
SomeAdminRemains == SomeAdmin

-----------------------------------------------------------------------------
(* The inductive invariants the proofs of Sessions_proofs rest on.         *)

\* These roles are the row's, and the row is not rejected.
Current(u, roles) ==
    roles = RolesOf(users[u]) /\ users[u].status # "rejected"

ClockInv == \A u \in Users : users[u].cutoff <= now

TokenInv ==
    \A t \in tokens :
        /\ t.iat <= now
        /\ Exists(t.user) /\ t.ended => t.iat <= users[t.user].cutoff
        /\ Exists(t.user) /\ ~t.ended /\ ~t.raced => Current(t.user, t.roles)

LoginInv ==
    \A r \in Requests :
        /\ reqs[r].op = "login"
        /\ ~reqs[r].raced
        /\ Exists(reqs[r].target)
        => Current(reqs[r].target, reqs[r].roles)

SessionInv == ClockInv /\ TokenInv /\ LoginInv

\* An undisturbed role change or deletion leaves another admin: the one who sent
\* it, or one of those it counted.
SeatInv ==
    \A r \in Requests :
        reqs[r].op \in {"role", "delete"} /\ ~reqs[r].raced =>
            OtherAdmins(reqs[r].target) # {}

=============================================================================
