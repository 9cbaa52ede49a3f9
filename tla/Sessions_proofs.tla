--------------------------- MODULE Sessions_proofs ---------------------------
(***************************************************************************)
(* What holds of Sessions for every set of accounts, admins and requests.  *)
(***************************************************************************)
EXTENDS Sessions, TLAPS

USE FoundersAssumption, NoUserAssumption, BoundsAssumption,
    DecisionsAssumption, BodiesAssumption

LEMMA IdleType == Idle \in Request /\ Idle \in RequestRecord
  BY DEF Idle, Request, RequestRecord, Nothing, NoRoles, Roles, Body, Choice,
         AllDecisions

LEMMA NoRowType == NoRow \in Row
  BY DEF NoRow, Row, Status

\* What a busy slot holds.
LEMMA BusyType ==
  ASSUME TypeOK, NEW r \in Requests,
         reqs[r].op # "idle" \/ reqs[r].phase # "idle"
  PROVE  /\ reqs[r] \in RequestRecord
         /\ reqs[r].op # "idle" /\ reqs[r].phase # "idle"
         /\ reqs[r].op = "login" => reqs[r].phase = "write"
         /\ reqs[r].phase = "count" => reqs[r].op = "role"
         /\ reqs[r].target \in Users /\ users[reqs[r].target] \in Row
         /\ reqs[r].body \in Body /\ reqs[r].roles \in Roles
         /\ reqs[r].raced \in BOOLEAN
  BY DEF TypeOK, Request, RequestRecord, Idle

LEMMA RolesOfType == \A row \in Row : RolesOf(row) \in Roles
  BY DEF RolesOf, Roles, Row

LEMMA ChooseType ==
    \A c \in Choice, b \in BOOLEAN : Choose(c, b) \in BOOLEAN
  BY DEF Choose, Choice

\* What the handlers write is a row of the table.
LEMMA WrittenRowType ==
  ASSUME TypeOK, NEW row \in Row, NEW body \in Body, NEW read \in Roles
  PROVE  /\ CutSessions(row) \in Row
         /\ RowRejected(row) \in Row
         /\ RowWithRoles(row, body, read) \in Row
         /\ [row EXCEPT !.status = "active"] \in Row
  <1>1. CutSessions(row) \in Row
    BY DEF TypeOK, CutSessions, Row
  <1>2. RowRejected(row) \in Row
    BY <1>1 DEF RowRejected, Row, Status
  <1>3. /\ Choose(body.admin, read.admin) \in BOOLEAN
        /\ Choose(body.manager, read.manager) \in BOOLEAN
    BY ChooseType DEF Body, Roles
  <1>4. RowWithRoles(row, body, read) \in Row
    BY <1>1, <1>3 DEF RowWithRoles, Row
  <1>5. [row EXCEPT !.status = "active"] \in Row
    BY DEF Row, Status
  <1>6. QED
    BY <1>1, <1>2, <1>4, <1>5

LEMMA MarkRacedType ==
  ASSUME TypeOK, NEW q \in Requests, NEW u, NEW row
  PROVE  MarkRaced(q, u, row) \in Request
  <1>1. CASE reqs[q].op # "idle"
    BY <1>1, BusyType DEF MarkRaced, TakesSeats, Request, RequestRecord
  <1>2. CASE reqs[q].op = "idle"
    BY <1>2 DEF MarkRaced, TakesSeats, TypeOK
  <1>3. QED
    BY <1>1, <1>2

LEMMA MarkEndedType ==
  ASSUME TypeOK, NEW u, MarkEnded(u)
  PROVE  tokens' \subseteq Token
  <1>1. SUFFICES ASSUME NEW t \in tokens
                 PROVE  [t EXCEPT !.ended = TRUE] \in Token
    BY DEF MarkEnded, TypeOK
  <1>2. t \in Token
    BY DEF TypeOK
  <1>3. QED
    BY <1>2 DEF Token

\* A write by the statement that ends request r.
LEMMA WriteType ==
  ASSUME TypeOK, NEW r \in Requests, NEW row \in Row, Write(r, row)
  PROVE  TypeOK'
  BY IdleType DEF TypeOK, Write, Finish

LEMMA BecomesType ==
  ASSUME TypeOK, NEW r \in Requests, NEW u \in Users, NEW row \in Row,
         Becomes(r, u, row), tokens' \subseteq Token
  PROVE  TypeOK'
  <1>1. reqs' \in [Requests -> Request]
    BY IdleType, MarkRacedType DEF Becomes
  <1>2. users' \in [Users -> Row] /\ now' \in Nat
    BY DEF Becomes, TypeOK
  <1>3. QED
    BY <1>1, <1>2 DEF TypeOK

LEMMA WriteAndEndType ==
  ASSUME TypeOK, NEW r \in Requests, NEW row \in Row, WriteAndEnd(r, row),
         reqs[r].target \in Users
  PROVE  TypeOK'
  <1>1. CASE Exists(reqs[r].target)
    BY <1>1, MarkEndedType, BecomesType DEF WriteAndEnd
  <1>2. CASE ~Exists(reqs[r].target)
    BY <1>2, IdleType DEF WriteAndEnd, TypeOK, Finish
  <1>3. QED
    BY <1>1, <1>2

LEMMA InitTypeOK == Init => TypeOK
  <1>1. SUFFICES ASSUME Init PROVE TypeOK
    OBVIOUS
  <1>2. users \in [Users -> Row]
    BY <1>1 DEF Init, Row, Status
  <1>3. QED
    BY <1>1, <1>2, IdleType DEF Init, TypeOK

LEMMA LoginTypeOK ==
  ASSUME TypeOK, NEW r \in Requests, Login(r)
  PROVE  TypeOK'
  <1>1. ASSUME NEW u \in Users, LoginRead(r, u)
        PROVE  TypeOK'
    <2>1. RolesOf(users[u]) \in Roles
      BY RolesOfType DEF TypeOK
    <2>2. [Idle EXCEPT !.op = "login", !.phase = "write", !.target = u,
                       !.roles = RolesOf(users[u])] \in Request
      BY <2>1, IdleType DEF Request, RequestRecord, Idle, Nothing, Body, Choice
    <2>3. QED
      BY <1>1, <2>2 DEF LoginRead, TypeOK
  <1>2. CASE LoginMint(r)
    <2>2. /\ reqs[r].target \in Users
          /\ reqs[r].roles \in Roles /\ reqs[r].raced \in BOOLEAN
      BY <1>2, BusyType DEF LoginMint
    <2>3. [user |-> reqs[r].target, roles |-> reqs[r].roles, iat |-> now,
           raced |-> reqs[r].raced, ended |-> FALSE] \in Token
      BY <2>2 DEF Token, TypeOK
    <2>4. QED
      BY <1>2, <2>3, IdleType DEF LoginMint, TypeOK, Finish
  <1>3. QED
    BY <1>1, <1>2 DEF Login

LEMMA DecisionTypeOK ==
  ASSUME TypeOK, NEW r \in Requests, Decide(r)
  PROVE  TypeOK'
  <1>1. ASSUME NEW t \in tokens, NEW op \in Decisions, NEW target \in Users,
               NEW body \in Bodies \cup {Nothing},
               DecisionBegin(r, t, op, target, body)
        PROVE  TypeOK'
    <2>1. body \in Body
      BY DEF Nothing, Body, Choice
    <2>2. t.raced \in BOOLEAN
      BY DEF TypeOK, Token
    <2>3. [Idle EXCEPT !.op = op, !.phase = "begun", !.target = target,
                       !.body = body, !.raced = t.raced /\ TakesSeats(op)] \in Request
      BY <2>1, <2>2, IdleType DEF Request, RequestRecord, Idle, AllDecisions, TakesSeats
    <2>4. QED
      BY <1>1, <2>3 DEF DecisionBegin, TypeOK
  <1>2. CASE DecisionRead(r)
    <2>. DEFINE row == users[reqs[r].target]
                next == [reqs[r] EXCEPT
                           !.roles = IF reqs[r].op = "role" THEN RolesOf(row)
                                     ELSE NoRoles,
                           !.phase = IF reqs[r].op = "role" /\ Demotes(row, reqs[r].body)
                                     THEN "count" ELSE "write"]
    <2>1. CASE Admits(reqs[r].op, row)
      <3>1. /\ reqs[r] \in RequestRecord /\ row \in Row
            /\ reqs[r].op \notin {"idle", "login"} /\ reqs[r].target # NoUser
        BY <1>2, BusyType DEF DecisionRead
      <3>2. reqs' = [reqs EXCEPT ![r] = next]
        BY <1>2, <2>1, <3>1 DEF DecisionRead, TypeOK, RequestRecord
      <3>3. next \in Request
        BY <3>1, RolesOfType DEF Request, RequestRecord, Roles, NoRoles
      <3>4. QED
        BY <1>2, <3>2, <3>3 DEF DecisionRead, TypeOK
    <2>2. CASE ~Admits(reqs[r].op, row)
      BY <1>2, <2>2, IdleType DEF DecisionRead, Finish, TypeOK
    <2>3. QED
      BY <2>1, <2>2
  <1>3. CASE CountAdmins(r)
    <2>. DEFINE next == [reqs[r] EXCEPT !.phase = "write", !.raced = FALSE]
    <2>1. reqs[r] \in RequestRecord /\ next \in Request
      BY <1>3, BusyType DEF CountAdmins, Request, RequestRecord
    <2>2. reqs' = [reqs EXCEPT ![r] = next] \/ Finish(r)
      BY <1>3, <2>1 DEF CountAdmins, TypeOK, RequestRecord
    <2>3. QED
      BY <1>3, <2>1, <2>2, IdleType DEF CountAdmins, Finish, TypeOK
  <1>4. CASE DecisionEnds(r)
    <2>. DEFINE u == reqs[r].target
    <2>1. reqs[r].op # "idle" \/ reqs[r].phase # "idle"
      BY <1>4 DEF DecisionEnds, Approve, Reject, Ban, Reactivate, UpdateRole,
                  UpdateEmail, Delete, Writes
    <2>2. /\ u \in Users /\ users[u] \in Row
          /\ reqs[r].body \in Body /\ reqs[r].roles \in Roles
      BY <2>1, BusyType
    <2>3. /\ CutSessions(users[u]) \in Row
          /\ RowRejected(users[u]) \in Row
          /\ RowWithRoles(users[u], reqs[r].body, reqs[r].roles) \in Row
          /\ [users[u] EXCEPT !.status = "active"] \in Row
      BY <2>2, WrittenRowType
    <2>4. CASE Approve(r) \/ Reactivate(r)
      BY <2>3, <2>4, WriteType DEF Approve, Reactivate
    <2>5. CASE Reject(r) \/ Ban(r)
      BY <2>2, <2>3, <2>5, WriteAndEndType DEF Reject, Ban
    <2>6. CASE UpdateRole(r) \/ UpdateEmail(r)
      BY <2>2, <2>3, <2>6, WriteAndEndType DEF UpdateRole, UpdateEmail
    <2>7. CASE Delete(r)
      BY <2>2, <2>7, BecomesType, NoRowType, IdleType DEF Delete, Finish, TypeOK
    <2>8. QED
      BY <1>4, <2>4, <2>5, <2>6, <2>7 DEF DecisionEnds
  <1>5. QED
    BY <1>1, <1>2, <1>3, <1>4 DEF Decide

LEMMA EnterCodeTypeOK ==
  ASSUME TypeOK, NEW r \in Requests, EnterCode(r)
  PROVE  TypeOK'
  <1>1. PICK u \in Users : ResetPassword(r, u) \/ VerifyCode(r, u)
    BY DEF EnterCode
  <1>2. CASE ResetPassword(r, u)
    <2>1. tokens' \subseteq Token
      BY <1>2, MarkEndedType DEF ResetPassword
    <2>2. reqs' \in [Requests -> Request]
      BY <1>2, MarkRacedType DEF ResetPassword
    <2>3. users' \in [Users -> Row] /\ now' \in Nat
      BY <1>2 DEF ResetPassword, TypeOK, CutSessions, Row
    <2>4. QED
      BY <2>1, <2>2, <2>3 DEF TypeOK
  <1>3. CASE VerifyCode(r, u)
    BY <1>3 DEF VerifyCode, TypeOK, Row, Status
  <1>4. QED
    BY <1>1, <1>2, <1>3

LEMMA NextTypeOK == TypeOK /\ [Next]_vars => TypeOK'
  <1>1. SUFFICES ASSUME TypeOK, [Next]_vars PROVE TypeOK'
    OBVIOUS
  <1>2. CASE Tick
    BY <1>1, <1>2 DEF Tick, TypeOK
  <1>3. ASSUME NEW r \in Requests, Abandon(r) PROVE TypeOK'
    BY <1>1, <1>3, IdleType DEF Abandon, Finish, TypeOK
  <1>4. CASE UNCHANGED vars
    BY <1>1, <1>4 DEF vars, TypeOK
  <1>5. QED
    BY <1>1, <1>2, <1>3, <1>4, LoginTypeOK, DecisionTypeOK, EnterCodeTypeOK
       DEF Next

\* Every variable of Sessions keeps its type: the table its rows, each slot a
\* request that knows its target.
THEOREM TypeCorrect == Spec => []TypeOK
  BY InitTypeOK, NextTypeOK, PTL DEF Spec

-----------------------------------------------------------------------------
(* Sessions under any interleaving of requests.                            *)

\* A write that leaves the roles and the cutoff of its row alone, or removes it.
LEMMA PlainWriteKeeps ==
  ASSUME TypeOK, SessionInv, NEW u \in Users, NEW row \in Row, Exists(u),
         \/ row.status = "absent"
         \/ /\ RolesOf(row) = RolesOf(users[u])
            /\ row.cutoff = users[u].cutoff
            /\ row.status # "rejected",
         row.cutoff <= now,
         users' = [users EXCEPT ![u] = row], UNCHANGED <<tokens, now>>,
         \A q \in Requests : \/ reqs'[q] = Idle \/ reqs'[q] = reqs[q]
                            \/ reqs'[q] = MarkRaced(q, u, row)
  PROVE  SessionInv'
  <1>1. ClockInv'
    BY DEF SessionInv, ClockInv, TypeOK, Row
  <1>2. \A v \in Users, roles \in Roles :
           Exists(v)' /\ Current(v, roles) => Exists(v) /\ Current(v, roles)'
    BY DEF Exists, Current, TypeOK
  <1>3. \A v \in Users : Exists(v)' =>
           Exists(v) /\ users'[v].cutoff = users[v].cutoff
    BY DEF Exists, TypeOK
  <1>4. TokenInv'
    BY <1>2, <1>3 DEF SessionInv, TokenInv, TypeOK, Token
  <1>5. LoginInv'
    <2>1. SUFFICES ASSUME NEW q \in Requests, reqs'[q].op = "login",
                          ~reqs'[q].raced, Exists(reqs[q].target)'
                   PROVE  Current(reqs[q].target, reqs[q].roles)'
      BY DEF LoginInv
    <2>2. reqs'[q] = reqs[q]
      <3>1. reqs'[q] = reqs[q] \/ reqs'[q] = MarkRaced(q, u, row)
        BY <2>1 DEF Idle
      <3>2. reqs[q] \in RequestRecord
        BY IdleType DEF TypeOK, Request
      <3>3. QED
        BY <2>1, <3>1, <3>2 DEF MarkRaced, RequestRecord
    <2>3. reqs[q].target \in Users /\ reqs[q].roles \in Roles
      BY <2>1, <2>2, BusyType
    <2>4. Exists(reqs[q].target) /\ Current(reqs[q].target, reqs[q].roles)
      BY <1>3, <2>1, <2>2, <2>3 DEF SessionInv, LoginInv, Exists
    <2>5. QED
      BY <2>1, <2>2, <2>3, <2>4 DEF TypeOK, Exists, Current
  <1>6. QED
    BY <1>1, <1>4, <1>5 DEF SessionInv

\* A write that ends the sessions of its member.
LEMMA EndingKeeps ==
  ASSUME TypeOK, SessionInv, NEW u \in Users, NEW row \in Row, Exists(u),
         row.cutoff = now, users' = [users EXCEPT ![u] = row],
         MarkEnded(u), now' = now,
         \A q \in Requests : reqs'[q] = Idle \/ reqs'[q] = MarkRaced(q, u, row)
  PROVE  SessionInv'
  <1>1. ClockInv'
    BY DEF SessionInv, ClockInv, TypeOK
  <1>2. /\ users'[u].cutoff = now
        /\ \A v \in Users : v # u => users'[v] = users[v]
    BY DEF TypeOK
  <1>3. TokenInv'
    <2>1. SUFFICES ASSUME NEW t \in tokens'
                   PROVE  /\ t.iat <= now'
                          /\ Exists(t.user)' /\ t.ended =>
                                 t.iat <= users'[t.user].cutoff
                          /\ Exists(t.user)' /\ ~t.ended /\ ~t.raced =>
                                 Current(t.user, t.roles)'
      BY DEF TokenInv
    <2>2. PICK s \in tokens :
              t = IF s.user = u THEN [s EXCEPT !.ended = TRUE] ELSE s
      BY DEF MarkEnded
    <2>3. s \in Token /\ s.iat <= now
      BY DEF TypeOK, SessionInv, TokenInv
    <2>4. CASE s.user = u
      <3>1. t.user = u /\ t.ended /\ t.iat = s.iat
        BY <2>2, <2>3, <2>4 DEF Token
      <3>2. QED
        BY <1>2, <2>3, <3>1
    <2>5. CASE s.user # u
      <3>1. t = s /\ s.user \in Users /\ users'[s.user] = users[s.user]
        BY <1>2, <2>2, <2>3, <2>5 DEF Token
      <3>2. QED
        BY <2>3, <3>1 DEF SessionInv, TokenInv, Exists, Current
    <2>6. QED
      BY <2>4, <2>5
  <1>4. LoginInv'
    <2>1. SUFFICES ASSUME NEW q \in Requests, reqs'[q].op = "login",
                          ~reqs'[q].raced, Exists(reqs[q].target)'
                   PROVE  Current(reqs[q].target, reqs[q].roles)'
      BY DEF LoginInv
    <2>2. reqs'[q] = MarkRaced(q, u, row)
      BY <2>1 DEF Idle
    <2>3. reqs[q].op = "login"
      BY <2>1, <2>2, BusyType DEF MarkRaced, RequestRecord
    <2>4. reqs[q] \in RequestRecord /\ reqs[q].target \in Users
      BY <2>3, BusyType
    <2>5. reqs[q].target # u /\ reqs'[q] = reqs[q]
      BY <2>1, <2>2, <2>3, <2>4 DEF MarkRaced, RequestRecord
    <2>6. QED
      BY <1>2, <2>1, <2>3, <2>4, <2>5 DEF SessionInv, LoginInv, Exists, Current
  <1>5. QED
    BY <1>1, <1>3, <1>4 DEF SessionInv

\* A step that reads, or gives up.
LEMMA ReadKeeps ==
  ASSUME TypeOK, SessionInv, UNCHANGED <<users, tokens, now>>,
         \A q \in Requests :
            \/ reqs'[q].op # "login"
            \/ reqs'[q] = reqs[q]
            \/ Current(reqs'[q].target, reqs'[q].roles)
  PROVE  SessionInv'
  BY DEF SessionInv, ClockInv, TokenInv, LoginInv, Exists, Current

LEMMA InitSessionInv == Init => SessionInv
  BY DEF Init, SessionInv, ClockInv, TokenInv, LoginInv, Idle

LEMMA LoginSessionInv ==
  ASSUME TypeOK, SessionInv, NEW r \in Requests, Login(r)
  PROVE  SessionInv'
  <1>1. ASSUME NEW u \in Users, LoginRead(r, u)
        PROVE  SessionInv'
    <2>. DEFINE slot == [Idle EXCEPT !.op = "login", !.phase = "write",
                           !.target = u, !.roles = RolesOf(users[u])]
    <2>1. /\ slot.target = u /\ slot.roles = RolesOf(users[u])
          /\ \A q \in Requests : reqs'[q] = IF q = r THEN slot ELSE reqs[q]
      BY <1>1 DEF LoginRead, TypeOK, Idle
    <2>2. Current(u, RolesOf(users[u]))
      BY <1>1 DEF LoginRead, MayLogIn, Current
    <2>3. QED
      BY <1>1, <2>1, <2>2, ReadKeeps DEF LoginRead
  <1>2. CASE LoginMint(r)
    <2>. DEFINE new == [user |-> reqs[r].target, roles |-> reqs[r].roles,
                        iat |-> now, raced |-> reqs[r].raced, ended |-> FALSE]
    <2>1. /\ tokens' = tokens \cup {new}
          /\ users' = users /\ now' = now
          /\ \A q \in Requests : reqs'[q] = IF q = r THEN Idle ELSE reqs[q]
      BY <1>2 DEF LoginMint, Finish, TypeOK
    <2>2. /\ new.iat = now /\ new.ended = FALSE
          /\ new.user = reqs[r].target /\ new.roles = reqs[r].roles
          /\ new.raced = reqs[r].raced
      OBVIOUS
    <2>3. Exists(new.user) /\ ~new.raced => Current(new.user, new.roles)
      BY <1>2, <2>2 DEF LoginMint, SessionInv, LoginInv
    <2>4. ClockInv' /\ LoginInv'
      BY <2>1 DEF SessionInv, ClockInv, LoginInv, Exists, Current, Idle
    <2>5. now \in Nat
      BY DEF TypeOK
    <2>6. TokenInv'
      BY <2>1, <2>2, <2>3, <2>5 DEF SessionInv, TokenInv, Exists, Current
    <2>7. QED
      BY <2>4, <2>6 DEF SessionInv
  <1>3. QED
    BY <1>1, <1>2 DEF Login

LEMMA DecisionSessionInv ==
  ASSUME TypeOK, SessionInv, NEW r \in Requests, Decide(r)
  PROVE  SessionInv'
  <1>1. ASSUME NEW t \in tokens, NEW op \in Decisions, NEW target \in Users,
               NEW body \in Bodies \cup {Nothing},
               DecisionBegin(r, t, op, target, body)
        PROVE  SessionInv'
    <2>. DEFINE slot == [Idle EXCEPT !.op = op, !.phase = "begun",
                           !.target = target, !.body = body,
                           !.raced = t.raced /\ TakesSeats(op)]
    <2>1. /\ slot.op # "login"
          /\ \A q \in Requests : reqs'[q] = IF q = r THEN slot ELSE reqs[q]
      BY <1>1 DEF DecisionBegin, TypeOK, Idle, AllDecisions
    <2>2. QED
      BY <1>1, <2>1, ReadKeeps DEF DecisionBegin
  <1>2. CASE DecisionRead(r) \/ CountAdmins(r)
    <2>1. UNCHANGED <<users, tokens, now>>
      BY <1>2 DEF DecisionRead, CountAdmins
    <2>2. reqs[r].phase \in {"begun", "count"}
      BY <1>2 DEF DecisionRead, CountAdmins
    <2>3. reqs[r] \in RequestRecord
      BY <2>2, BusyType
    <2>4. \A q \in Requests : \/ q # r /\ reqs'[q] = reqs[q]
                              \/ q = r /\ reqs'[r].op \in {"idle", reqs[r].op}
      BY <1>2, <2>3 DEF DecisionRead, CountAdmins, Finish, TypeOK, Idle,
                        RequestRecord
    <2>5. reqs[r].op # "login"
      BY <2>2, BusyType
    <2>6. QED
      BY <2>1, <2>4, <2>5, ReadKeeps
  <1>3. CASE DecisionEnds(r)
    <2>. DEFINE u == reqs[r].target
    <2>1. reqs[r].op # "idle" \/ reqs[r].phase # "idle"
      BY <1>3 DEF DecisionEnds, Approve, Reject, Ban, Reactivate, UpdateRole,
                  UpdateEmail, Delete, Writes
    <2>2. /\ u \in Users /\ users[u] \in Row
          /\ reqs[r].body \in Body /\ reqs[r].roles \in Roles
          /\ now \in Nat /\ users[u].cutoff <= now
      BY <2>1, BusyType DEF SessionInv, ClockInv, TypeOK
    <2>3. ASSUME ~Exists(u), Finish(r), UNCHANGED <<users, tokens, now>>
          PROVE  SessionInv'
      BY <2>3, ReadKeeps DEF Finish, TypeOK, Idle
    <2>4. ASSUME NEW row \in Row, Write(r, row),
                 row = [users[u] EXCEPT !.status = "active"]
          PROVE  SessionInv'
      <3>1. CASE Exists(u)
        <4>1. /\ row.cutoff <= now
              /\ RolesOf(row) = RolesOf(users[u])
              /\ row.cutoff = users[u].cutoff
              /\ row.status # "rejected"
          BY <2>2, <2>4 DEF RolesOf, Row
        <4>2. \A q \in Requests : reqs'[q] = Idle \/ reqs'[q] = reqs[q]
          BY <2>4 DEF Write, Finish, TypeOK
        <4>3. users' = [users EXCEPT ![u] = row] /\ UNCHANGED <<tokens, now>>
          BY <2>4, <3>1 DEF Write
        <4>4. QED
          BY <2>2, <3>1, <4>1, <4>2, <4>3, PlainWriteKeeps
      <3>2. CASE ~Exists(u)
        BY <2>3, <2>4, <3>2 DEF Write
      <3>3. QED
        BY <3>1, <3>2
    <2>5. ASSUME NEW row \in Row, WriteAndEnd(r, row), row.cutoff = now
          PROVE  SessionInv'
      <3>1. CASE Exists(u)
        <4>1. \A q \in Requests : \/ reqs'[q] = Idle
                                 \/ reqs'[q] = MarkRaced(q, u, row)
          BY <2>5, <3>1 DEF WriteAndEnd, Becomes
        <4>2. QED
          BY <2>2, <2>5, <3>1, <4>1, EndingKeeps DEF WriteAndEnd, Becomes
      <3>2. CASE ~Exists(u)
        BY <2>3, <2>5, <3>2 DEF WriteAndEnd
      <3>3. QED
        BY <3>1, <3>2
    <2>6. /\ CutSessions(users[u]) \in Row
          /\ RowRejected(users[u]) \in Row
          /\ RowWithRoles(users[u], reqs[r].body, reqs[r].roles) \in Row
          /\ [users[u] EXCEPT !.status = "active"] \in Row
      BY <2>2, WrittenRowType
    <2>7. /\ CutSessions(users[u]).cutoff = now
          /\ RowRejected(users[u]).cutoff = now
          /\ RowWithRoles(users[u], reqs[r].body, reqs[r].roles).cutoff = now
      BY <2>2 DEF CutSessions, RowRejected, RowWithRoles, Row
    <2>8. CASE Approve(r) \/ Reactivate(r)
      BY <2>4, <2>6, <2>8 DEF Approve, Reactivate
    <2>9. CASE Reject(r) \/ Ban(r) \/ UpdateRole(r) \/ UpdateEmail(r)
      BY <2>5, <2>6, <2>7, <2>9 DEF Reject, Ban, UpdateRole, UpdateEmail
    <2>10. CASE Delete(r)
      <3>1. CASE Exists(u)
        <4>1. \A q \in Requests : \/ reqs'[q] = Idle
                                 \/ reqs'[q] = MarkRaced(q, u, NoRow)
          BY <2>10, <3>1 DEF Delete, Becomes
        <4>2. NoRow.status = "absent" /\ NoRow.cutoff <= now
          BY <2>2 DEF NoRow
        <4>3. QED
          BY <2>2, <2>10, <3>1, <4>1, <4>2, NoRowType, PlainWriteKeeps
          DEF Delete, Becomes
      <3>2. CASE ~Exists(u)
        BY <2>3, <2>10, <3>2 DEF Delete
      <3>3. QED
        BY <3>1, <3>2
    <2>11. QED
      BY <1>3, <2>8, <2>9, <2>10 DEF DecisionEnds
  <1>4. QED
    BY <1>1, <1>2, <1>3 DEF Decide

LEMMA EnterCodeSessionInv ==
  ASSUME TypeOK, SessionInv, NEW r \in Requests, EnterCode(r)
  PROVE  SessionInv'
  <1>1. PICK u \in Users : ResetPassword(r, u) \/ VerifyCode(r, u)
    BY DEF EnterCode
  <1>2. users[u] \in Row /\ now \in Nat /\ users[u].cutoff <= now
    BY DEF TypeOK, SessionInv, ClockInv
  <1>3. CASE ResetPassword(r, u)
    <2>1. CutSessions(users[u]) \in Row /\ CutSessions(users[u]).cutoff = now
      BY <1>2 DEF CutSessions, Row
    <2>2. users' = [users EXCEPT ![u] = CutSessions(users[u])]
      BY <1>3 DEF ResetPassword
    <2>3. \A q \in Requests :
             \/ reqs'[q] = Idle \/ reqs'[q] = MarkRaced(q, u, CutSessions(users[u]))
      <3>1. CutSessions(users[u]).admin = users[u].admin
        BY <1>2 DEF CutSessions, Row
      <3>2. QED
        BY <1>3, <3>1 DEF ResetPassword, MarkRaced
    <2>4. QED
      BY <1>3, <2>1, <2>2, <2>3, EndingKeeps DEF ResetPassword
  <1>4. CASE VerifyCode(r, u)
    <2>1. PICK status \in {"active", "pending"} :
             users' = [users EXCEPT ![u].status = status]
      BY <1>4 DEF VerifyCode
    <2>. DEFINE row == [users[u] EXCEPT !.status = status]
    <2>2. /\ row \in Row /\ RolesOf(row) = RolesOf(users[u])
          /\ row.cutoff = users[u].cutoff /\ row.status # "rejected"
      BY <1>2 DEF Row, Status, RolesOf
    <2>3. users' = [users EXCEPT ![u] = row]
      BY <2>1 DEF TypeOK
    <2>4. Exists(u) /\ UNCHANGED <<tokens, reqs, now>>
      BY <1>4 DEF VerifyCode
    <2>5. QED
      BY <1>2, <2>2, <2>3, <2>4, PlainWriteKeeps
  <1>5. QED
    BY <1>1, <1>3, <1>4

LEMMA NextSessionInv == TypeOK /\ SessionInv /\ [Next]_vars => SessionInv'
  <1>1. SUFFICES ASSUME TypeOK, SessionInv, [Next]_vars PROVE SessionInv'
    OBVIOUS
  <1>2. CASE Tick
    <2>1. \A u \in Users : users[u].cutoff \in Nat
      BY <1>1 DEF TypeOK, Row
    <2>2. \A t \in tokens : t.iat \in Nat
      BY <1>1 DEF TypeOK, Token
    <2>3. QED
      BY <1>1, <1>2, <2>1, <2>2 DEF Tick, TypeOK, SessionInv, ClockInv, TokenInv,
                                    LoginInv, Exists, Current
  <1>3. ASSUME NEW r \in Requests, Abandon(r) PROVE SessionInv'
    BY <1>1, <1>3, ReadKeeps DEF Abandon, Finish, TypeOK, Idle
  <1>4. CASE UNCHANGED vars
    BY <1>1, <1>4, ReadKeeps DEF vars
  <1>5. QED
    BY <1>1, <1>2, <1>3, <1>4, LoginSessionInv, DecisionSessionInv,
       EnterCodeSessionInv DEF Next

LEMMA SessionInvProperties ==
  TypeOK /\ SessionInv =>
    /\ CutRevokesIssuedTokens
    /\ SessionCarriesCurrentRoles
    /\ RejectedHasNoSession
  <1>1. SUFFICES ASSUME TypeOK, SessionInv, NEW t \in tokens, Accepts(t)
                 PROVE  /\ ~t.ended
                        /\ ~t.raced => /\ t.roles = RolesOf(users[t.user])
                                       /\ users[t.user].status # "rejected"
    BY DEF CutRevokesIssuedTokens, SessionCarriesCurrentRoles,
           RejectedHasNoSession
  <1>2. t.iat \in Nat /\ users[t.user].cutoff \in Nat
    BY <1>1 DEF TypeOK, Token, Row
  <1>3. ~t.ended
    BY <1>1, <1>2 DEF Accepts, SessionInv, TokenInv
  <1>4. QED
    BY <1>1, <1>3 DEF Accepts, SessionInv, TokenInv, Current

LEMMA SessionInvCorrect == Spec => [](TypeOK /\ SessionInv)
  BY InitTypeOK, NextTypeOK, InitSessionInv, NextSessionInv, PTL DEF Spec

\* A reset, a ban, a rejection, a role or an email change ends every session
\* opened before it, whatever the requests in flight do.
THEOREM CutsAreFinal == Spec => []CutRevokesIssuedTokens
  BY SessionInvCorrect, SessionInvProperties, PTL

\* The roles in a session are the row's, unless its login raced with a cut.
THEOREM RolesAreCurrent == Spec => []SessionCarriesCurrentRoles
  BY SessionInvCorrect, SessionInvProperties, PTL

\* A rejected or banned member has no session, unless its login raced.
THEOREM RejectedAreOut == Spec => []RejectedHasNoSession
  BY SessionInvCorrect, SessionInvProperties, PTL

-----------------------------------------------------------------------------
(* The last admin.                                                         *)

\* A step that keeps every seat, or marks who relied on the one it takes.
LEMMA SeatKept ==
  ASSUME TypeOK, SeatInv,
         \A q \in Requests :
            reqs'[q].op \in {"role", "delete"} /\ ~reqs'[q].raced =>
               /\ reqs'[q] = reqs[q]
               /\ \A v \in Users : users[v].admin => users'[v].admin
  PROVE  SeatInv'
  BY DEF SeatInv, OtherAdmins

\* A write that does not take the seat of its member.
LEMMA SeatedWriteKeeps ==
  ASSUME TypeOK, SeatInv, NEW u \in Users, NEW row,
         users' = [users EXCEPT ![u] = row] \/ users' = users,
         row.admin = users[u].admin,
         \A q \in Requests :
            reqs'[q] = Idle \/ reqs'[q] = reqs[q] \/ reqs'[q] = MarkRaced(q, u, row)
  PROVE  SeatInv'
  <1>1. ASSUME NEW q \in Requests, reqs'[q].op \in {"role", "delete"}
        PROVE  reqs'[q] = reqs[q]
    <2>1. reqs[q] \in RequestRecord
      BY IdleType DEF TypeOK, Request
    <2>2. ~(users[u].admin /\ ~row.admin) /\ reqs'[q] # Idle
      BY <1>1 DEF Idle
    <2>3. CASE reqs[q].op = "login"
      BY <1>1, <2>1, <2>2, <2>3 DEF MarkRaced, RequestRecord
    <2>4. CASE reqs[q].op # "login"
      BY <2>2, <2>4 DEF MarkRaced
    <2>5. QED
      BY <2>3, <2>4
  <1>2. \A v \in Users : users[v].admin => users'[v].admin
    BY DEF TypeOK
  <1>3. QED
    BY <1>1, <1>2, SeatKept

\* The write that ends request r, whatever it does to the seat of its member.
LEMMA BecomesKeepsSeats ==
  ASSUME TypeOK, SeatInv, NEW r \in Requests, NEW u \in Users, NEW row,
         Becomes(r, u, row)
  PROVE  SeatInv'
  <1>1. SUFFICES ASSUME NEW q \in Requests, reqs'[q].op \in {"role", "delete"},
                        ~reqs'[q].raced
                 PROVE  /\ reqs'[q] = reqs[q]
                        /\ \A v \in Users : users[v].admin => users'[v].admin
    BY SeatKept
  <1>2. reqs'[q] = MarkRaced(q, u, row)
    BY <1>1 DEF Becomes, Idle
  <1>3. reqs[q] \in RequestRecord
    BY IdleType DEF TypeOK, Request
  <1>4. /\ reqs'[q] = reqs[q]
        /\ ~(users[u].admin /\ ~row.admin)
    BY <1>1, <1>2, <1>3 DEF MarkRaced, TakesSeats, RequestRecord
  <1>5. users' = [users EXCEPT ![u] = row]
    BY DEF Becomes
  <1>6. QED
    BY <1>4, <1>5 DEF TypeOK

LEMMA InitSeatInv == Init => SeatInv
  BY DEF Init, SeatInv, Idle

\* Whoever begins a role change or a deletion from a session whose login did not
\* race is an admin and not its target.
LEMMA CallerIsAnotherAdmin ==
  ASSUME TypeOK, SessionInv, NEW r \in Requests, NEW t \in tokens,
         NEW op, NEW target \in Users, NEW body,
         DecisionBegin(r, t, op, target, body), op \in {"role", "delete"}, ~t.raced
  PROVE  OtherAdmins(target) # {}
  <1>1. Accepts(t) /\ t.roles.admin /\ t.user # target
    BY DEF DecisionBegin, NotOnSelf
  <1>2. t.user \in Users
    BY DEF TypeOK, Token
  <1>3. t.roles = RolesOf(users[t.user])
    BY <1>1, SessionInvProperties DEF SessionCarriesCurrentRoles
  <1>4. users[t.user].admin
    BY <1>1, <1>3 DEF RolesOf
  <1>5. QED
    BY <1>1, <1>2, <1>4 DEF OtherAdmins

\* A request whose slot changes and whose tables do not.
LEMMA SlotKeepsSeats ==
  ASSUME TypeOK, SeatInv, NEW r \in Requests, users' = users, NEW slot,
         \A q \in Requests : reqs'[q] = IF q = r THEN slot ELSE reqs[q],
         slot.op \in {"role", "delete"} /\ ~slot.raced =>
            OtherAdmins(slot.target) # {}
  PROVE  SeatInv'
  BY DEF SeatInv, OtherAdmins

LEMMA LoginSeatInv ==
  ASSUME TypeOK, SeatInv, NEW r \in Requests, Login(r)
  PROVE  SeatInv'
  <1>1. ASSUME NEW u \in Users, LoginRead(r, u)
        PROVE  SeatInv'
    <2>. DEFINE slot == [Idle EXCEPT !.op = "login", !.phase = "write",
                           !.target = u, !.roles = RolesOf(users[u])]
    <2>1. /\ slot.op = "login" /\ users' = users
          /\ \A q \in Requests : reqs'[q] = IF q = r THEN slot ELSE reqs[q]
      BY <1>1 DEF LoginRead, TypeOK, Idle
    <2>2. QED
      BY <2>1, SlotKeepsSeats
  <1>2. CASE LoginMint(r)
    <2>1. /\ Idle.op = "idle" /\ users' = users
          /\ \A q \in Requests : reqs'[q] = IF q = r THEN Idle ELSE reqs[q]
      BY <1>2 DEF LoginMint, Finish, TypeOK, Idle
    <2>2. QED
      BY <2>1, SlotKeepsSeats
  <1>3. QED
    BY <1>1, <1>2 DEF Login

\* The statements before the one that writes.
LEMMA DecisionReadsSeatInv ==
  ASSUME TypeOK, SessionInv, SeatInv, NEW r \in Requests,
         \/ \E t \in tokens, op \in Decisions, target \in Users,
              body \in Bodies \cup {Nothing} : DecisionBegin(r, t, op, target, body)
         \/ DecisionRead(r) \/ CountAdmins(r)
  PROVE  SeatInv'
  <1>0. Idle.op = "idle"
    BY DEF Idle
  <1>1. ASSUME NEW t \in tokens, NEW op \in Decisions, NEW target \in Users,
               NEW body \in Bodies \cup {Nothing},
               DecisionBegin(r, t, op, target, body)
        PROVE  SeatInv'
    <2>. DEFINE slot == [Idle EXCEPT !.op = op, !.phase = "begun",
                           !.target = target, !.body = body,
                           !.raced = t.raced /\ TakesSeats(op)]
    <2>1. /\ slot.op = op /\ slot.target = target
          /\ op \in {"role", "delete"} => (slot.raced <=> t.raced)
          /\ users' = users
          /\ \A q \in Requests : reqs'[q] = IF q = r THEN slot ELSE reqs[q]
      BY <1>1 DEF DecisionBegin, TypeOK, Idle, TakesSeats
    <2>2. op \in {"role", "delete"} /\ ~t.raced => OtherAdmins(target) # {}
      BY <1>1, CallerIsAnotherAdmin
    <2>3. QED
      BY <2>1, <2>2, SlotKeepsSeats
  <1>2. CASE DecisionRead(r)
    <2>. DEFINE next == [reqs[r] EXCEPT
                           !.roles = IF reqs[r].op = "role"
                                     THEN RolesOf(users[reqs[r].target]) ELSE NoRoles,
                           !.phase = IF /\ reqs[r].op = "role"
                                        /\ Demotes(users[reqs[r].target], reqs[r].body)
                                     THEN "count" ELSE "write"]
    <2>1. users' = users /\ reqs[r] \in RequestRecord
      BY <1>2, BusyType DEF DecisionRead
    <2>2. /\ next.op = reqs[r].op /\ next.target = reqs[r].target
          /\ next.raced = reqs[r].raced
      BY <2>1 DEF RequestRecord
    <2>3. \/ \A q \in Requests : reqs'[q] = IF q = r THEN next ELSE reqs[q]
          \/ \A q \in Requests : reqs'[q] = IF q = r THEN Idle ELSE reqs[q]
      BY <1>2, <2>1 DEF DecisionRead, Finish, TypeOK, RequestRecord
    <2>4. next.op \in {"role", "delete"} /\ ~next.raced =>
             OtherAdmins(next.target) # {}
      BY <2>2 DEF SeatInv
    <2>5. CASE \A q \in Requests : reqs'[q] = IF q = r THEN next ELSE reqs[q]
      BY <2>1, <2>4, <2>5, SlotKeepsSeats
    <2>6. CASE \A q \in Requests : reqs'[q] = IF q = r THEN Idle ELSE reqs[q]
      BY <1>0, <2>1, <2>6, SlotKeepsSeats
    <2>7. QED
      BY <2>3, <2>5, <2>6
  <1>3. CASE CountAdmins(r)
    <2>. DEFINE next == [reqs[r] EXCEPT !.phase = "write", !.raced = FALSE]
    <2>1. users' = users /\ reqs[r] \in RequestRecord
      BY <1>3, BusyType DEF CountAdmins
    <2>2. next.target = reqs[r].target
      BY <2>1 DEF RequestRecord
    <2>3. \/ /\ OtherAdmins(reqs[r].target) # {}
             /\ \A q \in Requests : reqs'[q] = IF q = r THEN next ELSE reqs[q]
          \/ \A q \in Requests : reqs'[q] = IF q = r THEN Idle ELSE reqs[q]
      BY <1>3, <2>1 DEF CountAdmins, Finish, TypeOK, RequestRecord
    <2>4. QED
      BY <1>0, <2>1, <2>2, <2>3, SlotKeepsSeats
  <1>4. QED
    BY <1>1, <1>2, <1>3

\* The rows the decisions write, as far as the seat goes.
LEMMA WrittenSeats ==
  ASSUME NEW row \in Row
  PROVE  /\ CutSessions(row).admin = row.admin
         /\ RowRejected(row).admin = row.admin
         /\ [row EXCEPT !.status = "active"].admin = row.admin
  BY DEF CutSessions, RowRejected, Row

\* Which writes take a seat.
LEMMA DecisionWrites ==
  ASSUME TypeOK, NEW r \in Requests, DecisionEnds(r)
  PROVE  LET u == reqs[r].target IN
         /\ u \in Users
         /\ \/ Finish(r) /\ users' = users
            \/ \E row : /\ row.admin = users[u].admin
                        /\ users' = [users EXCEPT ![u] = row]
                        /\ Finish(r) \/ Becomes(r, u, row)
            \/ /\ UpdateRole(r) \/ Delete(r)
               /\ \E row : Becomes(r, u, row)
  <1>. DEFINE u == reqs[r].target
  <1>1. reqs[r].op # "idle" \/ reqs[r].phase # "idle"
    BY DEF DecisionEnds, Approve, Reject, Ban, Reactivate, UpdateRole,
           UpdateEmail, Delete, Writes
  <1>2. u \in Users /\ users[u] \in Row
    BY <1>1, BusyType
  <1>3. /\ CutSessions(users[u]).admin = users[u].admin
        /\ RowRejected(users[u]).admin = users[u].admin
        /\ [users[u] EXCEPT !.status = "active"].admin = users[u].admin
    BY <1>2, WrittenSeats
  <1>4. CASE Approve(r) \/ Reactivate(r)
    BY <1>2, <1>3, <1>4 DEF Approve, Reactivate, Write
  <1>5. CASE Reject(r) \/ Ban(r) \/ UpdateEmail(r)
    BY <1>2, <1>3, <1>5 DEF Reject, Ban, UpdateEmail, WriteAndEnd, Becomes
  <1>6. CASE UpdateRole(r)
    BY <1>2, <1>6 DEF UpdateRole, WriteAndEnd
  <1>7. CASE Delete(r)
    BY <1>2, <1>7 DEF Delete
  <1>8. QED
    BY <1>4, <1>5, <1>6, <1>7 DEF DecisionEnds

LEMMA DecisionSeatInv ==
  ASSUME TypeOK, SessionInv, SeatInv, NEW r \in Requests, Decide(r)
  PROVE  SeatInv'
  <1>1. CASE ~DecisionEnds(r)
    BY <1>1, DecisionReadsSeatInv DEF Decide
  <1>2. CASE DecisionEnds(r)
    <2>. DEFINE u == reqs[r].target
    <2>1. u \in Users
      BY <1>2, DecisionWrites
    <2>2. ASSUME Finish(r)
          PROVE  \A q \in Requests : reqs'[q] = Idle \/ reqs'[q] = reqs[q]
      BY <2>2 DEF Finish, TypeOK
    <2>3. CASE Finish(r) /\ users' = users
      BY <2>1, <2>2, <2>3, SeatedWriteKeeps
    <2>4. ASSUME NEW row, row.admin = users[u].admin, Finish(r),
                 users' = [users EXCEPT ![u] = row]
          PROVE  SeatInv'
      BY <2>1, <2>2, <2>4, SeatedWriteKeeps
    <2>5. ASSUME NEW row, Becomes(r, u, row) PROVE SeatInv'
      BY <2>1, <2>5, BecomesKeepsSeats
    <2>6. QED
      BY <1>2, <2>3, <2>4, <2>5, DecisionWrites
  <1>3. QED
    BY <1>1, <1>2

LEMMA EnterCodeSeatInv ==
  ASSUME TypeOK, SeatInv, NEW r \in Requests, EnterCode(r)
  PROVE  SeatInv'
  <1>1. PICK u \in Users : ResetPassword(r, u) \/ VerifyCode(r, u)
    BY DEF EnterCode
  <1>2. users[u] \in Row
    BY DEF TypeOK
  <1>3. CASE ResetPassword(r, u)
    <2>. DEFINE row == CutSessions(users[u])
    <2>1. row.admin = users[u].admin
      BY <1>2, WrittenSeats
    <2>2. /\ users' = [users EXCEPT ![u] = row]
          /\ \A q \in Requests : reqs'[q] = MarkRaced(q, u, row)
      BY <1>3, <2>1 DEF ResetPassword, MarkRaced
    <2>3. QED
      BY <2>1, <2>2, SeatedWriteKeeps
  <1>4. CASE VerifyCode(r, u)
    <2>1. PICK status \in {"active", "pending"} :
             users' = [users EXCEPT ![u].status = status]
      BY <1>4 DEF VerifyCode
    <2>. DEFINE row == [users[u] EXCEPT !.status = status]
    <2>2. row.admin = users[u].admin /\ users' = [users EXCEPT ![u] = row]
      BY <1>2, <2>1 DEF TypeOK, Row
    <2>3. reqs' = reqs
      BY <1>4 DEF VerifyCode
    <2>4. QED
      BY <2>2, <2>3, SeatedWriteKeeps
  <1>5. QED
    BY <1>1, <1>3, <1>4

LEMMA NextSeatInv == TypeOK /\ SessionInv /\ SeatInv /\ [Next]_vars => SeatInv'
  <1>1. SUFFICES ASSUME TypeOK, SessionInv, SeatInv, [Next]_vars
                 PROVE  SeatInv'
    OBVIOUS
  <1>2. CASE Tick \/ UNCHANGED vars
    BY <1>1, <1>2 DEF Tick, vars, SeatInv, OtherAdmins
  <1>3. ASSUME NEW r \in Requests, Abandon(r) PROVE SeatInv'
    <2>1. /\ Idle.op = "idle" /\ users' = users
          /\ \A q \in Requests : reqs'[q] = IF q = r THEN Idle ELSE reqs[q]
      BY <1>1, <1>3 DEF Abandon, Finish, TypeOK, Idle
    <2>2. QED
      BY <1>1, <2>1, SlotKeepsSeats
  <1>4. QED
    BY <1>1, <1>2, <1>3, LoginSeatInv, DecisionSeatInv, EnterCodeSeatInv DEF Next

\* Only a demotion or a deletion takes the last seat, and only one that raced.
LEMMA LastSeat ==
  ASSUME TypeOK, SeatInv, [Next]_vars, SomeAdmin, ~SomeAdmin'
  PROVE  \E r \in Requests : reqs[r].raced /\ (UpdateRole(r) \/ Delete(r))
  <1>1. ASSUME NEW u \in Users, NEW row,
               users' = [users EXCEPT ![u] = row],
               row.admin = users[u].admin \/ OtherAdmins(u) # {}
        PROVE  FALSE
    BY <1>1 DEF TypeOK, SomeAdmin, OtherAdmins
  <1>2. users' # users
    BY DEF SomeAdmin
  <1>3. PICK r \in Requests : DecisionEnds(r) \/ EnterCode(r)
    BY <1>2 DEF Next, vars, Tick, Login, LoginRead, LoginMint, Decide,
                DecisionBegin, DecisionRead, CountAdmins, Abandon
  <1>4. ~EnterCode(r)
    <2>1. ASSUME NEW u \in Users, ResetPassword(r, u) PROVE FALSE
      BY <1>1, <2>1, WrittenSeats DEF ResetPassword, TypeOK
    <2>2. ASSUME NEW u \in Users, NEW status \in {"active", "pending"},
                 users' = [users EXCEPT ![u].status = status]
          PROVE  FALSE
      <3>1. users' = [users EXCEPT ![u] = [users[u] EXCEPT !.status = status]]
        BY <2>2 DEF TypeOK
      <3>2. [users[u] EXCEPT !.status = status].admin = users[u].admin
        BY DEF TypeOK, Row
      <3>3. QED
        BY <1>1, <3>1, <3>2
    <2>3. QED
      BY <2>1, <2>2 DEF EnterCode, VerifyCode
  <1>. DEFINE u == reqs[r].target
  <1>5. u \in Users /\ (UpdateRole(r) \/ Delete(r)) /\ \E row : Becomes(r, u, row)
    BY <1>1, <1>2, <1>3, <1>4, DecisionWrites
  <1>6. OtherAdmins(u) = {}
    BY <1>1, <1>5 DEF Becomes
  <1>7. reqs[r].raced
    BY <1>5, <1>6, BusyType DEF SeatInv, UpdateRole, Delete, Writes
  <1>8. QED
    BY <1>5, <1>7

\* Somebody is admin until a role change or a deletion that another demotion or
\* deletion overtook, or a deletion from the session of a raced login.
THEOREM LastAdminIsLostToRaces == Spec => LastAdminGoesInRacesOnly
  <1>1. TypeOK /\ SeatInv /\ [Next]_vars =>
           (SomeAdmin /\ ~SomeAdmin' =>
              \E r \in Requests : reqs[r].raced /\ (UpdateRole(r) \/ Delete(r)))
    BY LastSeat
  <1>2. Init /\ [][Next]_vars => [](TypeOK /\ SessionInv /\ SeatInv)
    BY InitTypeOK, NextTypeOK, InitSessionInv, NextSessionInv, InitSeatInv,
       NextSeatInv, PTL
  <1>3. QED
    BY <1>1, <1>2, PTL DEF Spec, LastAdminGoesInRacesOnly

=============================================================================
