--------------------------- MODULE Accounts_proofs ---------------------------
(***************************************************************************)
(* What holds of Accounts for every set of users, addresses and requests.  *)
(***************************************************************************)
EXTENDS Accounts, TLAPS

USE EmailAssumption

\* What a request under way refers to.
WellFormed ==
    \A r \in Requests :
        /\ reqs[r].op \in {"register", "verify", "resend", "forgot", "claim",
                           "confirm", "email"} => reqs[r].email \in Emails
        /\ reqs[r].op \in {"claim", "confirm", "email", "delete"} \cup Decisions
               => reqs[r].user \in Users
        /\ reqs[r].phase \in {"unclaim", "discard"} => reqs[r].user \in Users

\* An address belongs to one account: the unique index on users.email.
EmailsUnique ==
    \A u, v \in Users :
        Exists(u) /\ Exists(v) /\ users[u].email = users[v].email => u = v

\* The account came past its registration with a proved address.
VouchedFor(u) ==
    users[u].status # "unused" /\ (Exists(u) => users[u].email \in proved)

\* A request that is about to put an account past verification has the proof of
\* its address behind it.
WriteProved(r) ==
    /\ In(r, "verify", "write") => reqs[r].email \in proved
    /\ In(r, "confirm", "check") \/ In(r, "confirm", "write") => reqs[r].email \in proved
    /\ In(r, "approve", "write") => VouchedFor(reqs[r].user)

RowProved(u) ==
    /\ Exists(u) => users[u].email \in Emails
    /\ users[u].status \in {"pending", "active"} => users[u].email \in proved

ProvedInv ==
    /\ \A u \in Users : RowProved(u)
    /\ \A r \in Requests : WriteProved(r)

AccountInv == TypeOK /\ WellFormed /\ EmailsUnique /\ ProvedInv

-----------------------------------------------------------------------------
(* What the parts of a handler do.                                         *)

LEMMA IdleType == Idle \in Request
  BY DEF Idle, Request, Phase

LEMMA GotoDoes ==
  ASSUME TypeOK, NEW r \in Requests, NEW phase \in Phase, Goto(r, phase)
  PROVE  /\ reqs' \in [Requests -> Request]
         /\ reqs'[r] = [reqs[r] EXCEPT !.phase = phase]
         /\ \A q \in Requests \ {r} : reqs'[q] = reqs[q]
  <1>1. [reqs[r] EXCEPT !.phase = phase] \in Request
    BY DEF TypeOK, Request
  <1>2. QED
    BY <1>1 DEF TypeOK, Goto

LEMMA DoneDoes ==
  ASSUME TypeOK, NEW r \in Requests, Done(r)
  PROVE  /\ reqs' \in [Requests -> Request]
         /\ reqs'[r] = Idle
         /\ \A q \in Requests \ {r} : reqs'[q] = reqs[q]
  BY IdleType DEF TypeOK, Done

LEMMA BeginDoes ==
  ASSUME TypeOK, NEW r \in Requests, NEW op \in AllEndpoints, NEW phase \in Phase,
         NEW u \in Users \cup {NoUser}, NEW e \in Emails \cup {NoEmail},
         Begin(r, op, phase, u, e)
  PROVE  /\ reqs' \in [Requests -> Request]
         /\ reqs'[r] = [op |-> op, phase |-> phase, user |-> u, email |-> e,
                        card |-> FALSE]
         /\ \A q \in Requests \ {r} : reqs'[q] = reqs[q]
  <1>1. [op |-> op, phase |-> phase, user |-> u, email |-> e, card |-> FALSE] \in Request
    BY DEF Request
  <1>2. QED
    BY <1>1 DEF TypeOK, Begin

LEMMA SetRowDoes ==
  ASSUME TypeOK, NEW u \in Users, NEW row \in Row, SetRow(u, row)
  PROVE  /\ users' \in [Users -> Row]
         /\ \A v \in Users \ {u} : users'[v] = users[v]
         /\ users'[u] = IF Exists(u) THEN row ELSE users[u]
  BY DEF TypeOK, SetRow

LEMMA RowTypes ==
  ASSUME TypeOK, NEW u \in Users
  PROVE  /\ \A e \in Emails \cup {NoEmail} : [users[u] EXCEPT !.pending = e] \in Row
         /\ \A status \in Status : [users[u] EXCEPT !.status = status] \in Row
         /\ [users[u] EXCEPT !.card = FALSE] \in Row
         /\ \A status \in Status : NoRow(status) \in Row
  BY DEF TypeOK, Row, NoRow

LEMMA MailedTypes ==
  ASSUME TypeOK, NEW e \in Emails, NEW sent \in BOOLEAN, Mailed(e, sent)
  PROVE  code' \in SUBSET Emails
  BY DEF TypeOK, Mailed

\* Only the code of its address can be used up, and only its address be proved.
LEMMA EntersDoes ==
  ASSUME TypeOK, NEW e \in Emails, Enters(e)
  PROVE  /\ e \in code /\ code' = code \ {e} /\ proved' = proved \cup {e}
         /\ code' \in SUBSET Emails /\ proved' \in SUBSET Emails
  BY DEF TypeOK, Enters

-----------------------------------------------------------------------------
(* Types and references.                                                   *)

TypeInv == TypeOK /\ WellFormed

LEMMA InitTyped == Init => TypeInv
  <1>1. Init => TypeOK
    BY IdleType DEF Init, TypeOK, Row, NoRow, Status
  <1>2. Init => WellFormed
    BY DEF Init, WellFormed, Idle, Decisions
  <1>3. QED
    BY <1>1, <1>2 DEF TypeInv

\* A request that goes on, or ends, refers to what it did.
LEMMA GotoKeepsForm ==
  ASSUME TypeInv, NEW r \in Requests, NEW phase \in Phase, Goto(r, phase),
         phase \in {"unclaim", "discard"} => reqs[r].user \in Users
  PROVE  WellFormed' /\ reqs' \in [Requests -> Request]
  <1>1. /\ reqs' \in [Requests -> Request]
        /\ reqs'[r] = [reqs[r] EXCEPT !.phase = phase]
        /\ \A q \in Requests \ {r} : reqs'[q] = reqs[q]
    BY GotoDoes DEF TypeInv
  <1>2. reqs[r] \in Request
    BY DEF TypeInv, TypeOK
  <1>3. /\ reqs'[r].op = reqs[r].op /\ reqs'[r].user = reqs[r].user
        /\ reqs'[r].email = reqs[r].email /\ reqs'[r].phase = phase
    BY <1>1, <1>2 DEF Request
  <1>4. QED
    BY <1>1, <1>3 DEF TypeInv, WellFormed

LEMMA DoneKeepsForm ==
  ASSUME TypeInv, NEW r \in Requests, Done(r)
  PROVE  WellFormed' /\ reqs' \in [Requests -> Request]
  BY DoneDoes DEF TypeInv, TypeOK, WellFormed, Request, Idle, Decisions

LEMMA BeginKeepsForm ==
  ASSUME TypeInv, NEW r \in Requests, NEW op \in AllEndpoints,
         NEW phase \in Phase \ {"unclaim"},
         NEW u \in Users \cup {NoUser}, NEW e \in Emails \cup {NoEmail},
         Begin(r, op, phase, u, e),
         op \in {"register", "verify", "resend", "forgot", "claim", "confirm", "email"}
             => e \in Emails,
         op \in {"claim", "confirm", "email", "delete"} \cup Decisions => u \in Users,
         phase = "discard" => u \in Users
  PROVE  WellFormed' /\ reqs' \in [Requests -> Request]
  <1>1. /\ reqs' \in [Requests -> Request]
        /\ reqs'[r] = [op |-> op, phase |-> phase, user |-> u, email |-> e,
                       card |-> FALSE]
        /\ \A q \in Requests \ {r} : reqs'[q] = reqs[q]
    BY BeginDoes DEF TypeInv
  <1>2. /\ reqs'[r].op = op /\ reqs'[r].user = u
        /\ reqs'[r].email = e /\ reqs'[r].phase = phase
    BY <1>1
  <1>3. QED
    BY <1>1, <1>2 DEF TypeInv, WellFormed

LEMMA StartTyped ==
  ASSUME TypeInv, NEW r \in Requests, Start(r)
  PROVE  TypeInv' /\ users' = users
  <1>1. ASSUME NEW e \in Emails, NEW card \in BOOLEAN, Register(r, e, card)
        PROVE  TypeInv' /\ users' = users
    <2>1. [Idle EXCEPT !.op = "register", !.phase = "mail", !.email = e, !.card = card]
              \in Request
      BY DEF Idle, Request, AllEndpoints, Phase
    <2>2. reqs' \in [Requests -> Request]
      BY <1>1, <2>1 DEF Register, TypeInv, TypeOK
    <2>3. WellFormed'
      BY <1>1 DEF Register, TypeInv, TypeOK, WellFormed, Idle, Decisions
    <2>4. QED
      BY <1>1, <2>2, <2>3 DEF Register, TypeInv, TypeOK
  <1>2. ASSUME NEW e \in Emails, Verify(r, e)
        PROVE  TypeInv' /\ users' = users
    <2>1. WellFormed' /\ reqs' \in [Requests -> Request]
      BY <1>2, BeginKeepsForm DEF Verify, AllEndpoints, Phase, Decisions
    <2>2. QED
      BY <1>2, <2>1, EntersDoes DEF Verify, TypeInv, TypeOK
  <1>3. ASSUME NEW e \in Emails, NEW op \in {"resend", "forgot"}, Ask(r, op, e)
        PROVE  TypeInv' /\ users' = users
    <2>1. WellFormed' /\ reqs' \in [Requests -> Request]
      BY <1>3, BeginKeepsForm DEF Ask, AllEndpoints, Phase, Decisions
    <2>2. QED
      BY <1>3, <2>1 DEF Ask, TypeInv, TypeOK
  <1>4. ASSUME NEW u \in Users, NEW e \in Emails, Claim(r, u, e)
        PROVE  TypeInv' /\ users' = users
    <2>1. WellFormed' /\ reqs' \in [Requests -> Request]
      BY <1>4, BeginKeepsForm DEF Claim, AllEndpoints, Phase, Decisions
    <2>2. QED
      BY <1>4, <2>1 DEF Claim, TypeInv, TypeOK
  <1>5. ASSUME NEW u \in Users, NEW e \in Emails, Confirm(r, u, e)
        PROVE  TypeInv' /\ users' = users
    <2>1. WellFormed' /\ reqs' \in [Requests -> Request]
      BY <1>5, BeginKeepsForm DEF Confirm, AllEndpoints, Phase, Decisions
    <2>2. QED
      BY <1>5, <2>1 DEF Confirm, TypeInv, TypeOK
  <1>6. ASSUME NEW u \in Users, NEW e \in Emails, ChangeEmail(r, u, e)
        PROVE  TypeInv' /\ users' = users
    <2>1. WellFormed' /\ reqs' \in [Requests -> Request]
      BY <1>6, BeginKeepsForm DEF ChangeEmail, AllEndpoints, Phase, Decisions
    <2>2. QED
      BY <1>6, <2>1 DEF ChangeEmail, TypeInv, TypeOK
  <1>7. ASSUME NEW u \in Users, Delete(r, u)
        PROVE  TypeInv' /\ users' = users
    <2>1. WellFormed' /\ reqs' \in [Requests -> Request]
      BY <1>7, BeginKeepsForm DEF Delete, AllEndpoints, Phase, Decisions
    <2>2. QED
      BY <1>7, <2>1 DEF Delete, TypeInv, TypeOK
  <1>8. ASSUME NEW u \in Users, NEW op \in Decisions, Decide(r, op, u)
        PROVE  TypeInv' /\ users' = users
    <2>1. WellFormed' /\ reqs' \in [Requests -> Request]
      BY <1>8, BeginKeepsForm DEF Decide, AllEndpoints, Phase, Decisions
    <2>2. QED
      BY <1>8, <2>1 DEF Decide, TypeInv, TypeOK
  <1>9. QED
    BY <1>1, <1>2, <1>3, <1>4, <1>5, <1>6, <1>7, <1>8 DEF Start

LEMMA ContinueTyped ==
  ASSUME TypeInv, NEW r \in Requests, Continue(r)
  PROVE  TypeInv'
  <1>. DEFINE u == reqs[r].user
              e == reqs[r].email
  <1>0. reqs[r] \in Request
    BY DEF TypeInv, TypeOK
  <1>1. ASSUME RegisterMail(r)
        PROVE  TypeInv'
    <2>1. e \in Emails
      BY <1>1 DEF RegisterMail, In, TypeInv, WellFormed
    <2>2. code' \in SUBSET Emails
      BY <1>1, <2>1, MailedTypes DEF RegisterMail, TypeInv
    <2>3. Goto(r, "insert") \/ Done(r)
      BY <1>1 DEF RegisterMail
    <2>4. WellFormed' /\ reqs' \in [Requests -> Request]
      BY <2>3, GotoKeepsForm, DoneKeepsForm DEF Phase
    <2>5. QED
      BY <1>1, <2>2, <2>4 DEF RegisterMail, TypeInv, TypeOK
  <1>2. ASSUME RegisterInsert(r)
        PROVE  TypeInv'
    <2>1. e \in Emails /\ reqs[r].card \in BOOLEAN
      BY <1>0, <1>2 DEF RegisterInsert, In, TypeInv, WellFormed, Request
    <2>2. [status |-> "pending_verification", email |-> e, pending |-> NoEmail,
           card |-> reqs[r].card] \in Row
      BY <2>1 DEF Row, Status
    <2>3. users' \in [Users -> Row]
      BY <1>2, <2>2 DEF RegisterInsert, TypeInv, TypeOK
    <2>4. WellFormed' /\ reqs' \in [Requests -> Request]
      BY <1>2, DoneKeepsForm DEF RegisterInsert
    <2>5. QED
      BY <1>2, <2>3, <2>4 DEF RegisterInsert, TypeInv, TypeOK
  <1>3. ASSUME VerifyWrite(r)
        PROVE  TypeInv'
    <2>1. VerifiedStatus(e) \in Status
      BY DEF VerifiedStatus, Status
    <2>2. users' \in [Users -> Row]
      BY <1>3, <2>1, RowTypes DEF VerifyWrite, TypeInv, TypeOK
    <2>3. WellFormed' /\ reqs' \in [Requests -> Request]
      BY <1>3, DoneKeepsForm DEF VerifyWrite
    <2>4. QED
      BY <1>3, <2>2, <2>3 DEF VerifyWrite, TypeInv, TypeOK
  <1>4. ASSUME AskMail(r)
        PROVE  TypeInv'
    <2>1. e \in Emails
      BY <1>4 DEF AskMail, TypeInv, WellFormed
    <2>2. code' \in SUBSET Emails
      BY <1>4, <2>1, MailedTypes DEF AskMail, TypeInv
    <2>3. WellFormed' /\ reqs' \in [Requests -> Request]
      BY <1>4, DoneKeepsForm DEF AskMail
    <2>4. QED
      BY <1>4, <2>2, <2>3 DEF AskMail, TypeInv, TypeOK
  <1>5. ASSUME ClaimWrite(r)
        PROVE  TypeInv'
    <2>1. u \in Users /\ e \in Emails
      BY <1>5 DEF ClaimWrite, In, TypeInv, WellFormed
    <2>2. users' \in [Users -> Row]
      BY <1>5, <2>1, RowTypes, SetRowDoes DEF ClaimWrite, TypeInv
    <2>3. WellFormed' /\ reqs' \in [Requests -> Request]
      BY <1>5, GotoKeepsForm DEF ClaimWrite, Phase
    <2>4. QED
      BY <1>5, <2>2, <2>3 DEF ClaimWrite, TypeInv, TypeOK
  <1>6. ASSUME ClaimMail(r)
        PROVE  TypeInv'
    <2>1. u \in Users /\ e \in Emails
      BY <1>6 DEF ClaimMail, In, TypeInv, WellFormed
    <2>2. code' \in SUBSET Emails
      BY <1>6, <2>1, MailedTypes DEF ClaimMail, TypeInv
    <2>3. Goto(r, "unclaim") \/ Done(r)
      BY <1>6 DEF ClaimMail
    <2>4. WellFormed' /\ reqs' \in [Requests -> Request]
      BY <2>1, <2>3, GotoKeepsForm, DoneKeepsForm DEF Phase
    <2>5. QED
      BY <1>6, <2>2, <2>4 DEF ClaimMail, TypeInv, TypeOK
  <1>7. ASSUME Unclaim(r)
        PROVE  TypeInv'
    <2>1. u \in Users
      BY <1>7 DEF Unclaim, TypeInv, WellFormed
    <2>2. users' \in [Users -> Row]
      BY <1>7, <2>1, RowTypes, SetRowDoes DEF Unclaim, TypeInv
    <2>3. WellFormed' /\ reqs' \in [Requests -> Request]
      BY <1>7, DoneKeepsForm DEF Unclaim
    <2>4. QED
      BY <1>7, <2>2, <2>3 DEF Unclaim, TypeInv, TypeOK
  <1>8. ASSUME ConfirmCode(r)
        PROVE  TypeInv'
    <2>1. e \in Emails
      BY <1>8 DEF ConfirmCode, In, TypeInv, WellFormed
    <2>2. code' \in SUBSET Emails /\ proved' \in SUBSET Emails
      BY <1>8, <2>1, EntersDoes DEF ConfirmCode, TypeInv
    <2>3. WellFormed' /\ reqs' \in [Requests -> Request]
      BY <1>8, GotoKeepsForm DEF ConfirmCode, Phase
    <2>4. QED
      BY <1>8, <2>2, <2>3 DEF ConfirmCode, TypeInv, TypeOK
  <1>9. ASSUME ConfirmCheck(r)
        PROVE  TypeInv'
    <2>1. u \in Users
      BY <1>9 DEF ConfirmCheck, In, TypeInv, WellFormed
    <2>2. Goto(r, "unclaim") \/ Goto(r, "write")
      BY <1>9 DEF ConfirmCheck
    <2>3. WellFormed' /\ reqs' \in [Requests -> Request]
      BY <2>1, <2>2, GotoKeepsForm DEF Phase
    <2>4. QED
      BY <1>9, <2>3 DEF ConfirmCheck, TypeInv, TypeOK
  <1>10. ASSUME ConfirmWrite(r)
         PROVE  TypeInv'
    <2>1. u \in Users /\ e \in Emails
      BY <1>10 DEF ConfirmWrite, In, TypeInv, WellFormed
    <2>2. users' \in [Users -> Row]
      <3>1. [users[u] EXCEPT !.status = "active", !.email = e, !.pending = NoEmail]
                \in Row
        BY <2>1, ZenonT(60) DEF TypeInv, TypeOK, Row, Status
      <3>2. QED
        BY <1>10, <2>1, <3>1 DEF ConfirmWrite, TypeInv, TypeOK, Row, Status
    <2>3. Goto(r, "discard") \/ Done(r)
      BY <1>10 DEF ConfirmWrite
    <2>4. WellFormed' /\ reqs' \in [Requests -> Request]
      BY <2>1, <2>3, GotoKeepsForm, DoneKeepsForm DEF Phase
    <2>5. QED
      BY <1>10, <2>2, <2>4 DEF ConfirmWrite, TypeInv, TypeOK
  <1>11. ASSUME DecideWrite(r)
         PROVE  TypeInv'
    <2>1. u \in Users
      BY <1>11 DEF DecideWrite, TypeInv, WellFormed
    <2>2. PICK status \in {"active", "rejected"} :
              SetRow(u, [users[u] EXCEPT !.status = status])
      BY <1>11 DEF DecideWrite
    <2>3. users' \in [Users -> Row]
      BY <2>1, <2>2, RowTypes, SetRowDoes DEF TypeInv, Status
    <2>4. Goto(r, "discard") \/ Done(r)
      BY <1>11 DEF DecideWrite
    <2>5. WellFormed' /\ reqs' \in [Requests -> Request]
      BY <2>1, <2>4, GotoKeepsForm, DoneKeepsForm DEF Phase
    <2>6. QED
      BY <1>11, <2>3, <2>5 DEF DecideWrite, TypeInv, TypeOK
  <1>12. ASSUME Discard(r)
         PROVE  TypeInv'
    <2>1. u \in Users
      BY <1>12 DEF Discard, TypeInv, WellFormed
    <2>2. users' \in [Users -> Row]
      BY <1>12, <2>1, RowTypes, SetRowDoes DEF Discard, TypeInv
    <2>3. Goto(r, "write") \/ Done(r)
      BY <1>12 DEF Discard
    <2>4. WellFormed' /\ reqs' \in [Requests -> Request]
      BY <2>3, GotoKeepsForm, DoneKeepsForm DEF Phase
    <2>5. QED
      BY <1>12, <2>2, <2>4 DEF Discard, TypeInv, TypeOK
  <1>13. ASSUME ChangeEmailWrite(r)
         PROVE  TypeInv'
    <2>1. u \in Users /\ e \in Emails
      BY <1>13 DEF ChangeEmailWrite, In, TypeInv, WellFormed
    <2>2. users' \in [Users -> Row]
      <3>1. [users[u] EXCEPT !.email = e, !.pending = NoEmail] \in Row
        BY <2>1, ZenonT(60) DEF TypeInv, TypeOK, Row
      <3>2. QED
        BY <1>13, <2>1, <3>1 DEF ChangeEmailWrite, TypeInv, TypeOK, Row
    <2>3. proved' \in SUBSET Emails
      BY <1>13, <2>1 DEF ChangeEmailWrite, TypeInv, TypeOK
    <2>4. WellFormed' /\ reqs' \in [Requests -> Request]
      BY <1>13, DoneKeepsForm DEF ChangeEmailWrite
    <2>5. QED
      BY <1>13, <2>2, <2>3, <2>4 DEF ChangeEmailWrite, TypeInv, TypeOK
  <1>14. ASSUME DeleteWrite(r)
         PROVE  TypeInv'
    <2>1. u \in Users
      BY <1>14 DEF DeleteWrite, In, TypeInv, WellFormed
    <2>2. SetRow(u, NoRow("deleted")) \/ users' = users
      BY <1>14 DEF DeleteWrite
    <2>3. users' \in [Users -> Row]
      BY <2>1, <2>2, RowTypes, SetRowDoes DEF TypeInv, TypeOK, Status
    <2>4. WellFormed' /\ reqs' \in [Requests -> Request]
      BY <1>14, DoneKeepsForm DEF DeleteWrite
    <2>5. QED
      BY <1>14, <2>3, <2>4 DEF DeleteWrite, TypeInv, TypeOK
  <1>15. ASSUME Abandon(r)
         PROVE  TypeInv'
    BY <1>15, DoneKeepsForm DEF Abandon, TypeInv, TypeOK
  <1>16. QED
    BY <1>1, <1>2, <1>3, <1>4, <1>5, <1>6, <1>7, <1>8, <1>9, <1>10, <1>11, <1>12,
       <1>13, <1>14, <1>15 DEF Continue

LEMMA NextTyped == TypeInv /\ [Next]_vars => TypeInv'
  <1>. SUFFICES ASSUME TypeInv, [Next]_vars
                PROVE  TypeInv'
    OBVIOUS
  <1>1. ASSUME NEW e \in Emails, Reset(e)
        PROVE  TypeInv'
    BY <1>1, EntersDoes DEF Reset, TypeInv, TypeOK, WellFormed
  <1>2. ASSUME NEW e \in Emails, CodeDies(e)
        PROVE  TypeInv'
    BY <1>2 DEF CodeDies, TypeInv, TypeOK, WellFormed
  <1>3. CASE UNCHANGED vars
    BY <1>3 DEF vars, TypeInv, TypeOK, WellFormed
  <1>4. QED
    BY <1>1, <1>2, <1>3, StartTyped, ContinueTyped DEF Next

\* Every variable keeps its type.
THEOREM TypeCorrect == Spec => []TypeOK
  <1>1. TypeInv => TypeOK
    BY DEF TypeInv
  <1>2. QED
    BY <1>1, InitTyped, NextTyped, PTL DEF Spec

-----------------------------------------------------------------------------
(* One account per address.                                                *)

\* A step that moves and adds no account.
LEMMA UniqueKept ==
  ASSUME EmailsUnique,
         \A v \in Users : Exists(v)' => Exists(v) /\ users'[v].email = users[v].email
  PROVE  EmailsUnique'
  BY DEF EmailsUnique, Exists

\* A step that puts one account at an address nobody else has.
LEMMA UniqueMoved ==
  ASSUME EmailsUnique, NEW u \in Users, NEW e, At(e) \subseteq {u},
         users'[u].email = e, \A v \in Users \ {u} : users'[v] = users[v]
  PROVE  EmailsUnique'
  BY DEF EmailsUnique, Exists, At

LEMMA ContinueUnique ==
  ASSUME TypeInv, EmailsUnique, NEW r \in Requests, Continue(r)
  PROVE  EmailsUnique'
  <1>. DEFINE u == reqs[r].user
              e == reqs[r].email
  <1>1. ASSUME users' = users
        PROVE  EmailsUnique'
    BY <1>1 DEF EmailsUnique, Exists
  <1>2. ASSUME RegisterInsert(r)
        PROVE  EmailsUnique'
    <2>1. ASSUME NEW w \in Users, At(e) = {},
                 users' = [users EXCEPT ![w] =
                        [status |-> "pending_verification", email |-> e,
                         pending |-> NoEmail, card |-> reqs[r].card]]
          PROVE  EmailsUnique'
      <3>1. users'[w].email = e /\ \A v \in Users \ {w} : users'[v] = users[v]
        BY <2>1 DEF TypeInv, TypeOK
      <3>2. QED
        BY <2>1, <3>1, UniqueMoved
    <2>2. QED
      BY <1>1, <1>2, <2>1 DEF RegisterInsert
  <1>3. ASSUME VerifyWrite(r)
        PROVE  EmailsUnique'
    <2>1. \A v \in Users : Exists(v)' => Exists(v) /\ users'[v].email = users[v].email
      BY <1>3 DEF VerifyWrite, At, Exists, TypeInv, TypeOK, Row
    <2>2. QED
      BY <2>1, UniqueKept
  <1>4. ASSUME NEW row \in Row, SetRow(u, row), u \in Users,
               row.email = users[u].email \/ row.status = "deleted"
        PROVE  EmailsUnique'
    <2>1. \A v \in Users : Exists(v)' => Exists(v) /\ users'[v].email = users[v].email
      BY <1>4, SetRowDoes DEF Exists, TypeInv
    <2>2. QED
      BY <2>1, UniqueKept
  <1>5. ASSUME ClaimWrite(r)
        PROVE  EmailsUnique'
    <2>1. u \in Users /\ e \in Emails
      BY <1>5 DEF ClaimWrite, In, TypeInv, WellFormed
    <2>2. [users[u] EXCEPT !.pending = e].email = users[u].email
      BY <2>1 DEF TypeInv, TypeOK, Row
    <2>3. QED
      BY <1>4, <1>5, <2>1, <2>2, RowTypes DEF ClaimWrite, TypeInv
  <1>6. ASSUME Unclaim(r)
        PROVE  EmailsUnique'
    <2>1. u \in Users
      BY <1>6 DEF Unclaim, TypeInv, WellFormed
    <2>2. [users[u] EXCEPT !.pending = NoEmail].email = users[u].email
      BY <2>1 DEF TypeInv, TypeOK, Row
    <2>3. QED
      BY <1>4, <1>6, <2>1, <2>2, RowTypes DEF Unclaim, TypeInv
  <1>7. ASSUME ConfirmWrite(r)
        PROVE  EmailsUnique'
    <2>1. u \in Users /\ e \in Emails
      BY <1>7 DEF ConfirmWrite, In, TypeInv, WellFormed
    <2>2. CASE Exists(u) /\ At(e) \subseteq {u}
      <3>1. users'[u].email = e /\ \A v \in Users \ {u} : users'[v] = users[v]
        BY <1>7, <2>1, <2>2 DEF ConfirmWrite, TypeInv, TypeOK, Row
      <3>2. QED
        BY <2>1, <2>2, <3>1, UniqueMoved
    <2>3. QED
      BY <1>1, <1>7, <2>2 DEF ConfirmWrite
  <1>8. ASSUME DecideWrite(r)
        PROVE  EmailsUnique'
    <2>1. u \in Users
      BY <1>8 DEF DecideWrite, TypeInv, WellFormed
    <2>2. PICK status \in {"active", "rejected"} :
              SetRow(u, [users[u] EXCEPT !.status = status])
      BY <1>8 DEF DecideWrite
    <2>3. [users[u] EXCEPT !.status = status].email = users[u].email
      BY <2>1 DEF TypeInv, TypeOK, Row
    <2>4. QED
      BY <1>4, <2>1, <2>2, <2>3, RowTypes DEF TypeInv, Status
  <1>9. ASSUME Discard(r)
        PROVE  EmailsUnique'
    <2>1. u \in Users
      BY <1>9 DEF Discard, TypeInv, WellFormed
    <2>2. [users[u] EXCEPT !.card = FALSE].email = users[u].email
      BY <2>1 DEF TypeInv, TypeOK, Row
    <2>3. QED
      BY <1>4, <1>9, <2>1, <2>2, RowTypes DEF Discard, TypeInv
  <1>10. ASSUME ChangeEmailWrite(r)
         PROVE  EmailsUnique'
    <2>1. u \in Users /\ e \in Emails
      BY <1>10 DEF ChangeEmailWrite, In, TypeInv, WellFormed
    <2>2. CASE Exists(u) /\ At(e) \subseteq {u}
      <3>1. users'[u].email = e /\ \A v \in Users \ {u} : users'[v] = users[v]
        BY <1>10, <2>1, <2>2 DEF ChangeEmailWrite, TypeInv, TypeOK, Row
      <3>2. QED
        BY <2>1, <2>2, <3>1, UniqueMoved
    <2>3. QED
      BY <1>1, <1>10, <2>2 DEF ChangeEmailWrite
  <1>11. ASSUME DeleteWrite(r)
         PROVE  EmailsUnique'
    <2>1. u \in Users
      BY <1>11 DEF DeleteWrite, In, TypeInv, WellFormed
    <2>2. NoRow("deleted") \in Row /\ NoRow("deleted").status = "deleted"
      BY DEF NoRow, Row, Status
    <2>3. QED
      BY <1>1, <1>4, <1>11, <2>1, <2>2 DEF DeleteWrite
  <1>12. QED
    BY <1>1, <1>2, <1>3, <1>5, <1>6, <1>7, <1>8, <1>9, <1>10, <1>11
       DEF Continue, RegisterMail, AskMail, ClaimMail, ConfirmCode, ConfirmCheck, Abandon

LEMMA InitUnique == Init => EmailsUnique
  BY DEF Init, EmailsUnique, Exists, NoRow

LEMMA NextUnique == TypeInv /\ EmailsUnique /\ [Next]_vars => EmailsUnique'
  <1>. SUFFICES ASSUME TypeInv, EmailsUnique, [Next]_vars
                PROVE  EmailsUnique'
    OBVIOUS
  <1>1. ASSUME users' = users
        PROVE  EmailsUnique'
    BY <1>1 DEF EmailsUnique, Exists
  <1>2. QED
    BY <1>1, StartTyped, ContinueUnique DEF Next, Reset, CodeDies, vars

-----------------------------------------------------------------------------
(* Proved addresses.                                                       *)

LEMMA InitProved == Init => ProvedInv
  BY DEF Init, ProvedInv, RowProved, WriteProved, Exists, NoRow, In, Idle

\* What the rows keep in a step: proved addresses stay proved.
RowsKeep ==
    \A v \in Users : RowProved(v)' /\ (VouchedFor(v) => VouchedFor(v)')

\* A step that changes at most the row of u, and neither its address nor, unless
\* it has one that is proved, its status.
LEMMA SetRowKeeps ==
  ASSUME TypeInv, ProvedInv, NEW u \in Users, NEW row \in Row, SetRow(u, row),
         proved \subseteq proved',
         row.status # "unused",
         \/ row.status = "deleted"
         \/ /\ row.email = users[u].email
            /\ row.status \in {"pending", "active"} =>
                   row.status = users[u].status \/ VouchedFor(u)
                   \/ row.email \in proved'
  PROVE  RowsKeep
  <1>1. /\ \A v \in Users \ {u} : users'[v] = users[v]
        /\ users'[u] = IF Exists(u) THEN row ELSE users[u]
    BY SetRowDoes DEF TypeInv
  <1>2. \A v \in Users \ {u} : RowProved(v)' /\ (VouchedFor(v) => VouchedFor(v)')
    BY <1>1 DEF ProvedInv, RowProved, VouchedFor, Exists
  <1>3. RowProved(u)' /\ (VouchedFor(u) => VouchedFor(u)')
    BY <1>1 DEF ProvedInv, RowProved, VouchedFor, Exists
  <1>4. QED
    BY <1>2, <1>3 DEF RowsKeep

\* A step that gives u a proved address.
LEMMA MoveKeeps ==
  ASSUME TypeInv, ProvedInv, NEW u \in Users, NEW e \in Emails, e \in proved',
         proved \subseteq proved', users'[u].email = e,
         users'[u].status = users[u].status \/ users'[u].status = "active",
         \A v \in Users \ {u} : users'[v] = users[v]
  PROVE  RowsKeep
  BY DEF RowsKeep, ProvedInv, RowProved, VouchedFor, Exists

LEMMA NoChangeKeeps ==
  ASSUME ProvedInv, users' = users, proved \subseteq proved'
  PROVE  RowsKeep
  BY DEF RowsKeep, ProvedInv, RowProved, VouchedFor, Exists

\* The requests follow once the rows and the request that moved do.
LEMMA WritesKeep ==
  ASSUME TypeInv, ProvedInv, RowsKeep, proved \subseteq proved', NEW r \in Requests,
         \A q \in Requests \ {r} : reqs'[q] = reqs[q], WriteProved(r)'
  PROVE  ProvedInv'
  <1>1. ASSUME NEW q \in Requests \ {r}
        PROVE  WriteProved(q)'
    <2>1. In(q, "approve", "write") => reqs[q].user \in Users
      BY DEF In, TypeInv, WellFormed, Decisions
    <2>2. QED
      BY <2>1 DEF ProvedInv, WriteProved, RowsKeep, VouchedFor, Exists, In
  <1>2. QED
    BY <1>1 DEF ProvedInv, RowsKeep

\* A request in a phase that puts nothing past verification.
LEMMA GotoHarmless ==
  ASSUME TypeInv, ProvedInv, RowsKeep, proved \subseteq proved', NEW r \in Requests,
         NEW phase \in {"insert", "mail", "unclaim", "discard"}, Goto(r, phase)
  PROVE  ProvedInv'
  <1>1. /\ reqs'[r] = [reqs[r] EXCEPT !.phase = phase]
        /\ \A q \in Requests \ {r} : reqs'[q] = reqs[q]
    BY GotoDoes DEF TypeInv, Phase
  <1>2. reqs'[r].phase = phase
    BY <1>1 DEF TypeInv, TypeOK, Request
  <1>3. WriteProved(r)'
    BY <1>2 DEF WriteProved, In
  <1>4. QED
    BY <1>1, <1>3, WritesKeep

LEMMA DoneHarmless ==
  ASSUME TypeInv, ProvedInv, RowsKeep, proved \subseteq proved', NEW r \in Requests,
         Done(r)
  PROVE  ProvedInv'
  <1>1. reqs'[r] = Idle /\ \A q \in Requests \ {r} : reqs'[q] = reqs[q]
    BY DoneDoes DEF TypeInv
  <1>2. WriteProved(r)'
    BY <1>1 DEF WriteProved, In, Idle
  <1>3. QED
    BY <1>1, <1>2, WritesKeep

LEMMA StartProved ==
  ASSUME TypeInv, ProvedInv, NEW r \in Requests, Start(r)
  PROVE  ProvedInv'
  <1>1. ASSUME NEW e \in Emails, NEW card \in BOOLEAN, Register(r, e, card)
        PROVE  ProvedInv'
    <2>1. /\ users' = users /\ proved \subseteq proved'
          /\ \A q \in Requests \ {r} : reqs'[q] = reqs[q]
      BY <1>1 DEF Register, Begin, Enters, TypeInv, TypeOK
    <2>2. WriteProved(r)'
      BY <1>1 DEF Register, Begin, Enters, TypeInv, TypeOK, WriteProved, In, Decisions, Idle
    <2>3. QED
      BY <2>1, <2>2, NoChangeKeeps, WritesKeep
  <1>2. ASSUME NEW e \in Emails, Verify(r, e)
        PROVE  ProvedInv'
    <2>1. /\ users' = users /\ proved \subseteq proved'
          /\ \A q \in Requests \ {r} : reqs'[q] = reqs[q]
      BY <1>2 DEF Verify, Begin, Enters, TypeInv, TypeOK
    <2>2. WriteProved(r)'
      BY <1>2 DEF Verify, Begin, Enters, TypeInv, TypeOK, WriteProved, In, Decisions, Idle
    <2>3. QED
      BY <2>1, <2>2, NoChangeKeeps, WritesKeep
  <1>3. ASSUME NEW e \in Emails, NEW op \in {"resend", "forgot"}, Ask(r, op, e)
        PROVE  ProvedInv'
    <2>1. /\ users' = users /\ proved \subseteq proved'
          /\ \A q \in Requests \ {r} : reqs'[q] = reqs[q]
      BY <1>3 DEF Ask, Begin, Enters, TypeInv, TypeOK
    <2>2. WriteProved(r)'
      BY <1>3 DEF Ask, Begin, Enters, TypeInv, TypeOK, WriteProved, In, Decisions, Idle
    <2>3. QED
      BY <2>1, <2>2, NoChangeKeeps, WritesKeep
  <1>4. ASSUME NEW u \in Users, NEW e \in Emails, Claim(r, u, e)
        PROVE  ProvedInv'
    <2>1. /\ users' = users /\ proved \subseteq proved'
          /\ \A q \in Requests \ {r} : reqs'[q] = reqs[q]
      BY <1>4 DEF Claim, Begin, Enters, TypeInv, TypeOK
    <2>2. WriteProved(r)'
      BY <1>4 DEF Claim, Begin, Enters, TypeInv, TypeOK, WriteProved, In, Decisions, Idle
    <2>3. QED
      BY <2>1, <2>2, NoChangeKeeps, WritesKeep
  <1>5. ASSUME NEW u \in Users, NEW e \in Emails, Confirm(r, u, e)
        PROVE  ProvedInv'
    <2>1. /\ users' = users /\ proved \subseteq proved'
          /\ \A q \in Requests \ {r} : reqs'[q] = reqs[q]
      BY <1>5 DEF Confirm, Begin, Enters, TypeInv, TypeOK
    <2>2. WriteProved(r)'
      BY <1>5 DEF Confirm, Begin, Enters, TypeInv, TypeOK, WriteProved, In, Decisions, Idle
    <2>3. QED
      BY <2>1, <2>2, NoChangeKeeps, WritesKeep
  <1>6. ASSUME NEW u \in Users, NEW e \in Emails, ChangeEmail(r, u, e)
        PROVE  ProvedInv'
    <2>1. /\ users' = users /\ proved \subseteq proved'
          /\ \A q \in Requests \ {r} : reqs'[q] = reqs[q]
      BY <1>6 DEF ChangeEmail, Begin, Enters, TypeInv, TypeOK
    <2>2. WriteProved(r)'
      BY <1>6 DEF ChangeEmail, Begin, Enters, TypeInv, TypeOK, WriteProved, In, Decisions, Idle
    <2>3. QED
      BY <2>1, <2>2, NoChangeKeeps, WritesKeep
  <1>7. ASSUME NEW u \in Users, Delete(r, u)
        PROVE  ProvedInv'
    <2>1. /\ users' = users /\ proved \subseteq proved'
          /\ \A q \in Requests \ {r} : reqs'[q] = reqs[q]
      BY <1>7 DEF Delete, Begin, Enters, TypeInv, TypeOK
    <2>2. WriteProved(r)'
      BY <1>7 DEF Delete, Begin, Enters, TypeInv, TypeOK, WriteProved, In, Decisions, Idle
    <2>3. QED
      BY <2>1, <2>2, NoChangeKeeps, WritesKeep
  <1>8. ASSUME NEW u \in Users, NEW op \in Decisions, Decide(r, op, u)
        PROVE  ProvedInv'
    <2>1. /\ users' = users /\ proved' = proved
          /\ \A q \in Requests \ {r} : reqs'[q] = reqs[q]
          /\ reqs'[r].op = op /\ reqs'[r].user = u
      BY <1>8 DEF Decide, Begin, TypeInv, TypeOK
    <2>2. op = "approve" => users[u].status = "pending"
      BY <1>8 DEF Decide, Admits
    <2>3. op = "approve" => VouchedFor(u)
      BY <2>2 DEF ProvedInv, RowProved, VouchedFor, Exists
    <2>4. WriteProved(r)'
      BY <2>1, <2>3 DEF WriteProved, In, Decisions, VouchedFor, Exists
    <2>5. QED
      BY <2>1, <2>4, NoChangeKeeps, WritesKeep
  <1>9. QED
    BY <1>1, <1>2, <1>3, <1>4, <1>5, <1>6, <1>7, <1>8 DEF Start

LEMMA ContinueProved ==
  ASSUME TypeInv, ProvedInv, NEW r \in Requests, Continue(r)
  PROVE  ProvedInv'
  <1>. DEFINE u == reqs[r].user
              e == reqs[r].email
  <1>0. reqs[r] \in Request
    BY DEF TypeInv, TypeOK
  <1>1. ASSUME RegisterMail(r) \/ AskMail(r) \/ ClaimMail(r) \/ Abandon(r)
        PROVE  ProvedInv'
    <2>1. RowsKeep /\ proved \subseteq proved'
      BY <1>1, NoChangeKeeps DEF RegisterMail, AskMail, ClaimMail, Abandon
    <2>2. Goto(r, "insert") \/ Goto(r, "unclaim") \/ Done(r)
      BY <1>1 DEF RegisterMail, AskMail, ClaimMail, Abandon
    <2>3. QED
      BY <2>1, <2>2, GotoHarmless, DoneHarmless
  <1>2. ASSUME RegisterInsert(r)
        PROVE  ProvedInv'
    <2>1. ASSUME NEW w \in Users, users[w].status = "unused",
                 users' = [users EXCEPT ![w] =
                        [status |-> "pending_verification", email |-> e,
                         pending |-> NoEmail, card |-> reqs[r].card]]
          PROVE  RowsKeep
      <3>1. e \in Emails /\ proved' = proved
        BY <1>2 DEF RegisterInsert, In, TypeInv, WellFormed
      <3>2. /\ users'[w].email = e /\ users'[w].status = "pending_verification"
            /\ \A v \in Users \ {w} : users'[v] = users[v]
        BY <2>1 DEF TypeInv, TypeOK
      <3>3. RowProved(w)' /\ ~VouchedFor(w)
        BY <2>1, <3>1, <3>2 DEF RowProved, VouchedFor, Exists
      <3>4. QED
        BY <3>1, <3>2, <3>3 DEF RowsKeep, ProvedInv, RowProved, VouchedFor, Exists
    <2>2. RowsKeep
      BY <1>2, <2>1, NoChangeKeeps DEF RegisterInsert
    <2>3. QED
      BY <1>2, <2>2, DoneHarmless DEF RegisterInsert
  <1>3. ASSUME VerifyWrite(r)
        PROVE  ProvedInv'
    <2>1. e \in proved /\ proved' = proved
      BY <1>3 DEF VerifyWrite, ProvedInv, WriteProved
    <2>2. VerifiedStatus(e) \in {"pending", "active"}
      BY DEF VerifiedStatus
    <2>3. \A v \in Users : /\ users'[v].email = users[v].email
                           /\ \/ users'[v].status = users[v].status
                              \/ v \in At(e) /\ users'[v].status = VerifiedStatus(e)
      BY <1>3 DEF VerifyWrite, TypeInv, TypeOK, Row
    <2>4. \A v \in At(e) : Exists(v) /\ users[v].email = e
      BY DEF At
    <2>5. RowsKeep
      BY <2>1, <2>2, <2>3, <2>4
         DEF RowsKeep, ProvedInv, RowProved, VouchedFor, Exists
    <2>6. QED
      BY <1>3, <2>1, <2>5, DoneHarmless DEF VerifyWrite
  <1>4. ASSUME NEW row \in Row, u \in Users, SetRow(u, row),
               row.email = users[u].email, row.status = users[u].status,
               proved' = proved
        PROVE  RowsKeep
    <2>1. Exists(u) \/ users' = users
      BY <1>4 DEF SetRow
    <2>2. CASE Exists(u)
      BY <1>4, <2>2, SetRowKeeps DEF Exists
    <2>3. QED
      BY <1>4, <2>1, <2>2, NoChangeKeeps
  <1>5. ASSUME ClaimWrite(r)
        PROVE  ProvedInv'
    <2>1. u \in Users /\ e \in Emails
      BY <1>5 DEF ClaimWrite, In, TypeInv, WellFormed
    <2>2. /\ [users[u] EXCEPT !.pending = e].email = users[u].email
          /\ [users[u] EXCEPT !.pending = e].status = users[u].status
      BY <2>1 DEF TypeInv, TypeOK, Row
    <2>3. RowsKeep
      BY <1>4, <1>5, <2>1, <2>2, RowTypes DEF ClaimWrite, TypeInv
    <2>4. QED
      BY <1>5, <2>3, GotoHarmless DEF ClaimWrite
  <1>6. ASSUME Unclaim(r)
        PROVE  ProvedInv'
    <2>1. u \in Users
      BY <1>6 DEF Unclaim, TypeInv, WellFormed
    <2>2. /\ [users[u] EXCEPT !.pending = NoEmail].email = users[u].email
          /\ [users[u] EXCEPT !.pending = NoEmail].status = users[u].status
      BY <2>1 DEF TypeInv, TypeOK, Row
    <2>3. RowsKeep
      BY <1>4, <1>6, <2>1, <2>2, RowTypes DEF Unclaim, TypeInv
    <2>4. QED
      BY <1>6, <2>3, DoneHarmless DEF Unclaim
  <1>7. ASSUME ConfirmCode(r)
        PROVE  ProvedInv'
    <2>1. e \in proved' /\ proved \subseteq proved' /\ users' = users
      BY <1>7 DEF ConfirmCode, Enters
    <2>2. /\ reqs'[r] = [reqs[r] EXCEPT !.phase = "check"]
          /\ \A q \in Requests \ {r} : reqs'[q] = reqs[q]
      BY <1>7, GotoDoes DEF ConfirmCode, TypeInv, Phase
    <2>3. /\ reqs'[r].phase = "check" /\ reqs'[r].op = "confirm"
          /\ reqs'[r].email = e
      BY <1>0, <1>7, <2>2 DEF ConfirmCode, In, Request
    <2>4. WriteProved(r)'
      BY <2>1, <2>3 DEF WriteProved, In
    <2>5. QED
      BY <2>1, <2>2, <2>4, NoChangeKeeps, WritesKeep
  <1>8. ASSUME ConfirmCheck(r)
        PROVE  ProvedInv'
    <2>1. e \in proved /\ proved' = proved /\ users' = users
      BY <1>8 DEF ConfirmCheck, ProvedInv, WriteProved
    <2>2. RowsKeep
      BY <2>1, NoChangeKeeps
    <2>3. CASE Goto(r, "unclaim")
      BY <2>1, <2>2, <2>3, GotoHarmless
    <2>4. CASE Goto(r, "write")
      <3>1. /\ reqs'[r] = [reqs[r] EXCEPT !.phase = "write"]
            /\ \A q \in Requests \ {r} : reqs'[q] = reqs[q]
        BY <2>4, GotoDoes DEF TypeInv, Phase
      <3>2. reqs'[r].op = "confirm" /\ reqs'[r].email = e
        BY <1>0, <1>8, <3>1 DEF ConfirmCheck, In, Request
      <3>3. WriteProved(r)'
        BY <2>1, <3>2 DEF WriteProved, In
      <3>4. QED
        BY <2>1, <2>2, <3>1, <3>3, WritesKeep
    <2>5. QED
      BY <1>8, <2>3, <2>4 DEF ConfirmCheck
  <1>9. ASSUME ConfirmWrite(r)
        PROVE  ProvedInv'
    <2>1. /\ u \in Users /\ e \in Emails /\ e \in proved /\ proved' = proved
          /\ Goto(r, "discard") \/ Done(r)
      BY <1>9 DEF ConfirmWrite, In, TypeInv, WellFormed, ProvedInv, WriteProved
    <2>2. CASE Exists(u) /\ At(e) \subseteq {u}
      <3>1. /\ users'[u].email = e /\ users'[u].status = "active"
            /\ \A v \in Users \ {u} : users'[v] = users[v]
        BY <1>9, <2>1, <2>2 DEF ConfirmWrite, TypeInv, TypeOK, Row
      <3>2. QED
        BY <2>1, <3>1, MoveKeeps, GotoHarmless, DoneHarmless
    <2>3. QED
      BY <1>9, <2>1, <2>2, NoChangeKeeps, GotoHarmless, DoneHarmless DEF ConfirmWrite
  <1>10. ASSUME DecideWrite(r)
         PROVE  ProvedInv'
    <2>1. /\ u \in Users /\ proved \subseteq proved'
          /\ Goto(r, "discard") \/ Done(r)
      BY <1>10 DEF DecideWrite, TypeInv, WellFormed
    <2>2. PICK status \in {"active", "rejected"} :
              /\ SetRow(u, [users[u] EXCEPT !.status = status])
              /\ status = "active" => reqs[r].op \in {"approve", "reactivate"}
      BY <1>10 DEF DecideWrite
    <2>3. Exists(u) => users[u].email \in Emails
      BY <2>1 DEF ProvedInv, RowProved
    <2>4. Exists(u) /\ status = "active" => VouchedFor(u) \/ users[u].email \in proved'
      BY <1>10, <2>2, <2>3 DEF DecideWrite, ProvedInv, WriteProved, In
    <2>5. [users[u] EXCEPT !.status = status] \in Row /\ users[u] \in Row
      BY <2>1, RowTypes DEF TypeInv, TypeOK, Status
    <2>6. /\ [users[u] EXCEPT !.status = status].email = users[u].email
          /\ [users[u] EXCEPT !.status = status].status = status
      BY <2>5 DEF Row
    <2>7. ASSUME Exists(u)
          PROVE  RowsKeep
      BY <2>1, <2>2, <2>4, <2>5, <2>6, <2>7, SetRowKeeps
    <2>8. ASSUME ~Exists(u)
          PROVE  RowsKeep
      BY <2>1, <2>2, <2>8, NoChangeKeeps DEF SetRow
    <2>9. QED
      BY <2>1, <2>7, <2>8, GotoHarmless, DoneHarmless
  <1>11. ASSUME Discard(r)
         PROVE  ProvedInv'
    <2>1. u \in Users /\ proved' = proved
      BY <1>11 DEF Discard, TypeInv, WellFormed
    <2>2. /\ [users[u] EXCEPT !.card = FALSE].email = users[u].email
          /\ [users[u] EXCEPT !.card = FALSE].status = users[u].status
      BY <2>1 DEF TypeInv, TypeOK, Row
    <2>3. RowsKeep
      BY <1>4, <1>11, <2>1, <2>2, RowTypes DEF Discard, TypeInv
    <2>4. CASE Done(r)
      BY <2>1, <2>3, <2>4, DoneHarmless
    <2>5. CASE reqs[r].op = "delete" /\ Goto(r, "write")
      <3>1. /\ reqs'[r] = [reqs[r] EXCEPT !.phase = "write"]
            /\ \A q \in Requests \ {r} : reqs'[q] = reqs[q]
        BY <2>5, GotoDoes DEF TypeInv, Phase
      <3>2. reqs'[r].op = "delete"
        BY <1>0, <2>5, <3>1 DEF Request
      <3>3. WriteProved(r)'
        BY <3>2 DEF WriteProved, In
      <3>4. QED
        BY <2>1, <2>3, <3>1, <3>3, WritesKeep
    <2>6. QED
      BY <1>11, <2>4, <2>5 DEF Discard
  <1>12. ASSUME ChangeEmailWrite(r)
         PROVE  ProvedInv'
    <2>1. u \in Users /\ e \in Emails /\ proved \subseteq proved' /\ Done(r)
      BY <1>12 DEF ChangeEmailWrite, In, TypeInv, WellFormed
    <2>2. CASE Exists(u) /\ At(e) \subseteq {u}
      <3>1. /\ users'[u].email = e /\ users'[u].status = users[u].status
            /\ \A v \in Users \ {u} : users'[v] = users[v]
            /\ e \in proved'
        BY <1>12, <2>1, <2>2 DEF ChangeEmailWrite, TypeInv, TypeOK, Row
      <3>2. QED
        BY <2>1, <3>1, MoveKeeps, DoneHarmless
    <2>3. QED
      BY <1>12, <2>1, <2>2, NoChangeKeeps, DoneHarmless DEF ChangeEmailWrite
  <1>13. ASSUME DeleteWrite(r)
         PROVE  ProvedInv'
    <2>1. u \in Users /\ proved' = proved /\ Done(r)
      BY <1>13 DEF DeleteWrite, In, TypeInv, WellFormed
    <2>2. NoRow("deleted") \in Row /\ NoRow("deleted").status = "deleted"
      BY DEF NoRow, Row, Status
    <2>3. CASE SetRow(u, NoRow("deleted"))
      BY <2>1, <2>2, <2>3, SetRowKeeps, DoneHarmless
    <2>4. CASE users' = users
      BY <2>1, <2>4, NoChangeKeeps, DoneHarmless
    <2>5. QED
      BY <1>13, <2>3, <2>4 DEF DeleteWrite
  <1>14. QED
    BY <1>1, <1>2, <1>3, <1>5, <1>6, <1>7, <1>8, <1>9, <1>10, <1>11, <1>12, <1>13
       DEF Continue

LEMMA NextProved == TypeInv /\ ProvedInv /\ [Next]_vars => ProvedInv'
  <1>. SUFFICES ASSUME TypeInv, ProvedInv, [Next]_vars
                PROVE  ProvedInv'
    OBVIOUS
  <1>1. ASSUME users' = users, reqs' = reqs, proved \subseteq proved'
        PROVE  ProvedInv'
    BY <1>1, NoChangeKeeps
       DEF RowsKeep, ProvedInv, WriteProved, In, VouchedFor, Exists
  <1>2. QED
    BY <1>1, StartProved, ContinueProved DEF Next, Reset, CodeDies, Enters, vars

\* An account past verification has a proved address, however the codes, claims
\* and decisions of any number of requests interleave.
THEOREM AddressesAreProved == Spec => []PastVerificationIsProved
  <1>1. ProvedInv => PastVerificationIsProved
    BY DEF ProvedInv, RowProved, PastVerificationIsProved
  <1>2. QED
    BY <1>1, InitTyped, NextTyped, InitProved, NextProved, PTL DEF Spec

-----------------------------------------------------------------------------
(* Bans.                                                                   *)

\* An admin's decision about u ends with this step.
DecidedBy(u, r) ==
    /\ reqs[r].op \in {"reactivate", "email", "delete"}
    /\ reqs[r].phase = "write" /\ reqs[r].user = u
    /\ reqs'[r] = Idle

\* A request neither names u nor carries a code for its address, unless it is an
\* admin's or a confirmation by another account.
Spares(req, u, email) ==
    /\ req.user = u => req.op \in {"reject", "ban", "reactivate", "email", "delete"}
    /\ req.email = email => req.op \in {"idle", "confirm", "email"}

LEMMA SparedIsSpared ==
  \A u : OutOfReach(u) => \A r \in Requests : Spares(reqs[r], u, users[u].email)
  BY DEF OutOfReach, Spares

LEMMA IdleSpares ==
  \A u \in Users, e \in Emails : Spares(Idle, u, e)
  BY DEF Spares, Idle

LEMMA ReachKept ==
  ASSUME NEW u \in Users, OutOfReach(u), NEW r \in Requests,
         users'[u].status = "rejected", users'[u].email = users[u].email,
         users'[u].pending = NoEmail, users[u].email \notin code',
         \A q \in Requests \ {r} : reqs'[q] = reqs[q],
         Spares(reqs'[r], u, users[u].email)
  PROVE  OutOfReach(u)'
  BY DEF OutOfReach, Spares

LEMMA StartSpares ==
  ASSUME TypeInv, EmailsUnique, ProvedInv, NEW r \in Requests, Start(r),
         NEW u \in Users, OutOfReach(u)
  PROVE  OutOfReach(u)'
  <1>. DEFINE mail == users[u].email
  <1>1. /\ users[u].status = "rejected" /\ users[u].pending = NoEmail
        /\ mail \notin code /\ u \in At(mail) /\ mail \in Emails
    BY DEF OutOfReach, At, Exists, ProvedInv, RowProved
  <1>2. ASSUME users' = users, code' \subseteq code, NEW req,
               \A q \in Requests \ {r} : reqs'[q] = reqs[q], reqs'[r] = req,
               Spares(req, u, mail)
        PROVE  OutOfReach(u)'
    BY <1>1, <1>2, ReachKept
  <1>3. ASSUME NEW e \in Emails, NEW card \in BOOLEAN, Register(r, e, card)
        PROVE  OutOfReach(u)'
    <2>1. e # mail
      BY <1>1, <1>3 DEF Register
    <2>2. /\ users' = users /\ code' = code
          /\ \A q \in Requests \ {r} : reqs'[q] = reqs[q]
          /\ reqs'[r].user = NoUser /\ reqs'[r].email = e
      BY <1>3 DEF Register, TypeInv, TypeOK, Idle
    <2>3. Spares(reqs'[r], u, mail)
      BY <2>1, <2>2 DEF Spares
    <2>4. QED
      BY <1>2, <2>2, <2>3
  <1>4. ASSUME NEW op \in AllEndpoints, NEW phase \in Phase,
               NEW v \in Users \cup {NoUser}, NEW e \in Emails \cup {NoEmail},
               Begin(r, op, phase, v, e), users' = users, code' \subseteq code,
               v = u => op \in {"reject", "ban", "reactivate", "email", "delete"},
               e = mail => op \in {"confirm", "email"}
        PROVE  OutOfReach(u)'
    <2>1. /\ \A q \in Requests \ {r} : reqs'[q] = reqs[q]
          /\ reqs'[r] = [op |-> op, phase |-> phase, user |-> v, email |-> e,
                         card |-> FALSE]
      BY <1>4 DEF Begin, TypeInv, TypeOK
    <2>2. Spares(reqs'[r], u, mail)
      BY <1>4, <2>1 DEF Spares
    <2>3. QED
      BY <1>2, <1>4, <2>1, <2>2
  <1>5. ASSUME NEW e \in Emails, Verify(r, e)
        PROVE  OutOfReach(u)'
    <2>1. e # mail /\ code' \subseteq code /\ users' = users
      BY <1>1, <1>5 DEF Verify, Enters
    <2>2. QED
      BY <1>4, <1>5, <2>1 DEF Verify, AllEndpoints, Phase
  <1>6. ASSUME NEW e \in Emails, NEW op \in {"resend", "forgot"}, Ask(r, op, e)
        PROVE  OutOfReach(u)'
    <2>1. PICK v \in At(e) : SendsTo(op, users[v].status)
      BY <1>6 DEF Ask
    <2>2. e # mail
      BY <1>1, <2>1 DEF SendsTo, EmailsUnique, At
    <2>3. QED
      BY <1>4, <1>6, <2>2 DEF Ask, AllEndpoints, Phase
  <1>7. ASSUME NEW v \in Users, NEW e \in Emails, Claim(r, v, e)
        PROVE  OutOfReach(u)'
    <2>1. v # u /\ e # mail
      BY <1>1, <1>7 DEF Claim, IsTaken
    <2>2. QED
      BY <1>4, <1>7, <2>1 DEF Claim, AllEndpoints, Phase
  <1>8. ASSUME NEW v \in Users, NEW e \in Emails, Confirm(r, v, e)
        PROVE  OutOfReach(u)'
    <2>1. v # u
      BY <1>1, <1>8 DEF Confirm, Claiming
    <2>2. QED
      BY <1>4, <1>8, <2>1 DEF Confirm, AllEndpoints, Phase
  <1>9. ASSUME NEW v \in Users, NEW e \in Emails, ChangeEmail(r, v, e)
        PROVE  OutOfReach(u)'
    BY <1>4, <1>9 DEF ChangeEmail, AllEndpoints, Phase
  <1>10. ASSUME NEW v \in Users, Delete(r, v)
         PROVE  OutOfReach(u)'
    BY <1>1, <1>4, <1>10 DEF Delete, AllEndpoints, Phase
  <1>11. ASSUME NEW v \in Users, NEW op \in Decisions, Decide(r, op, v)
         PROVE  OutOfReach(u)'
    <2>1. v = u => op \in {"ban", "reactivate", "reject"}
      BY <1>1, <1>11 DEF Decide, Admits, Decisions
    <2>2. NoEmail # mail
      BY <1>1
    <2>3. QED
      BY <1>4, <1>11, <2>1, <2>2 DEF Decide, AllEndpoints, Phase, Decisions
  <1>12. QED
    BY <1>3, <1>5, <1>6, <1>7, <1>8, <1>9, <1>10, <1>11 DEF Start

LEMMA ContinueSpares ==
  ASSUME TypeInv, ProvedInv, NEW r \in Requests, Continue(r),
         NEW u \in Users, OutOfReach(u), ~DecidedBy(u, r)
  PROVE  OutOfReach(u)'
  <1>. DEFINE mail == users[u].email
              w == reqs[r].user
              e == reqs[r].email
  <1>1. /\ users[u].status = "rejected" /\ users[u].pending = NoEmail
        /\ mail \notin code /\ mail \in Emails /\ users[u] \in Row
        /\ Spares(reqs[r], u, mail) /\ reqs[r] \in Request
    BY SparedIsSpared DEF OutOfReach, Exists, ProvedInv, RowProved, TypeInv, TypeOK
  <1>2. ASSUME users'[u].status = "rejected", users'[u].email = mail,
               users'[u].pending = NoEmail, mail \notin code',
               Done(r) \/ \E phase \in Phase : Goto(r, phase)
        PROVE  OutOfReach(u)'
    <2>1. CASE Done(r)
      BY <1>1, <1>2, <2>1, DoneDoes, IdleSpares, ReachKept DEF TypeInv
    <2>2. ASSUME NEW phase \in Phase, Goto(r, phase)
          PROVE  OutOfReach(u)'
      <3>1. /\ reqs'[r] = [reqs[r] EXCEPT !.phase = phase]
            /\ \A q \in Requests \ {r} : reqs'[q] = reqs[q]
        BY <2>2, GotoDoes DEF TypeInv
      <3>2. Spares(reqs'[r], u, mail)
        BY <1>1, <3>1 DEF Spares, Request
      <3>3. QED
        BY <1>2, <3>1, <3>2, ReachKept
    <2>3. QED
      BY <1>2, <2>1, <2>2
  <1>3. ASSUME NEW sent \in BOOLEAN, Mailed(e, sent), e # mail
        PROVE  mail \notin code'
    BY <1>1, <1>3 DEF Mailed
  <1>4. ASSUME w # u, NEW row \in Row, w \in Users, SetRow(w, row)
        PROVE  users'[u] = users[u]
    BY <1>4, SetRowDoes DEF TypeInv
  <1>5. ASSUME RegisterMail(r) \/ AskMail(r) \/ ClaimMail(r)
        PROVE  OutOfReach(u)'
    <2>1. e # mail
      BY <1>1, <1>5 DEF RegisterMail, AskMail, ClaimMail, In, Spares
    <2>2. mail \notin code' /\ users' = users
      BY <1>3, <1>5, <2>1 DEF RegisterMail, AskMail, ClaimMail
    <2>3. Done(r) \/ \E phase \in Phase : Goto(r, phase)
      BY <1>5 DEF RegisterMail, AskMail, ClaimMail, Phase
    <2>4. QED
      BY <1>1, <1>2, <2>2, <2>3
  <1>6. ASSUME RegisterInsert(r)
        PROVE  OutOfReach(u)'
    <2>1. users'[u] = users[u] /\ code' = code /\ Done(r)
      BY <1>1, <1>6 DEF RegisterInsert, TypeInv, TypeOK
    <2>2. QED
      BY <1>1, <1>2, <2>1
  <1>7. ASSUME VerifyWrite(r)
        PROVE  OutOfReach(u)'
    <2>1. u \notin At(e)
      BY <1>1, <1>7 DEF VerifyWrite, In, Spares, At
    <2>2. users'[u] = users[u] /\ code' = code /\ Done(r)
      BY <1>7, <2>1 DEF VerifyWrite
    <2>3. QED
      BY <1>1, <1>2, <2>2
  <1>8. ASSUME ClaimWrite(r)
        PROVE  OutOfReach(u)'
    <2>1. w \in Users /\ w # u /\ e \in Emails
      BY <1>1, <1>8 DEF ClaimWrite, In, Spares, TypeInv, WellFormed
    <2>2. users'[u] = users[u] /\ code' = code /\ Goto(r, "mail")
      BY <1>4, <1>8, <2>1, RowTypes DEF ClaimWrite, TypeInv
    <2>3. QED
      BY <1>1, <1>2, <2>2 DEF Phase
  <1>9. ASSUME Unclaim(r)
        PROVE  OutOfReach(u)'
    <2>1. w \in Users /\ code' = code /\ Done(r)
      BY <1>9 DEF Unclaim, TypeInv, WellFormed
    <2>2. /\ \A v \in Users \ {w} : users'[v] = users[v]
          /\ users'[w] = IF Exists(w) THEN [users[w] EXCEPT !.pending = NoEmail]
                                      ELSE users[w]
      BY <1>9, <2>1, RowTypes, SetRowDoes DEF Unclaim, TypeInv
    <2>3. /\ users'[u].status = "rejected" /\ users'[u].email = mail
          /\ users'[u].pending = NoEmail
      BY <1>1, <2>1, <2>2 DEF Row
    <2>4. QED
      BY <1>1, <1>2, <2>1, <2>3
  <1>10. ASSUME ConfirmCode(r) \/ ConfirmCheck(r) \/ Abandon(r)
         PROVE  OutOfReach(u)'
    <2>1. /\ users' = users /\ mail \notin code'
          /\ Done(r) \/ \E phase \in Phase : Goto(r, phase)
      BY <1>1, <1>10 DEF ConfirmCode, ConfirmCheck, Abandon, Enters, Phase
    <2>2. QED
      BY <1>1, <1>2, <2>1
  <1>11. ASSUME ConfirmWrite(r)
         PROVE  OutOfReach(u)'
    <2>1. w \in Users /\ w # u
      BY <1>1, <1>11 DEF ConfirmWrite, In, Spares, TypeInv, WellFormed
    <2>2. /\ users'[u] = users[u] /\ code' = code
          /\ Done(r) \/ Goto(r, "discard")
      BY <1>11, <2>1 DEF ConfirmWrite, TypeInv, TypeOK
    <2>3. QED
      BY <1>1, <1>2, <2>2 DEF Phase
  <1>12. ASSUME DecideWrite(r)
         PROVE  OutOfReach(u)'
    <2>1. /\ w \in Users /\ code' = code
          /\ Done(r) \/ Goto(r, "discard")
      BY <1>12 DEF DecideWrite, TypeInv, WellFormed
    <2>2. PICK status \in {"active", "rejected"} :
              /\ SetRow(w, [users[w] EXCEPT !.status = status])
              /\ status = "active" => reqs[r].op \in {"approve", "reactivate"}
      BY <1>12 DEF DecideWrite
    <2>3. reqs[r].op = "reactivate" => Done(r)
      BY <1>12 DEF DecideWrite
    <2>4. w = u => status = "rejected"
      <3>1. w = u => reqs[r].op # "approve"
        BY <1>1 DEF Spares
      <3>2. w = u => reqs[r].op # "reactivate"
        BY <1>12, <2>3, DoneDoes DEF DecideWrite, DecidedBy, TypeInv
      <3>3. QED
        BY <2>2, <3>1, <3>2
    <2>5. /\ \A v \in Users \ {w} : users'[v] = users[v]
          /\ users'[w] = IF Exists(w) THEN [users[w] EXCEPT !.status = status]
                                      ELSE users[w]
      BY <2>1, <2>2, RowTypes, SetRowDoes DEF TypeInv, Status
    <2>6. /\ users'[u].status = "rejected" /\ users'[u].email = mail
          /\ users'[u].pending = NoEmail
      BY <1>1, <2>1, <2>4, <2>5 DEF Row
    <2>7. QED
      BY <1>1, <1>2, <2>1, <2>6 DEF Phase
  <1>13. ASSUME Discard(r)
         PROVE  OutOfReach(u)'
    <2>1. /\ w \in Users /\ code' = code
          /\ Done(r) \/ Goto(r, "write")
      BY <1>13 DEF Discard, TypeInv, WellFormed
    <2>2. /\ \A v \in Users \ {w} : users'[v] = users[v]
          /\ users'[w] = IF Exists(w) THEN [users[w] EXCEPT !.card = FALSE]
                                      ELSE users[w]
      BY <1>13, <2>1, RowTypes, SetRowDoes DEF Discard, TypeInv
    <2>3. /\ users'[u].status = "rejected" /\ users'[u].email = mail
          /\ users'[u].pending = NoEmail
      BY <1>1, <2>1, <2>2 DEF Row
    <2>4. QED
      BY <1>1, <1>2, <2>1, <2>3 DEF Phase
  <1>14. ASSUME ChangeEmailWrite(r) \/ DeleteWrite(r)
         PROVE  OutOfReach(u)'
    <2>1. w \in Users /\ code' = code /\ Done(r)
      BY <1>14 DEF ChangeEmailWrite, DeleteWrite, In, TypeInv, WellFormed
    <2>2. w # u
      BY <1>14, <2>1, DoneDoes DEF ChangeEmailWrite, DeleteWrite, In, DecidedBy, TypeInv
    <2>3. users'[u] = users[u]
      BY <1>14, <2>1, <2>2 DEF ChangeEmailWrite, DeleteWrite, SetRow, TypeInv, TypeOK
    <2>4. QED
      BY <1>1, <1>2, <2>1, <2>3
  <1>15. QED
    BY <1>5, <1>6, <1>7, <1>8, <1>9, <1>10, <1>11, <1>12, <1>13, <1>14 DEF Continue

\* A banned account that no code or request can reach stays out of reach until an
\* admin decides about it.
THEOREM BansHold == Spec => BanHoldsOutOfReach
  <1>. DEFINE Kept(u) ==
                  OutOfReach(u) =>
                      \/ OutOfReach(u)'
                      \/ \E r \in Requests :
                             /\ reqs[r].op \in {"reactivate", "email", "delete"}
                             /\ reqs[r].phase = "write" /\ reqs[r].user = u
                             /\ reqs'[r] = Idle
  <1>1. ASSUME TypeInv, EmailsUnique, ProvedInv, [Next]_vars
        PROVE  [\A u \in Users : Kept(u)]_vars
    <2>1. SUFFICES ASSUME NEW u \in Users, Next, OutOfReach(u),
                          \A r \in Requests : ~DecidedBy(u, r)
                   PROVE  OutOfReach(u)'
      BY <1>1 DEF DecidedBy
    <2>2. ASSUME NEW e \in Emails, Reset(e) \/ CodeDies(e)
          PROVE  OutOfReach(u)'
      BY <2>1, <2>2 DEF OutOfReach, Reset, CodeDies, Enters
    <2>3. QED
      BY <1>1, <2>1, <2>2, StartSpares, ContinueSpares DEF Next
  <1>2. QED
    BY <1>1, InitTyped, NextTyped, InitUnique, NextUnique, InitProved, NextProved, PTL
       DEF Spec, BanHoldsOutOfReach

=============================================================================
