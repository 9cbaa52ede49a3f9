--------------------------- MODULE IdCards_proofs ---------------------------
(***************************************************************************)
(* Photos are kept until a decision and dropped after it, and none is left *)
(* behind unexplained, for all folders, people, requests and faults.       *)
(***************************************************************************)
EXTENDS IdCards, TLAPS

\* Init establishes the invariant.
LEMMA InitInv == Init => CardInv
  <1> SUFFICES ASSUME Init PROVE CardInv
    OBVIOUS
  <1>1. TypeOK BY DEF Init, TypeOK, Row, NoRow
  <1>2. ASSUME NEW c \in Cards PROVE Tracked(c)
    BY <1>2 DEF Init, Tracked, InStep, OwnedByRegistration, Accounted, WholeOrGoing, About,
       Registering, Busy, NoRow, Exists, Kept, Waiting
  <1> QED BY <1>1, <1>2 DEF CardInv

\* A request goes on to a step.
LEMMA GotoFacts ==
    ASSUME TypeOK, NEW r \in Requests, Busy(r), NEW step \in Step, Goto(r, step)
    PROVE  /\ reqs' \in [Requests -> Request \cup {Idle}]
           /\ reqs'[r] # Idle /\ reqs'[r].phase = step
           /\ reqs'[r].op = reqs[r].op /\ reqs'[r].card = reqs[r].card
           /\ \A q \in Requests \ {r} : reqs'[q] = reqs[q]
  <1> DEFINE new == [reqs[r] EXCEPT !.phase = step]
  <1>1. reqs[r] \in Request BY DEF TypeOK, Busy
  <1>2. /\ new \in Request /\ new.phase = step
        /\ new.op = reqs[r].op /\ new.card = reqs[r].card
    BY <1>1 DEF Request
  <1>3. reqs' = [reqs EXCEPT ![r] = new] BY DEF Goto
  <1> HIDE DEF new
  <1> QED BY <1>2, <1>3, IdleAssumption DEF TypeOK

\* A request ends.
LEMMA DoneFacts ==
    ASSUME TypeOK, NEW r \in Requests, Done(r)
    PROVE  /\ reqs' \in [Requests -> Request \cup {Idle}]
           /\ reqs'[r] = Idle
           /\ \A q \in Requests \ {r} : reqs'[q] = reqs[q]
  BY DEF TypeOK, Done

\* A folder that a step does not touch.
LEMMA Elsewhere ==
    ASSUME NEW c \in Cards, Tracked(c),
           row'[c] = row[c], stored'[c] = stored[c],
           c \in decided' <=> c \in decided, c \in spoiled => c \in spoiled',
           \A q \in Requests : \/ reqs'[q] = reqs[q]
                               \/ /\ reqs[q] = Idle \/ reqs[q].card # c
                                  /\ reqs'[q] = Idle \/ reqs'[q].card # c
    PROVE  Tracked(c)'
  <1>1. \A q \in Requests : /\ About(q, c)' <=> About(q, c)
                            /\ About(q, c) => reqs'[q] = reqs[q]
    BY DEF About, Busy
  <1>2. \A q \in Requests : /\ Registering(q, c)' <=> Registering(q, c)
                            /\ Discarding(q, c)' <=> Discarding(q, c)
    BY <1>1 DEF Registering, Discarding, About, Busy
  <1>3. InStep(c)' BY <1>1 DEF Tracked, InStep
  <1>4. Exists(c)' <=> Exists(c) BY DEF Exists
  <1>5. ASSUME c \notin spoiled'
        PROVE  OwnedByRegistration(c)' /\ Accounted(c)' /\ WholeOrGoing(c)'
    <2>1. OwnedByRegistration(c) /\ Accounted(c) /\ WholeOrGoing(c) BY <1>5 DEF Tracked
    <2>2. OwnedByRegistration(c)'
      BY <1>1, <1>2, <2>1 DEF OwnedByRegistration, Registering
    <2>3. Accounted(c)' BY <1>2, <1>4, <2>1 DEF Accounted
    <2>4. WholeOrGoing(c)' BY <1>1, <1>2, <1>4, <2>1 DEF WholeOrGoing
    <2> QED BY <2>2, <2>3, <2>4
  <1> QED BY <1>3, <1>5 DEF Tracked

\* A step of one request about one folder.
Local(r, c) ==
    /\ reqs[r] = Idle \/ reqs[r].card = c
    /\ reqs'[r] = Idle \/ reqs'[r].card = c
    /\ \A q \in Requests \ {r} : reqs'[q] = reqs[q]
    /\ \A d \in Cards \ {c} :
           /\ row'[d] = row[d] /\ stored'[d] = stored[d]
           /\ d \in decided' <=> d \in decided
           /\ d \in spoiled => d \in spoiled'

LEMMA LocalSuffices ==
    ASSUME CardInv, NEW r \in Requests, NEW c \in Cards, Local(r, c), TypeOK', Tracked(c)'
    PROVE  CardInv'
  <1>1. ASSUME NEW d \in Cards, d # c PROVE Tracked(d)'
    <2>1. Tracked(d) BY DEF CardInv
    <2>2. \A q \in Requests : \/ reqs'[q] = reqs[q]
                              \/ /\ reqs[q] = Idle \/ reqs[q].card # d
                                 /\ reqs'[q] = Idle \/ reqs'[q].card # d
      BY <1>1 DEF Local
    <2> QED BY <1>1, <2>1, <2>2, Elsewhere DEF Local
  <1> QED BY <1>1 DEF CardInv

\* What is known of a request before its step.
LEMMA Before ==
    ASSUME CardInv, NEW r \in Requests, Busy(r)
    PROVE  /\ TypeOK /\ reqs[r] \in Request /\ reqs[r].card \in Cards
           /\ Tracked(reqs[r].card) /\ About(r, reqs[r].card)
  BY DEF CardInv, TypeOK, Busy, Request, About

\* A registration draws its folder.
LEMMA KeepsRegister ==
    ASSUME CardInv, NEW r \in Requests, NEW c \in Cards, NEW p \in People, Register(r, c, p)
    PROVE  CardInv'
  <1> DEFINE new == [op |-> "register", phase |-> "front", card |-> c, person |-> p]
  <1>1. TypeOK /\ Tracked(c) /\ reqs[r] = Idle BY DEF CardInv, Register, Busy
  <1>2. new \in Request /\ new.op = "register" /\ new.phase = "front" /\ new.card = c
    BY DEF Request, Op, Step
  <1>3. reqs' = [reqs EXCEPT ![r] = new] BY DEF Register
  <1> HIDE DEF new
  <1>4. /\ reqs' \in [Requests -> Request \cup {Idle}] /\ reqs'[r] = new /\ new # Idle
        /\ \A q \in Requests \ {r} : reqs'[q] = reqs[q]
    BY <1>1, <1>2, <1>3, IdleAssumption DEF TypeOK
  <1>5. /\ row' \in [Cards -> Row] /\ row'[c].status = "drawn"
        /\ \A d \in Cards \ {c} : row'[d] = row[d]
    BY <1>1 DEF Register, TypeOK, NoRow, Row
  <1>6. TypeOK' BY <1>1, <1>4, <1>5 DEF TypeOK, Register
  <1>7. Local(r, c) BY <1>1, <1>2, <1>4, <1>5 DEF Local, Register
  <1>8. row[c].status = "fresh" BY DEF Register
  <1>9. \A q \in Requests : ~About(q, c) BY <1>1, <1>8 DEF Tracked, InStep
  <1>10. \A q \in Requests : About(q, c)' => q = r
    BY <1>4, <1>9 DEF About, Busy
  <1>11. InStep(c)'
    BY <1>1, <1>2, <1>4, <1>5, <1>8, <1>10 DEF InStep, Tracked, Register
  <1>12. ASSUME c \notin spoiled'
         PROVE  OwnedByRegistration(c)' /\ Accounted(c)' /\ WholeOrGoing(c)'
    <2>1. stored'[c] = {} BY <1>1, <1>8, <1>12 DEF Tracked, Accounted, Register
    <2>2. OwnedByRegistration(c)'
      BY <1>2, <1>4, <1>5, <1>10, <2>1 DEF OwnedByRegistration, Registering, StoredBy
    <2>3. Accounted(c)' BY <2>1 DEF Accounted
    <2>4. WholeOrGoing(c)'
      BY <1>2, <1>4, <1>5, <1>10, <2>1 DEF WholeOrGoing, Exists, Kept, Waiting
    <2> QED BY <2>2, <2>3, <2>4
  <1>13. Tracked(c)' BY <1>11, <1>12 DEF Tracked
  <1> QED BY <1>6, <1>7, <1>13, LocalSuffices

\* An upload, and every other step of a registration before its row.
LEMMA RegistrationStep ==
    ASSUME CardInv, NEW r \in Requests, NEW c \in Cards, Busy(r), reqs[r].card = c,
           reqs[r].op = "register",
           NEW step \in Step \ {"write", "clear", "erase"}, Goto(r, step),
           UNCHANGED <<row, decided>>,
           stored' \in [Cards -> SUBSET Sides], spoiled' \in SUBSET Cards,
           \A d \in Cards \ {c} :
               stored'[d] = stored[d] /\ (d \in spoiled' <=> d \in spoiled),
           spoiled \subseteq spoiled',
           c \notin spoiled' => stored'[c] = StoredBy(step)
    PROVE  CardInv'
  <1>1. /\ TypeOK /\ reqs[r] \in Request /\ c \in Cards /\ Tracked(c) /\ About(r, c)
    BY Before
  <1>2. /\ reqs' \in [Requests -> Request \cup {Idle}]
        /\ reqs'[r] # Idle /\ reqs'[r].phase = step
        /\ reqs'[r].op = reqs[r].op /\ reqs'[r].card = reqs[r].card
        /\ \A q \in Requests \ {r} : reqs'[q] = reqs[q]
    BY <1>1, GotoFacts
  <1>3. TypeOK' BY <1>1, <1>2 DEF TypeOK
  <1>4. Local(r, c) BY <1>2 DEF Local
  <1>5. \A q \in Requests : About(q, c)' <=> About(q, c)
    BY <1>1, <1>2 DEF About, Busy
  <1>6. InStep(c)' BY <1>1, <1>2, <1>5 DEF InStep, Tracked, About
  <1>7. ASSUME c \notin spoiled'
        PROVE  OwnedByRegistration(c)' /\ Accounted(c)' /\ WholeOrGoing(c)'
    <2>1. c \notin spoiled BY <1>7
    <2>2. OwnedByRegistration(c) /\ Accounted(c) /\ WholeOrGoing(c) BY <1>1, <2>1 DEF Tracked
    <2>3. row[c].status = "drawn" /\ \A q \in Requests : Registering(q, c) => q = r
      BY <1>1, <2>2 DEF OwnedByRegistration, Registering
    <2>4. \A q \in Requests : About(q, c) => q = r
      BY <1>1, <2>3 DEF Tracked, InStep, Registering
    <2>5. stored'[c] = StoredBy(step) BY <1>7
    <2>6. OwnedByRegistration(c)'
      BY <1>2, <1>5, <2>3, <2>4, <2>5 DEF OwnedByRegistration, Registering
    <2>7. Registering(r, c)' BY <1>1, <1>2, <1>5 DEF Registering
    <2>8. Accounted(c)' BY <2>3, <2>7 DEF Accounted, Exists, Kept, Waiting
    <2>9. c \notin decided BY <1>1, <2>3 DEF Tracked, InStep
    <2>10. row' = row /\ row'[c].status = "drawn" /\ c \notin decided' BY <2>3, <2>9
    <2>a. ~Exists(c)' BY <2>10 DEF Exists, Kept, Waiting
    <2>11. ASSUME step = "drop back" PROVE "front" \notin stored'[c]
      <3>1. StoredBy("drop back") = {"back"} BY DEF StoredBy
      <3>2. stored'[c] = {"back"} BY <2>5, <2>11, <3>1
      <3> QED BY <3>2
    <2>12. WholeOrGoing(c)' BY <1>2, <1>5, <2>4, <2>10, <2>a, <2>11 DEF WholeOrGoing
    <2> QED BY <2>6, <2>8, <2>12
  <1>8. Tracked(c)' BY <1>6, <1>7 DEF Tracked
  <1> QED BY <1>1, <1>3, <1>4, <1>8, LocalSuffices

\* A registration ends before its row: nothing is stored, or a fault spoiled it.
LEMMA RegistrationEnds ==
    ASSUME CardInv, NEW r \in Requests, NEW c \in Cards, Busy(r), reqs[r].card = c,
           reqs[r].op = "register", Done(r),
           UNCHANGED <<row, decided>>,
           stored' \in [Cards -> SUBSET Sides], spoiled' \in SUBSET Cards,
           \A d \in Cards \ {c} :
               stored'[d] = stored[d] /\ (d \in spoiled' <=> d \in spoiled),
           spoiled \subseteq spoiled',
           c \notin spoiled' => stored'[c] = {}
    PROVE  CardInv'
  <1>1. /\ TypeOK /\ reqs[r] \in Request /\ c \in Cards /\ Tracked(c) /\ About(r, c)
    BY Before
  <1>2. /\ reqs' \in [Requests -> Request \cup {Idle}]
        /\ reqs'[r] = Idle
        /\ \A q \in Requests \ {r} : reqs'[q] = reqs[q]
    BY <1>1, DoneFacts
  <1>3. TypeOK' BY <1>1, <1>2 DEF TypeOK
  <1>4. Local(r, c) BY <1>2 DEF Local
  <1>5. \A q \in Requests : About(q, c)' => About(q, c) /\ q # r /\ reqs'[q] = reqs[q]
    BY <1>2 DEF About, Busy
  <1>6. InStep(c)' BY <1>1, <1>5 DEF InStep, Tracked
  <1>7. ASSUME c \notin spoiled'
        PROVE  OwnedByRegistration(c)' /\ Accounted(c)' /\ WholeOrGoing(c)'
    <2>1. c \notin spoiled BY <1>7
    <2>2. OwnedByRegistration(c) BY <1>1, <2>1 DEF Tracked
    <2>3. row[c].status = "drawn" /\ \A q \in Requests : Registering(q, c) => q = r
      BY <1>1, <2>2 DEF OwnedByRegistration, Registering
    <2>4. \A q \in Requests : ~About(q, c)'
      BY <1>1, <1>5, <2>3 DEF Tracked, InStep, Registering
    <2>5. stored'[c] = {} BY <1>7
    <2>6. OwnedByRegistration(c)' BY <2>4 DEF OwnedByRegistration, Registering
    <2>7. Accounted(c)' BY <2>5 DEF Accounted
    <2>8. WholeOrGoing(c)'
      BY <2>3, <2>4, <2>5 DEF WholeOrGoing, Exists, Kept, Waiting
    <2> QED BY <2>6, <2>7, <2>8
  <1>8. Tracked(c)' BY <1>6, <1>7 DEF Tracked
  <1> QED BY <1>1, <1>3, <1>4, <1>8, LocalSuffices

\* store_otp fails: the photos stay, and the folder is known to have been left.
LEMMA OtpErrorKeeps ==
    ASSUME CardInv, NEW r \in Requests, At(r, "otp"), Done(r),
           row' = [row EXCEPT ![reqs[r].card] = NoRow("left")],
           UNCHANGED <<stored, decided, spoiled>>
    PROVE  CardInv'
  <1>0. Busy(r) BY DEF At
  <1>a. PICK c \in Cards : c = reqs[r].card BY <1>0, Before
  <1>1. TypeOK /\ Tracked(c) /\ About(r, c) BY <1>0, <1>a, Before
  <1>2. reqs[r].op = "register" /\ reqs[r].phase = "otp"
    BY <1>1 DEF At, Tracked, InStep
  <1>3. /\ row' \in [Cards -> Row] /\ row'[c].status = "left"
        /\ \A d \in Cards \ {c} : row'[d] = row[d]
    BY <1>a, <1>1 DEF TypeOK, NoRow, Row
  <1>4. /\ reqs' \in [Requests -> Request \cup {Idle}] /\ reqs'[r] = Idle
        /\ \A q \in Requests \ {r} : reqs'[q] = reqs[q]
    BY <1>1, DoneFacts
  <1>5. TypeOK' BY <1>1, <1>3, <1>4 DEF TypeOK
  <1>6. Local(r, c) BY <1>a, <1>3, <1>4 DEF Local
  <1>7. \A q \in Requests : About(q, c)' => About(q, c) /\ q # r /\ reqs'[q] = reqs[q]
    BY <1>4 DEF About, Busy
  <1>8. CASE c \in spoiled
    <2>1. InStep(c)' BY <1>1, <1>2, <1>3, <1>7 DEF InStep, Tracked
    <2> QED BY <1>5, <1>6, <1>8, <2>1, LocalSuffices DEF Tracked
  <1>9. CASE c \notin spoiled
    <2>1. row[c].status = "drawn" /\ \A q \in Requests : Registering(q, c) => q = r
      BY <1>1, <1>2, <1>9 DEF Tracked, OwnedByRegistration, Registering
    <2>2. (\A q \in Requests : ~About(q, c)') /\ c \notin decided'
      BY <1>1, <1>7, <2>1 DEF Tracked, InStep, Registering
    <2>3. InStep(c)' BY <2>2 DEF InStep
    <2>4. OwnedByRegistration(c)' BY <2>2 DEF OwnedByRegistration, Registering
    <2>5. ~Exists(c)' BY <1>3 DEF Exists, Kept, Waiting
    <2>6. Accounted(c)' BY <1>3, <2>5 DEF Accounted
    <2>7. WholeOrGoing(c)' BY <2>2, <2>5 DEF WholeOrGoing
    <2>8. Tracked(c)' BY <2>3, <2>4, <2>6, <2>7 DEF Tracked
    <2> QED BY <1>1, <1>5, <1>6, <2>8, LocalSuffices
  <1> QED BY <1>8, <1>9

\* The steps of register before its row.
LEMMA RegistrationKeeps ==
    ASSUME CardInv, NEW r \in Requests,
           \/ UploadFront(r) \/ UploadBack(r) \/ SendMail(r) \/ Undo(r)
           \/ StoreOtp(r) /\ Goto(r, "mail") /\ UNCHANGED row
    PROVE  CardInv'
  <1> DEFINE c == reqs[r].card
  <1>1. /\ Busy(r) /\ TypeOK /\ reqs[r] \in Request /\ c \in Cards /\ Tracked(c)
        /\ About(r, c)
    <2>1. Busy(r) BY DEF UploadFront, UploadBack, StoreOtp, SendMail, Undo, At
    <2> QED BY <2>1, Before
  <1>2. /\ reqs[r].op = "register" /\ UNCHANGED <<row, decided>>
        /\ reqs[r].phase \in {"front", "back", "otp", "mail", "undo"}
    BY <1>1 DEF UploadFront, UploadBack, StoreOtp, SendMail, Undo, At, Tracked, InStep
  <1>3. c \notin spoiled => stored[c] = StoredBy(reqs[r].phase)
    BY <1>1, <1>2 DEF Tracked, OwnedByRegistration, Registering
  <1>4. stored \in [Cards -> SUBSET Sides] /\ spoiled \in SUBSET Cards
    BY <1>1 DEF TypeOK
  <1> HIDE DEF c
  <1>5. ASSUME UploadFront(r) PROVE CardInv'
    <2>1. reqs[r].phase = "front" BY <1>5 DEF UploadFront, At
    <2>2. CASE Stores(c, "front") /\ Goto(r, "back") /\ UNCHANGED spoiled
      <3>1. /\ stored' \in [Cards -> SUBSET Sides]
            /\ \A d \in Cards \ {c} : stored'[d] = stored[d]
            /\ stored'[c] = stored[c] \cup {"front"}
        BY <1>1, <1>4, <2>2 DEF Stores, Sides
      <3>2. c \notin spoiled' => stored'[c] = StoredBy("back")
        BY <1>3, <2>1, <2>2, <3>1 DEF StoredBy
      <3> QED BY <1>1, <1>2, <1>4, <2>2, <3>1, <3>2, RegistrationStep DEF c, Step
    <2>3. CASE UNCHANGED <<stored, spoiled>> /\ Done(r)
      <3>1. c \notin spoiled' => stored'[c] = {} BY <1>3, <2>1, <2>3 DEF StoredBy
      <3> QED BY <1>1, <1>2, <1>4, <2>3, <3>1, RegistrationEnds DEF c
    <2>4. CASE Stores(c, "front") /\ Fails("storage", c) /\ Done(r)
      <3>1. /\ stored' \in [Cards -> SUBSET Sides]
            /\ \A d \in Cards \ {c} : stored'[d] = stored[d]
        BY <1>1, <1>4, <2>4 DEF Stores, Sides
      <3>2. spoiled' = spoiled \cup {c} BY <2>4 DEF Fails
      <3> QED BY <1>1, <1>2, <1>4, <2>4, <3>1, <3>2, RegistrationEnds DEF c
    <2> QED BY <1>5, <2>2, <2>3, <2>4 DEF UploadFront, c
  <1>6. ASSUME UploadBack(r) PROVE CardInv'
    <2>1. reqs[r].phase = "back" BY <1>6 DEF UploadBack, At
    <2>2. CASE Stores(c, "back") /\ Goto(r, "otp") /\ UNCHANGED spoiled
      <3>1. /\ stored' \in [Cards -> SUBSET Sides]
            /\ \A d \in Cards \ {c} : stored'[d] = stored[d]
            /\ stored'[c] = stored[c] \cup {"back"}
        BY <1>1, <1>4, <2>2 DEF Stores, Sides
      <3>2. c \notin spoiled' => stored'[c] = StoredBy("otp")
        BY <1>3, <2>1, <2>2, <3>1 DEF StoredBy, Sides
      <3> QED BY <1>1, <1>2, <1>4, <2>2, <3>1, <3>2, RegistrationStep DEF c, Step
    <2>3. CASE UNCHANGED <<stored, spoiled>> /\ Goto(r, "undo")
      <3>1. c \notin spoiled' => stored'[c] = StoredBy("undo")
        BY <1>3, <2>1, <2>3 DEF StoredBy
      <3> QED BY <1>1, <1>2, <1>4, <2>3, <3>1, RegistrationStep DEF c, Step
    <2>4. CASE Stores(c, "back") /\ Fails("storage", c) /\ Goto(r, "undo")
      <3>1. /\ stored' \in [Cards -> SUBSET Sides]
            /\ \A d \in Cards \ {c} : stored'[d] = stored[d]
        BY <1>1, <1>4, <2>4 DEF Stores, Sides
      <3>2. spoiled' = spoiled \cup {c} BY <2>4 DEF Fails
      <3> QED BY <1>1, <1>2, <1>4, <2>4, <3>1, <3>2, RegistrationStep DEF c, Step
    <2> QED BY <1>6, <2>2, <2>3, <2>4 DEF UploadBack, AfterBack, c
  <1>7. ASSUME StoreOtp(r), Goto(r, "mail") PROVE CardInv'
    <2>1. reqs[r].phase = "otp" /\ UNCHANGED <<stored, spoiled>> BY <1>7 DEF StoreOtp, At
    <2>2. c \notin spoiled' => stored'[c] = StoredBy("mail")
      BY <1>3, <2>1 DEF StoredBy
    <2> QED BY <1>1, <1>2, <1>4, <1>7, <2>1, <2>2, RegistrationStep DEF c, Step
  <1>8. ASSUME SendMail(r) PROVE CardInv'
    <2>1. reqs[r].phase = "mail" /\ UNCHANGED <<stored, spoiled>>
      BY <1>8 DEF SendMail, At
    <2>2. PICK step \in {"insert", "drop front"} : Goto(r, step)
      BY <1>8 DEF SendMail, AfterMail
    <2>3. c \notin spoiled' => stored'[c] = StoredBy(step)
      BY <1>3, <2>1, <2>2 DEF StoredBy
    <2> QED BY <1>1, <1>2, <1>4, <2>1, <2>2, <2>3, RegistrationStep DEF c, Step
  <1>9. ASSUME Undo(r) PROVE CardInv'
    <2>1. reqs[r].phase = "undo" /\ Done(r) /\ Drops(c, "front") BY <1>9 DEF Undo, At, c
    <2>2. CASE Removes(c, "front") /\ UNCHANGED spoiled
      <3>1. /\ stored' \in [Cards -> SUBSET Sides]
            /\ \A d \in Cards \ {c} : stored'[d] = stored[d]
            /\ stored'[c] = stored[c] \ {"front"}
        BY <1>1, <1>4, <2>2 DEF Removes
      <3>2. c \notin spoiled' => stored'[c] = {}
        BY <1>3, <2>1, <2>2, <3>1 DEF StoredBy
      <3> QED BY <1>1, <1>2, <1>4, <2>1, <2>2, <3>1, <3>2, RegistrationEnds DEF c
    <2>3. CASE Fails("storage", c) /\ UNCHANGED stored
      <3>1. spoiled' = spoiled \cup {c} BY <2>3 DEF Fails
      <3> QED BY <1>1, <1>2, <1>4, <2>1, <2>3, <3>1, RegistrationEnds DEF c
    <2> QED BY <2>1, <2>2, <2>3 DEF Drops
  <1> QED BY <1>5, <1>6, <1>7, <1>8, <1>9

\* What a delete_quietly does to one folder.
LEMMA DropFacts ==
    ASSUME TypeOK, NEW c \in Cards, NEW side \in Sides, Drops(c, side)
    PROVE  /\ stored' \in [Cards -> SUBSET Sides] /\ spoiled' \in SUBSET Cards
           /\ \A d \in Cards \ {c} :
                  stored'[d] = stored[d] /\ (d \in spoiled' <=> d \in spoiled)
           /\ spoiled \subseteq spoiled'
           /\ c \notin spoiled' => c \notin spoiled /\ stored'[c] = stored[c] \ {side}
  <1>1. CASE Removes(c, side) /\ UNCHANGED spoiled
    <2>1. stored \in [Cards -> SUBSET Sides] BY DEF TypeOK
    <2> QED BY <1>1, <2>1 DEF Removes, TypeOK
  <1>2. CASE Fails("storage", c) /\ UNCHANGED stored
    <2>1. spoiled' = spoiled \cup {c} BY <1>2 DEF Fails
    <2> QED BY <1>2, <2>1 DEF TypeOK
  <1> QED BY <1>1, <1>2 DEF Drops

\* A registration that failed drops its photos.
LEMMA RegistrationDrops ==
    ASSUME CardInv, NEW r \in Requests, reqs[r].op = "register", DropFront(r) \/ DropBack(r)
    PROVE  CardInv'
  <1> DEFINE c == reqs[r].card
  <1>1. /\ Busy(r) /\ TypeOK /\ reqs[r] \in Request /\ c \in Cards /\ Tracked(c)
        /\ About(r, c)
    <2>1. Busy(r) BY DEF DropFront, DropBack, At
    <2> QED BY <2>1, Before
  <1>2. c \notin spoiled => stored[c] = StoredBy(reqs[r].phase)
    BY <1>1 DEF Tracked, OwnedByRegistration, Registering
  <1> HIDE DEF c
  <1>3. CASE DropFront(r)
    <2>1. /\ reqs[r].phase = "drop front" /\ Drops(c, "front") /\ Goto(r, "drop back")
          /\ UNCHANGED <<row, decided>>
      BY <1>3 DEF DropFront, At, c
    <2>2. /\ stored' \in [Cards -> SUBSET Sides] /\ spoiled' \in SUBSET Cards
          /\ \A d \in Cards \ {c} :
                 stored'[d] = stored[d] /\ (d \in spoiled' <=> d \in spoiled)
          /\ spoiled \subseteq spoiled'
          /\ c \notin spoiled' => c \notin spoiled /\ stored'[c] = stored[c] \ {"front"}
      BY <1>1, <2>1, DropFacts DEF Sides
    <2>3. StoredBy("drop front") \ {"front"} = StoredBy("drop back")
      BY DEF StoredBy, Sides
    <2>4. c \notin spoiled' => stored'[c] = StoredBy("drop back")
      BY <1>2, <2>1, <2>2, <2>3
    <2> QED BY <1>1, <2>1, <2>2, <2>4, RegistrationStep DEF c, Step
  <1>4. CASE DropBack(r)
    <2>1. /\ reqs[r].phase = "drop back" /\ Drops(c, "back") /\ Done(r)
          /\ UNCHANGED <<row, decided>>
      BY <1>4 DEF DropBack, At, c
    <2>2. /\ stored' \in [Cards -> SUBSET Sides] /\ spoiled' \in SUBSET Cards
          /\ \A d \in Cards \ {c} :
                 stored'[d] = stored[d] /\ (d \in spoiled' <=> d \in spoiled)
          /\ spoiled \subseteq spoiled'
          /\ c \notin spoiled' => c \notin spoiled /\ stored'[c] = stored[c] \ {"back"}
      BY <1>1, <2>1, DropFacts DEF Sides
    <2>3. StoredBy("drop back") \ {"back"} = {} BY DEF StoredBy
    <2>4. c \notin spoiled' => stored'[c] = {} BY <1>2, <2>1, <2>2, <2>3
    <2> QED BY <1>1, <2>1, <2>2, <2>4, RegistrationEnds DEF c
  <1> QED BY <1>3, <1>4

\* The row is written, last of all.
LEMMA InsertKeeps ==
    ASSUME CardInv, NEW r \in Requests, NEW c \in Cards, reqs[r].card = c, Insert(r)
    PROVE  CardInv'
  <1> DEFINE p == reqs[r].person
             new == [status |-> "pending_verification", person |-> p, named |-> TRUE]
  <1>1. /\ Busy(r) /\ TypeOK /\ reqs[r] \in Request /\ Tracked(c) /\ About(r, c)
    <2>1. Busy(r) BY DEF Insert, At
    <2> QED BY <2>1, Before
  <1>2. /\ reqs[r].phase = "insert" /\ reqs[r].op = "register" /\ UNCHANGED <<stored, decided>>
    BY <1>1 DEF Insert, At, Tracked, InStep
  <1>3. c \notin spoiled => stored[c] = Sides
    BY <1>1, <1>2 DEF Tracked, OwnedByRegistration, Registering, StoredBy
  <1>4. new \in Row /\ new.status = "pending_verification" /\ new.named
    BY <1>1 DEF Row, Request, Kept, Waiting
  <1>5. \/ row' = [row EXCEPT ![c] = new] /\ Done(r) /\ UNCHANGED spoiled
        \/ Goto(r, "drop front") /\ UNCHANGED <<row, spoiled>>
        \/ row' = [row EXCEPT ![c] = new] /\ Goto(r, "drop front") /\ Fails("database", c)
    BY DEF Insert
  <1> HIDE DEF new
  <1>6. row' = [row EXCEPT ![c] = new] =>
            /\ row' \in [Cards -> Row] /\ row'[c] = new
            /\ \A d \in Cards \ {c} : row'[d] = row[d]
    BY <1>1, <1>4 DEF TypeOK
  <1>7. CASE row' = [row EXCEPT ![c] = new] /\ Done(r) /\ UNCHANGED spoiled
    <2>1. /\ reqs' \in [Requests -> Request \cup {Idle}] /\ reqs'[r] = Idle
          /\ \A q \in Requests \ {r} : reqs'[q] = reqs[q]
      BY <1>1, <1>7, DoneFacts
    <2>2. TypeOK' BY <1>1, <1>2, <1>6, <1>7, <2>1 DEF TypeOK
    <2>3. Local(r, c) BY <1>2, <1>6, <1>7, <2>1 DEF Local
    <2>4. \A q \in Requests : About(q, c)' => About(q, c) /\ q # r /\ reqs'[q] = reqs[q]
      BY <2>1 DEF About, Busy
    <2>5. InStep(c)'
      BY <1>1, <1>2, <1>4, <1>6, <1>7, <2>4, ZenonT(60) DEF InStep, Tracked
    <2>6. ASSUME c \notin spoiled'
          PROVE  OwnedByRegistration(c)' /\ Accounted(c)' /\ WholeOrGoing(c)'
      <3>1. OwnedByRegistration(c) BY <1>1, <1>7, <2>6 DEF Tracked
      <3>2. row[c].status = "drawn" /\ \A q \in Requests : Registering(q, c) => q = r
        BY <1>1, <1>2, <3>1 DEF OwnedByRegistration, Registering
      <3>3. \A q \in Requests : ~About(q, c)'
        BY <1>1, <2>4, <3>2 DEF Tracked, InStep, Registering
      <3>4. c \notin decided' BY <1>1, <1>2, <3>2 DEF Tracked, InStep
      <3>5. stored'[c] = Sides BY <1>2, <1>3, <1>7, <2>6
      <3>6. row'[c].named /\ row'[c].status = "pending_verification" BY <1>4, <1>6, <1>7
      <3>7. OwnedByRegistration(c)' BY <3>3 DEF OwnedByRegistration, Registering
      <3>8. Accounted(c)' BY <3>6 DEF Accounted
      <3>9. WholeOrGoing(c)' BY <3>3, <3>4, <3>5, <3>6 DEF WholeOrGoing
      <3> QED BY <3>7, <3>8, <3>9
    <2>7. Tracked(c)' BY <2>5, <2>6 DEF Tracked
    <2> QED BY <2>2, <2>3, <2>7, LocalSuffices
  <1>8. CASE Goto(r, "drop front") /\ UNCHANGED <<row, spoiled>>
    <2>1. c \notin spoiled' => stored'[c] = StoredBy("drop front")
      BY <1>2, <1>3, <1>8 DEF StoredBy
    <2>2. stored' \in [Cards -> SUBSET Sides] /\ spoiled' \in SUBSET Cards
      BY <1>1, <1>2, <1>8 DEF TypeOK
    <2> QED BY <1>1, <1>2, <1>8, <2>1, <2>2, RegistrationStep DEF Step
  <1>9. CASE row' = [row EXCEPT ![c] = new] /\ Goto(r, "drop front") /\ Fails("database", c)
    <2>1. /\ reqs' \in [Requests -> Request \cup {Idle}]
          /\ reqs'[r] # Idle /\ reqs'[r].phase = "drop front"
          /\ reqs'[r].op = reqs[r].op /\ reqs'[r].card = reqs[r].card
          /\ \A q \in Requests \ {r} : reqs'[q] = reqs[q]
      BY <1>1, <1>9, GotoFacts DEF Step
    <2>2. spoiled' = spoiled \cup {c} BY <1>9 DEF Fails
    <2>3. TypeOK' BY <1>1, <1>2, <1>6, <1>9, <2>1, <2>2 DEF TypeOK
    <2>4. Local(r, c) BY <1>2, <1>6, <1>9, <2>1, <2>2 DEF Local
    <2>5. \A q \in Requests : About(q, c)' => About(q, c)
      BY <1>1, <2>1 DEF About, Busy
    <2>6. InStep(c)'
      <3>1. InStep(c) BY <1>1 DEF Tracked
      <3>2. row'[c].status = "pending_verification" /\ decided' = decided
        BY <1>2, <1>4, <1>6, <1>9
      <3>3. ASSUME NEW q \in Requests, About(q, c)', q # r
            PROVE  About(q, c) /\ reqs'[q] = reqs[q]
        BY <2>1, <2>5, <3>3
      <3>4. reqs'[r].op = "register" /\ reqs'[r].phase = "drop front" BY <1>2, <2>1
      <3> QED BY <3>1, <3>2, <3>3, <3>4 DEF InStep
    <2>7. Tracked(c)' BY <2>2, <2>6 DEF Tracked
    <2> QED BY <2>3, <2>4, <2>7, LocalSuffices
  <1> QED BY <1>5, <1>7, <1>8, <1>9

\* A request that is not a registration: the account exists, or did.
LEMMA MemberFacts ==
    ASSUME CardInv, NEW r \in Requests, Busy(r), reqs[r].op # "register"
    PROVE  /\ row[reqs[r].card].status \notin {"fresh", "drawn"}
           /\ reqs[r].card \notin spoiled =>
                  \A q \in Requests : ~Registering(q, reqs[r].card)
  <1> DEFINE c == reqs[r].card
  <1>1. c \in Cards /\ Tracked(c) /\ About(r, c) BY Before
  <1>2. row[c].status \notin {"fresh", "drawn"} BY <1>1 DEF Tracked, InStep
  <1>3. c \notin spoiled => \A q \in Requests : ~Registering(q, c)
    BY <1>1, <1>2 DEF Tracked, OwnedByRegistration
  <1> QED BY <1>2, <1>3

\* It ends where it was not busy with photos, and nothing else changes.
LEMMA MemberLeaves ==
    ASSUME CardInv, NEW r \in Requests, Busy(r), reqs[r].op # "register",
           reqs[r].phase \in {"write", "clear", "erase"}, Done(r),
           UNCHANGED <<row, stored, decided, spoiled>>
    PROVE  CardInv'
  <1>0. PICK c \in Cards : c = reqs[r].card BY Before
  <1>1. TypeOK /\ Tracked(c) BY <1>0, Before
  <1>2. /\ reqs' \in [Requests -> Request \cup {Idle}] /\ reqs'[r] = Idle
        /\ \A q \in Requests \ {r} : reqs'[q] = reqs[q]
    BY <1>1, DoneFacts
  <1>3. TypeOK' BY <1>1, <1>2 DEF TypeOK
  <1>4. Local(r, c) BY <1>0, <1>2 DEF Local
  <1>5. \A q \in Requests : About(q, c)' => About(q, c) /\ q # r /\ reqs'[q] = reqs[q]
    BY <1>2 DEF About, Busy
  <1>6. InStep(c)' BY <1>1, <1>5 DEF InStep, Tracked
  <1>7. ASSUME c \notin spoiled'
        PROVE  OwnedByRegistration(c)' /\ Accounted(c)' /\ WholeOrGoing(c)'
    <2>1. Accounted(c) /\ WholeOrGoing(c) BY <1>1, <1>7 DEF Tracked
    <2>2. /\ row[c].status \notin {"fresh", "drawn"}
          /\ \A q \in Requests : ~Registering(q, c)
      BY <1>0, <1>7, MemberFacts
    <2>3. \A q \in Requests : ~Registering(q, c)' BY <1>5, <2>2 DEF Registering
    <2>4. OwnedByRegistration(c)' BY <2>3 DEF OwnedByRegistration
    <2>5. Accounted(c)' BY <2>1, <2>2 DEF Accounted, Exists
    <2>6. \A q \in Requests : Discarding(q, c) => Discarding(q, c)'
      BY <1>2 DEF Discarding, Busy
    <2>7. WholeOrGoing(c)' BY <1>5, <2>1, <2>6 DEF WholeOrGoing, Exists
    <2> QED BY <2>4, <2>5, <2>7
  <1>8. Tracked(c)' BY <1>6, <1>7 DEF Tracked
  <1> QED BY <1>3, <1>4, <1>8, LocalSuffices

\* The SELECT of a decision.
LEMMA BeginKeeps ==
    ASSUME CardInv, NEW r \in Requests, NEW op \in Op, NEW c \in Cards, Begin(r, op, c)
    PROVE  CardInv'
  <1> DEFINE phase == IF op # "delete" THEN "write"
                      ELSE IF row[c].named THEN "drop front" ELSE "erase"
             new == [op |-> op, card |-> c, person |-> Nobody, phase |-> phase]
  <1>1. TypeOK /\ Tracked(c) /\ reqs[r] = Idle /\ Exists(c) BY DEF CardInv, Begin, Busy
  <1>2. op # "register" BY DEF Begin, Allows
  <1>3. /\ new \in Request /\ new.op = op /\ new.card = c /\ new.phase = phase
        /\ phase \in {"write", "drop front", "erase"}
    BY DEF Request, Step
  <1>4. reqs' = [reqs EXCEPT ![r] = new] BY DEF Begin
  <1>5. /\ phase # "write" => op = "delete"
        /\ phase = "erase" => ~row[c].named
        /\ op = "delete" /\ row[c].named => phase = "drop front"
    OBVIOUS
  <1> HIDE DEF new, phase
  <1>6. /\ reqs' \in [Requests -> Request \cup {Idle}] /\ reqs'[r] = new /\ new # Idle
        /\ \A q \in Requests \ {r} : reqs'[q] = reqs[q]
    BY <1>1, <1>3, <1>4, IdleAssumption DEF TypeOK
  <1>7. decided' = IF op = "delete" THEN decided \cup {c} ELSE decided BY DEF Begin
  <1>8. UNCHANGED <<row, stored, spoiled>> BY DEF Begin
  <1>9. TypeOK' BY <1>1, <1>6, <1>7, <1>8 DEF TypeOK
  <1>10. Local(r, c) BY <1>1, <1>3, <1>6, <1>7, <1>8 DEF Local
  <1>11. \A q \in Requests : About(q, c)' => q = r \/ (About(q, c) /\ reqs'[q] = reqs[q])
    BY <1>6 DEF About, Busy
  <1>12. row[c].status \notin {"fresh", "drawn"} BY <1>1 DEF Exists, Kept, Waiting
  <1>13. InStep(c)'
    BY <1>1, <1>2, <1>3, <1>5, <1>6, <1>7, <1>8, <1>11, <1>12 DEF InStep, Tracked
  <1>14. ASSUME c \notin spoiled'
         PROVE  OwnedByRegistration(c)' /\ Accounted(c)' /\ WholeOrGoing(c)'
    <2>1. OwnedByRegistration(c) /\ Accounted(c) /\ WholeOrGoing(c)
      BY <1>1, <1>8, <1>14 DEF Tracked
    <2>2. \A q \in Requests : ~Registering(q, c) BY <1>12, <2>1 DEF OwnedByRegistration
    <2>3. \A q \in Requests : ~Registering(q, c)'
      BY <1>2, <1>3, <1>6, <1>11, <2>2 DEF Registering
    <2>4. OwnedByRegistration(c)' BY <2>3 DEF OwnedByRegistration
    <2>5. Accounted(c)' BY <1>8, <1>12, <2>1 DEF Accounted, Exists
    <2>6. \A q \in Requests : Discarding(q, c) => Discarding(q, c)'
      BY <1>1, <1>6 DEF Discarding, Busy
    <2>7. phase = "erase" => stored[c] = {} BY <1>1, <1>5, <2>1 DEF Accounted
    <2>8. ASSUME c \in decided', stored'[c] # {}
          PROVE  \E q \in Requests : Discarding(q, c)'
      <3>1. CASE c \in decided BY <1>8, <2>1, <2>6, <2>8, <3>1 DEF WholeOrGoing
      <3>2. CASE c \notin decided
        <4>1. op = "delete" /\ row[c].named
          BY <1>1, <1>7, <2>1, <2>8, <3>2 DEF WholeOrGoing
        <4>2. Discarding(r, c)' BY <1>3, <1>5, <1>6, <4>1 DEF Discarding, Busy
        <4> QED BY <4>2
      <3> QED BY <3>1, <3>2
    <2>9. \A q \in Requests : About(q, c)' =>
              /\ reqs'[q].phase = "drop back" => "front" \notin stored'[c]
              /\ reqs'[q].phase \in {"clear", "erase"} => stored'[c] = {}
      BY <1>3, <1>6, <1>8, <1>11, <2>1, <2>7 DEF WholeOrGoing
    <2>10. Exists(c)' /\ c \notin decided' => row'[c].named /\ stored'[c] = Sides
      BY <1>1, <1>7, <1>8, <2>1 DEF WholeOrGoing
    <2>11. WholeOrGoing(c)' BY <2>8, <2>9, <2>10 DEF WholeOrGoing
    <2> QED BY <2>4, <2>5, <2>11
  <1>15. Tracked(c)' BY <1>13, <1>14 DEF Tracked
  <1> QED BY <1>9, <1>10, <1>15, LocalSuffices

\* The status of a row is set and nothing else of it.
LEMMA StatusFacts ==
    ASSUME TypeOK, NEW c \in Cards, NEW status \in Kept,
           row' = [row EXCEPT ![c].status = status]
    PROVE  /\ row' \in [Cards -> Row] /\ row'[c].status = status
           /\ row'[c].named = row[c].named
           /\ \A d \in Cards \ {c} : row'[d] = row[d]
  <1> DEFINE new == [row[c] EXCEPT !.status = status]
  <1>1. row[c] \in Row BY DEF TypeOK
  <1>2. new \in Row /\ new.status = status /\ new.named = row[c].named
    BY <1>1 DEF Row
  <1>3. row' = [row EXCEPT ![c] = new] OBVIOUS
  <1> HIDE DEF new
  <1> QED BY <1>2, <1>3 DEF TypeOK

\* The UPDATE of a decision.
LEMMA WriteKeeps ==
    ASSUME CardInv, NEW r \in Requests, Write(r)
    PROVE  CardInv'
  <1>0. Busy(r) /\ reqs[r].phase = "write" BY DEF Write, At
  <1>1. PICK c \in Cards : c = reqs[r].card BY <1>0, Before
  <1>2. TypeOK /\ Tracked(c) /\ About(r, c) BY <1>0, <1>1, Before
  <1>3. reqs[r].op # "register" BY <1>0, <1>2 DEF Tracked, InStep
  <1>4. CASE ~Exists(c)
    <2>1. Done(r) /\ UNCHANGED <<row, stored, decided, spoiled>>
      BY <1>1, <1>4 DEF Write
    <2> QED BY <1>0, <1>3, <2>1, MemberLeaves
  <1>5. CASE Exists(c)
    <2> DEFINE deciding == reqs[r].op \in {"approve", "reject", "confirm"}
               goes == deciding /\ row[c].named
    <2>1. /\ row' = [row EXCEPT ![c].status = NewStatus(reqs[r].op)]
          /\ decided' = IF deciding THEN decided \cup {c} ELSE decided
          /\ IF goes THEN Goto(r, "drop front") ELSE Done(r)
          /\ UNCHANGED <<stored, spoiled>>
      BY <1>1, <1>5 DEF Write, Discards
    <2>2. NewStatus(reqs[r].op) \in {"active", "rejected"} BY DEF NewStatus
    <2>3. /\ row' \in [Cards -> Row] /\ row'[c].status \in {"active", "rejected"}
          /\ row'[c].named = row[c].named
          /\ \A d \in Cards \ {c} : row'[d] = row[d]
      BY <1>2, <2>1, <2>2, StatusFacts DEF Kept
    <2>4. /\ reqs' \in [Requests -> Request \cup {Idle}]
          /\ \A q \in Requests \ {r} : reqs'[q] = reqs[q]
          /\ goes => reqs'[r] # Idle /\ reqs'[r].phase = "drop front"
                     /\ reqs'[r].op = reqs[r].op /\ reqs'[r].card = c
          /\ ~goes => reqs'[r] = Idle
      BY <1>0, <1>1, <1>2, <2>1, GotoFacts, DoneFacts DEF Step
    <2>5. goes => deciding /\ row[c].named
      OBVIOUS
    <2>6. deciding /\ row[c].named => goes
      OBVIOUS
    <2>7. decided' \in SUBSET Cards /\ (c \in decided' <=> c \in decided \/ deciding)
          /\ \A d \in Cards \ {c} : d \in decided' <=> d \in decided
      BY <1>2, <2>1 DEF TypeOK
    <2> HIDE DEF goes, deciding
    <2>8. TypeOK' BY <1>2, <2>1, <2>3, <2>4, <2>7 DEF TypeOK
    <2>9. Local(r, c) BY <1>1, <2>1, <2>3, <2>4, <2>7 DEF Local
    <2>10. \A q \in Requests : About(q, c)' => (q = r /\ goes) \/ (About(q, c) /\ reqs'[q] = reqs[q] /\ q # r)
      BY <2>4 DEF About, Busy
    <2>11. InStep(c)'
      BY <1>2, <1>3, <2>3, <2>4, <2>5, <2>7, <2>10 DEF InStep, Tracked
    <2>12. ASSUME c \notin spoiled'
           PROVE  OwnedByRegistration(c)' /\ Accounted(c)' /\ WholeOrGoing(c)'
      <3>1. Accounted(c) /\ WholeOrGoing(c) /\ c \notin spoiled
        BY <1>2, <2>1, <2>12 DEF Tracked
      <3>2. \A q \in Requests : ~Registering(q, c) BY <1>0, <1>1, <1>3, <3>1, MemberFacts
      <3>3. \A q \in Requests : ~Registering(q, c)'
        BY <1>3, <2>4, <2>10, <3>2 DEF Registering
      <3>4. OwnedByRegistration(c)' BY <3>3 DEF OwnedByRegistration
      <3>5. Accounted(c)' BY <1>5, <2>1, <2>3, <3>1 DEF Accounted
      <3>6. \A q \in Requests : Discarding(q, c) => Discarding(q, c)'
        BY <1>0, <2>4 DEF Discarding, Busy
      <3>7. ASSUME c \in decided', stored'[c] # {}
            PROVE  \E q \in Requests : Discarding(q, c)'
        <4>1. CASE c \in decided BY <2>1, <3>1, <3>6, <3>7, <4>1 DEF WholeOrGoing
        <4>2. CASE c \notin decided
          <5>1. goes BY <1>5, <2>6, <2>7, <3>1, <3>7, <4>2 DEF WholeOrGoing
          <5>2. Discarding(r, c)' BY <2>4, <5>1 DEF Discarding, Busy
          <5> QED BY <5>2
        <4> QED BY <4>1, <4>2
      <3>8. \A q \in Requests : About(q, c)' =>
                /\ reqs'[q].phase = "drop back" => "front" \notin stored'[c]
                /\ reqs'[q].phase \in {"clear", "erase"} => stored'[c] = {}
        BY <2>1, <2>4, <2>10, <3>1 DEF WholeOrGoing
      <3>9. Exists(c)' /\ c \notin decided' => row'[c].named /\ stored'[c] = Sides
        BY <1>5, <2>1, <2>3, <2>7, <3>1 DEF WholeOrGoing
      <3>10. WholeOrGoing(c)' BY <3>7, <3>8, <3>9 DEF WholeOrGoing
      <3> QED BY <3>4, <3>5, <3>10
    <2>13. Tracked(c)' BY <2>11, <2>12 DEF Tracked
    <2> QED BY <2>8, <2>9, <2>13, LocalSuffices
  <1> QED BY <1>4, <1>5

\* verify-otp.
LEMMA VerifyKeeps ==
    ASSUME CardInv, NEW c \in Cards, Verify(c)
    PROVE  CardInv'
  <1>1. TypeOK /\ Tracked(c) /\ Exists(c) /\ UNCHANGED <<stored, reqs, decided, spoiled>>
    BY DEF CardInv, Verify
  <1>2. PICK status \in {"active", "pending"} : row' = [row EXCEPT ![c].status = status]
    BY DEF Verify
  <1>3. /\ row' \in [Cards -> Row] /\ row'[c].status = status
        /\ row'[c].named = row[c].named
        /\ \A d \in Cards \ {c} : row'[d] = row[d]
    BY <1>1, <1>2, StatusFacts DEF Kept, Waiting
  <1>4. TypeOK' BY <1>1, <1>3 DEF TypeOK
  <1>5. ASSUME NEW d \in Cards, d # c PROVE Tracked(d)'
    <2>1. Tracked(d) BY DEF CardInv
    <2> QED BY <1>1, <1>3, <1>5, <2>1, Elsewhere
  <1>6. \A q \in Requests : /\ About(q, c)' <=> About(q, c)
                            /\ Registering(q, c)' <=> Registering(q, c)
                            /\ Discarding(q, c)' <=> Discarding(q, c)
    BY <1>1 DEF About, Registering, Discarding, Busy
  <1>7. row[c].status \notin {"fresh", "drawn"} /\ row'[c].status \notin {"fresh", "drawn", "deleted"}
    BY <1>1, <1>3 DEF Exists, Kept, Waiting
  <1>8. InStep(c)' BY <1>1, <1>6, <1>7 DEF InStep, Tracked
  <1>9. ASSUME c \notin spoiled'
        PROVE  OwnedByRegistration(c)' /\ Accounted(c)' /\ WholeOrGoing(c)'
    <2>1. OwnedByRegistration(c) /\ Accounted(c) /\ WholeOrGoing(c)
      BY <1>1, <1>9 DEF Tracked
    <2>2. OwnedByRegistration(c)' BY <1>6, <1>7, <2>1 DEF OwnedByRegistration
    <2>3. Accounted(c)' BY <1>1, <1>3, <1>7, <2>1 DEF Accounted
    <2>4. WholeOrGoing(c)' BY <1>1, <1>3, <1>6, <2>1 DEF WholeOrGoing
    <2> QED BY <2>2, <2>3, <2>4
  <1>10. Tracked(c)' BY <1>8, <1>9 DEF Tracked
  <1> QED BY <1>4, <1>5, <1>10 DEF CardInv

\* A decision drops a photo.
LEMMA MemberDrops ==
    ASSUME CardInv, NEW r \in Requests, reqs[r].op # "register", DropFront(r) \/ DropBack(r)
    PROVE  CardInv'
  <1>0. Busy(r) /\ UNCHANGED <<row, decided>> BY DEF DropFront, DropBack, At
  <1>1. PICK c \in Cards : c = reqs[r].card BY <1>0, Before
  <1>2. TypeOK /\ Tracked(c) /\ About(r, c) BY <1>0, <1>1, Before
  <1>3. PICK side \in Sides, next \in {"drop back", "clear"} :
            /\ Drops(c, side) /\ Goto(r, next)
            /\ side = "front" => reqs[r].phase = "drop front" /\ next = "drop back"
            /\ side = "back" => reqs[r].phase = "drop back" /\ next = "clear"
    <2>1. CASE DropFront(r) BY <1>1, <2>1 DEF DropFront, At, Sides
    <2>2. CASE DropBack(r) BY <1>1, <2>2 DEF DropBack, At, Sides
    <2> QED BY <2>1, <2>2
  <1>4. /\ stored' \in [Cards -> SUBSET Sides] /\ spoiled' \in SUBSET Cards
        /\ \A d \in Cards \ {c} :
               stored'[d] = stored[d] /\ (d \in spoiled' <=> d \in spoiled)
        /\ spoiled \subseteq spoiled'
        /\ c \notin spoiled' => c \notin spoiled /\ stored'[c] = stored[c] \ {side}
    BY <1>2, <1>3, DropFacts
  <1>5. /\ reqs' \in [Requests -> Request \cup {Idle}]
        /\ reqs'[r] # Idle /\ reqs'[r].phase = next
        /\ reqs'[r].op = reqs[r].op /\ reqs'[r].card = c
        /\ \A q \in Requests \ {r} : reqs'[q] = reqs[q]
    BY <1>0, <1>1, <1>2, <1>3, GotoFacts DEF Step
  <1>6. TypeOK' BY <1>0, <1>2, <1>4, <1>5 DEF TypeOK
  <1>7. Local(r, c) BY <1>0, <1>1, <1>4, <1>5 DEF Local
  <1>8. \A q \in Requests : /\ About(q, c)' => About(q, c)
                            /\ q # r => reqs'[q] = reqs[q]
    BY <1>2, <1>5 DEF About, Busy
  <1>9. c \in decided /\ row[c].status \notin {"fresh", "drawn"}
    BY <1>2, <1>3 DEF Tracked, InStep, Sides
  <1>10. InStep(c)' BY <1>0, <1>2, <1>5, <1>8, <1>9 DEF InStep, Tracked
  <1>11. ASSUME c \notin spoiled'
         PROVE  OwnedByRegistration(c)' /\ Accounted(c)' /\ WholeOrGoing(c)'
    <2>1. /\ Accounted(c) /\ WholeOrGoing(c) /\ c \notin spoiled
          /\ stored'[c] = stored[c] \ {side}
      BY <1>2, <1>4, <1>11 DEF Tracked
    <2>2. \A q \in Requests : ~Registering(q, c) BY <1>0, <1>1, <2>1, MemberFacts
    <2>3. \A q \in Requests : ~Registering(q, c)'
      BY <1>5, <1>8, <2>2 DEF Registering
    <2>4. OwnedByRegistration(c)' BY <2>3 DEF OwnedByRegistration
    <2>5. Accounted(c)' BY <1>0, <1>9, <2>1 DEF Accounted, Exists
    <2>6. stored[c] \subseteq Sides BY <1>2 DEF TypeOK
    <2>7. side = "back" => stored'[c] = {}
      BY <1>2, <1>3, <2>1, <2>6 DEF WholeOrGoing, Sides
    <2>8. \A q \in Requests : About(q, c)' =>
              /\ reqs'[q].phase = "drop back" => "front" \notin stored'[c]
              /\ reqs'[q].phase \in {"clear", "erase"} => stored'[c] = {}
      <3> SUFFICES ASSUME NEW q \in Requests, About(q, c)'
                   PROVE  /\ reqs'[q].phase = "drop back" => "front" \notin stored'[c]
                          /\ reqs'[q].phase \in {"clear", "erase"} => stored'[c] = {}
        OBVIOUS
      <3>1. CASE q = r BY <1>3, <1>5, <2>1, <2>7, <3>1 DEF Sides
      <3>2. CASE q # r BY <1>8, <2>1, <3>2 DEF WholeOrGoing
      <3> QED BY <3>1, <3>2
    <2>9. stored'[c] # {} => Discarding(r, c)'
      BY <1>3, <1>5, <2>7 DEF Discarding, Busy, Sides
    <2>10. c \in decided' BY <1>0, <1>9
    <2>11. WholeOrGoing(c)' BY <2>8, <2>9, <2>10 DEF WholeOrGoing
    <2> QED BY <2>4, <2>5, <2>11
  <1>12. Tracked(c)' BY <1>10, <1>11 DEF Tracked
  <1> QED BY <1>6, <1>7, <1>12, LocalSuffices

\* The last statements of a decision: the paths are cleared, the row is deleted.
LEMMA RowGoes ==
    ASSUME CardInv, NEW r \in Requests, NEW c \in Cards, c = reqs[r].card,
           Busy(r), reqs[r].op # "register", reqs[r].phase \in {"clear", "erase"},
           row' \in [Cards -> Row], \A d \in Cards \ {c} : row'[d] = row[d],
           \/ row'[c].status = row[c].status
           \/ row'[c].status = "deleted",
           Done(r) \/ Goto(r, "erase"),
           UNCHANGED <<stored, decided, spoiled>>
    PROVE  CardInv'
  <1>1. TypeOK /\ Tracked(c) /\ About(r, c) BY Before
  <1>2. /\ reqs' \in [Requests -> Request \cup {Idle}]
        /\ reqs'[r] = Idle \/ (/\ reqs'[r] # Idle /\ reqs'[r].phase = "erase"
                               /\ reqs'[r].op = reqs[r].op /\ reqs'[r].card = c)
        /\ \A q \in Requests \ {r} : reqs'[q] = reqs[q]
    BY <1>1, GotoFacts, DoneFacts DEF Step
  <1>3. TypeOK' BY <1>1, <1>2 DEF TypeOK
  <1>4. Local(r, c) BY <1>2 DEF Local
  <1>5. \A q \in Requests : /\ About(q, c)' => About(q, c)
                            /\ q # r => reqs'[q] = reqs[q]
    BY <1>1, <1>2 DEF About, Busy
  <1>6. c \in decided /\ row[c].status \notin {"fresh", "drawn"}
    BY <1>1 DEF Tracked, InStep
  <1>7. row'[c].status \notin {"fresh", "drawn"} BY <1>6
  <1>8. InStep(c)'
    <2> SUFFICES ASSUME NEW q \in Requests, About(q, c)'
                 PROVE  /\ reqs'[q].op = "register" =>
                               reqs'[q].phase \notin {"write", "clear", "erase"}
                        /\ reqs'[q].op # "register" =>
                               reqs'[q].phase \in {"write", "drop front", "drop back", "clear", "erase"}
      BY <1>6, <1>7 DEF InStep
    <2>1. CASE q = r BY <1>2, <2>1 DEF About, Busy
    <2>2. CASE q # r BY <1>1, <1>5, <2>2 DEF Tracked, InStep
    <2> QED BY <2>1, <2>2
  <1>9. ASSUME c \notin spoiled'
        PROVE  OwnedByRegistration(c)' /\ Accounted(c)' /\ WholeOrGoing(c)'
    <2>1. Accounted(c) /\ WholeOrGoing(c) /\ c \notin spoiled BY <1>1, <1>9 DEF Tracked
    <2>2. stored'[c] = {} BY <1>1, <2>1 DEF WholeOrGoing
    <2>3. \A q \in Requests : ~Registering(q, c) BY <2>1, MemberFacts
    <2>4. \A q \in Requests : ~Registering(q, c)'
      BY <1>2, <1>5, <2>3 DEF Registering, About, Busy
    <2>5. OwnedByRegistration(c)' BY <2>4 DEF OwnedByRegistration
    <2>6. Accounted(c)' BY <2>2 DEF Accounted
    <2>7. c \in decided' BY <1>6
    <2>8. WholeOrGoing(c)' BY <2>2, <2>7 DEF WholeOrGoing
    <2> QED BY <2>5, <2>6, <2>8
  <1>10. Tracked(c)' BY <1>8, <1>9 DEF Tracked
  <1> QED BY <1>3, <1>4, <1>10, LocalSuffices

LEMMA ClearOrErase ==
    ASSUME CardInv, NEW r \in Requests, Clear(r) \/ Erase(r)
    PROVE  CardInv'
  <1>0. Busy(r) /\ reqs[r].phase \in {"clear", "erase"} /\ UNCHANGED <<stored, decided, spoiled>>
    BY DEF Clear, Erase, At
  <1>1. PICK c \in Cards : c = reqs[r].card BY <1>0, Before
  <1>2. TypeOK /\ Tracked(c) /\ About(r, c) BY <1>0, <1>1, Before
  <1>3. reqs[r].op # "register" BY <1>0, <1>2 DEF Tracked, InStep
  <1>4. Done(r) \/ Goto(r, "erase") BY DEF Clear, Erase
  <1>5. row \in [Cards -> Row] /\ row[c] \in Row BY <1>2 DEF TypeOK
  <1>6. PICK new \in Row : /\ row' = [row EXCEPT ![c] = new]
                           /\ new.status = row[c].status \/ new.status = "deleted"
    <2>1. CASE row' = row
      <3>1. row' = [row EXCEPT ![c] = row[c]] BY <1>5, <2>1
      <3> QED BY <1>5, <3>1
    <2>2. CASE row' = [row EXCEPT ![c].named = FALSE]
      <3> DEFINE new == [row[c] EXCEPT !.named = FALSE]
      <3>1. new \in Row /\ new.status = row[c].status BY <1>5 DEF Row
      <3>2. row' = [row EXCEPT ![c] = new] BY <2>2
      <3> HIDE DEF new
      <3> QED BY <3>1, <3>2
    <2>3. CASE row' = [row EXCEPT ![c] = NoRow("deleted")]
      <3>1. NoRow("deleted") \in Row /\ NoRow("deleted").status = "deleted"
        BY DEF NoRow, Row
      <3> QED BY <2>3, <3>1
    <2>4. CASE Clear(r) BY <1>1, <2>1, <2>2, <2>4 DEF Clear
    <2>5. CASE Erase(r)
      <3>1. \/ row' = row \/ row' = [row EXCEPT ![c] = NoRow("deleted")]
            \/ row' = [row EXCEPT ![c] = row[c]]
        BY <1>1, <2>5 DEF Erase
      <3> QED BY <1>5, <2>1, <2>3, <3>1
    <2> QED BY <2>4, <2>5
  <1>7. /\ row' \in [Cards -> Row] /\ row'[c] = new
        /\ \A d \in Cards \ {c} : row'[d] = row[d]
    BY <1>5, <1>6
  <1> QED BY <1>0, <1>1, <1>3, <1>4, <1>6, <1>7, RowGoes

\* A request is cut off.
LEMMA CutoffKeeps ==
    ASSUME CardInv, NEW r \in Requests, Cutoff(r)
    PROVE  CardInv'
  <1>0. Busy(r) /\ Done(r) /\ UNCHANGED <<row, stored, decided>> BY DEF Cutoff
  <1>1. PICK c \in Cards : c = reqs[r].card BY <1>0, Before
  <1>2. TypeOK /\ Tracked(c) /\ About(r, c) BY <1>0, <1>1, Before
  <1>3. spoiled' \in SUBSET Cards /\ spoiled' \in {spoiled, spoiled \cup {c}}
    BY <1>1, <1>2 DEF Cutoff, TypeOK
  <1>4. reqs[r].phase \notin {"front", "write", "clear", "erase"} => c \in spoiled'
    BY <1>1 DEF Cutoff
  <1>5. reqs[r].phase \in {"front", "write", "clear", "erase"} => spoiled' = spoiled
    BY DEF Cutoff
  <1>6. stored' \in [Cards -> SUBSET Sides]
        /\ \A d \in Cards \ {c} :
               stored'[d] = stored[d] /\ (d \in spoiled' <=> d \in spoiled)
        /\ spoiled \subseteq spoiled'
    BY <1>0, <1>2, <1>3 DEF TypeOK
  <1>7. CASE reqs[r].op = "register"
    <2>1. reqs[r].phase = "front" /\ c \notin spoiled => stored[c] = {}
      BY <1>2, <1>7 DEF Tracked, OwnedByRegistration, Registering, StoredBy
    <2>2. reqs[r].phase \notin {"write", "clear", "erase"}
      BY <1>2, <1>7 DEF Tracked, InStep
    <2>3. c \notin spoiled' => stored'[c] = {} BY <1>0, <1>4, <1>5, <2>1, <2>2
    <2> QED BY <1>0, <1>1, <1>3, <1>6, <1>7, <2>3, RegistrationEnds
  <1>8. CASE reqs[r].op # "register"
    <2>1. CASE reqs[r].phase \in {"write", "clear", "erase"}
      BY <1>0, <1>5, <1>8, <2>1, MemberLeaves
    <2>2. CASE reqs[r].phase \notin {"write", "clear", "erase"}
      <3>1. c \in spoiled' BY <1>2, <1>4, <1>8, <2>2 DEF Tracked, InStep
      <3>2. /\ reqs' \in [Requests -> Request \cup {Idle}] /\ reqs'[r] = Idle
            /\ \A q \in Requests \ {r} : reqs'[q] = reqs[q]
        BY <1>0, <1>2, DoneFacts
      <3>3. TypeOK' BY <1>0, <1>2, <1>3, <3>2 DEF TypeOK
      <3>4. Local(r, c) BY <1>0, <1>1, <1>6, <3>2 DEF Local
      <3>5. \A q \in Requests : About(q, c)' => About(q, c) /\ reqs'[q] = reqs[q]
        BY <3>2 DEF About, Busy
      <3>6. InStep(c)' BY <1>0, <1>2, <3>5 DEF InStep, Tracked
      <3>7. Tracked(c)' BY <3>1, <3>6 DEF Tracked
      <3> QED BY <3>3, <3>4, <3>7, LocalSuffices
    <2> QED BY <2>1, <2>2
  <1> QED BY <1>7, <1>8

\* Each step preserves the invariant.
LEMMA StepInv == CardInv /\ [Next]_vars => CardInv'
  <1> SUFFICES ASSUME CardInv, [Next]_vars PROVE CardInv'
    OBVIOUS
  <1>1. CASE \E r \in Requests, c \in Cards, p \in People : Register(r, c, p)
    BY <1>1, KeepsRegister
  <1>2. CASE \E r \in Requests, op \in Op, c \in Cards : Begin(r, op, c)
    BY <1>2, BeginKeeps
  <1>3. CASE \E r \in Requests : \/ UploadFront(r) \/ UploadBack(r) \/ StoreOtp(r)
                                 \/ SendMail(r) \/ Undo(r)
    BY <1>3, RegistrationKeeps, OtpErrorKeeps DEF StoreOtp
  <1>4. ASSUME NEW r \in Requests, Insert(r) PROVE CardInv'
    <2>1. reqs[r].card \in Cards BY <1>4, Before DEF Insert, At
    <2> QED BY <1>4, <2>1, InsertKeeps
  <1>5. CASE \E r \in Requests : Write(r) BY <1>5, WriteKeeps
  <1>6. ASSUME NEW r \in Requests, WriteFails(r) PROVE CardInv'
    <2>1. Busy(r) /\ reqs[r].phase = "write" BY <1>6 DEF WriteFails, At
    <2>2. reqs[r].op # "register"
      BY <2>1, Before DEF Tracked, InStep
    <2> QED BY <1>6, <2>1, <2>2, MemberLeaves DEF WriteFails
  <1>7. CASE \E r \in Requests : DropFront(r) \/ DropBack(r)
    BY <1>7, RegistrationDrops, MemberDrops
  <1>8. CASE \E r \in Requests : Clear(r) \/ Erase(r) BY <1>8, ClearOrErase
  <1>9. CASE \E r \in Requests : Cutoff(r) BY <1>9, CutoffKeeps
  <1>10. CASE \E c \in Cards : Verify(c) BY <1>10, VerifyKeeps
  <1>11. ASSUME UNCHANGED vars PROVE CardInv'
    <2>1. UNCHANGED <<row, stored, reqs, decided, spoiled>> BY <1>11 DEF vars
    <2>2. TypeOK' BY <2>1 DEF CardInv, TypeOK
    <2>3. ASSUME NEW c \in Cards PROVE Tracked(c)'
      <3>1. Tracked(c) BY DEF CardInv
      <3> QED BY <2>1, <3>1, Elsewhere
    <2> QED BY <2>2, <2>3 DEF CardInv
  <1> QED
    BY <1>1, <1>2, <1>3, <1>4, <1>5, <1>6, <1>7, <1>8, <1>9, <1>10, <1>11 DEF Next

\* Every reachable state satisfies the invariant.
THEOREM Invariant == Spec => []CardInv
  BY InitInv, StepInv, PTL DEF Spec

\* Every variable keeps its type.
THEOREM TypeCorrect == Spec => []TypeOK
  <1>1. CardInv => TypeOK BY DEF CardInv
  <1> QED BY <1>1, Invariant, PTL

\* An account that waits for a decision, and that no fault or decision touched, has
\* both of its photos for the admin to look at.
THEOREM ReviewsHavePhotos == Spec => []ReviewHasPhotos
  <1>1. CardInv => ReviewHasPhotos
    <2> SUFFICES ASSUME CardInv, NEW c \in Cards \ (decided \cup spoiled),
                        row[c].status \in Waiting
                 PROVE  row[c].named /\ stored[c] = Sides
      BY DEF ReviewHasPhotos
    <2>1. Exists(c) BY DEF Exists, Kept
    <2> QED BY <2>1 DEF CardInv, Tracked, WholeOrGoing
  <1> QED BY <1>1, Invariant, PTL

\* Photos that neither a row nor a request knows of are left by a fault, or by the
\* error path of store_otp.
THEOREM OrphansHaveCauses == Spec => []OrphansAreExplained
  <1>1. CardInv => OrphansAreExplained
    <2> SUFFICES ASSUME CardInv, NEW c \in Cards \ spoiled, stored[c] # {},
                        Abandoned(c), row[c].status # "left"
                 PROVE  Exists(c) /\ row[c].named
      BY DEF OrphansAreExplained
    <2>1. Accounted(c) /\ row[c] \in Row BY DEF CardInv, Tracked, TypeOK
    <2>2. \A r \in Requests : ~Registering(r, c) BY DEF Abandoned, Registering, About
    <2>3. row[c].status \in Kept BY <2>1, <2>2 DEF Accounted, Row
    <2> QED BY <2>1, <2>3 DEF Accounted, Exists
  <1> QED BY <1>1, Invariant, PTL

\* After an approval, a rejection, a confirmed university address or a deletion that
\* no fault hit, and with nobody busy dropping them, the photos are gone, however many
\* admins decided at once.
THEOREM DecisionsDropPhotos == Spec => []DecisionDropsPhotos
  <1>1. CardInv => DecisionDropsPhotos
    BY DEF CardInv, TypeOK, Tracked, WholeOrGoing, DecisionDropsPhotos
  <1> QED BY <1>1, Invariant, PTL

=============================================================================
