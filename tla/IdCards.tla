------------------------------ MODULE IdCards ------------------------------
(***************************************************************************)
(* The photos of ID cards: uploaded by register before the row exists,     *)
(* looked at by an admin, dropped after the decision (discard_id_card).    *)
(* The rows are in Postgres and the photos in an object store; nothing     *)
(* spans both.                                                             *)
(*                                                                         *)
(* A statement or a call to the store is one action.  A registration draws *)
(* a random folder, which stands for the account too: no other row ever    *)
(* names it.  Which codes let a step through is in Accounts.               *)
(***************************************************************************)
EXTENDS FiniteSets

CONSTANTS
    Cards,     \* the folders, one per registration with photos
    People,    \* by their registration number and address, both unique
    Nobody,
    Idle,      \* a slot in which nothing is under way
    Requests,  \* slots for requests in flight
    Faults     \* what may go wrong

\* A request is dropped, a statement fails, the store refuses or does not answer.
ASSUME CardAssumption ==
    /\ Nobody \notin People
    /\ Faults \subseteq {"cutoff", "database", "storage"}

VARIABLES
    row,      \* the account of each folder, "drawn" while there is none yet and
              \* "left" if store_otp failed before there was one
    stored,   \* the objects in each folder
    reqs,     \* requests in flight
    decided,  \* history: accounts approved, rejected, confirmed at a university
              \* address, or chosen for deletion: what discard_id_card follows
    spoiled   \* history: a fault left photos nobody keeps track of

vars == <<row, stored, reqs, decided, spoiled>>

Sides == {"front", "back"}
Waiting == {"pending_verification", "pending"}
Kept == Waiting \cup {"active", "rejected"}

Row == [status : Kept \cup {"fresh", "drawn", "left", "deleted"}, person : People \cup {Nobody},
        named : BOOLEAN]
NoRow(status) == [status |-> status, person |-> Nobody, named |-> FALSE]

Op == {"register", "approve", "reject", "confirm", "ban", "reactivate", "delete"}
Step == {"front", "back", "undo", "otp", "mail", "insert", "write",
          "drop front", "drop back", "clear", "erase"}
Request == [op : Op, phase : Step, card : Cards, person : People \cup {Nobody}]

ASSUME IdleAssumption == Idle \notin Request

TypeOK ==
    /\ row \in [Cards -> Row]
    /\ stored \in [Cards -> SUBSET Sides]
    /\ reqs \in [Requests -> Request \cup {Idle}]
    /\ decided \in SUBSET Cards
    /\ spoiled \in SUBSET Cards

Init ==
    /\ row = [c \in Cards |-> NoRow("fresh")]
    /\ stored = [c \in Cards |-> {}]
    /\ reqs = [r \in Requests |-> Idle]
    /\ decided = {}
    /\ spoiled = {}

-----------------------------------------------------------------------------

Exists(c) == row[c].status \in Kept
Registered(p) == \E c \in Cards : Exists(c) /\ row[c].person = p

Busy(r) == reqs[r] # Idle
At(r, phase) == Busy(r) /\ reqs[r].phase = phase
Goto(r, phase) == reqs' = [reqs EXCEPT ![r] = [@ EXCEPT !.phase = phase]]
Done(r) == reqs' = [reqs EXCEPT ![r] = Idle]

Fails(kind, c) == kind \in Faults /\ spoiled' = spoiled \cup {c}

-----------------------------------------------------------------------------
(* Registration.                                                           *)

\* A fresh folder is drawn: the person is not registered; the photos were read and re-encoded.
Register(r, c, p) ==
    /\ ~Busy(r) /\ ~Registered(p)
    /\ row[c].status = "fresh"
    /\ row' = [row EXCEPT ![c] = NoRow("drawn")]
    /\ reqs' = [reqs EXCEPT ![r] =
           [op |-> "register", phase |-> "front", card |-> c, person |-> p]]
    /\ UNCHANGED <<stored, decided, spoiled>>

Stores(c, side) == stored' = [stored EXCEPT ![c] = @ \cup {side}]
Removes(c, side) == stored' = [stored EXCEPT ![c] = @ \ {side}]

UploadFront(r) ==
    LET c == reqs[r].card IN
    /\ At(r, "front")
    /\ \/ Stores(c, "front") /\ Goto(r, "back") /\ UNCHANGED spoiled
       \/ UNCHANGED <<stored, spoiled>> /\ Done(r)
       \/ Stores(c, "front") /\ Fails("storage", c) /\ Done(r)
    /\ UNCHANGED <<row, decided>>

\* Faulty variant: a registration goes on without the second photo.
AfterBackAnyway(ok) == "otp"

AfterBack(ok) == IF ok THEN "otp" ELSE "undo"

UploadBack(r) ==
    LET c == reqs[r].card IN
    /\ At(r, "back")
    /\ \/ Stores(c, "back") /\ Goto(r, AfterBack(TRUE)) /\ UNCHANGED spoiled
       \/ UNCHANGED <<stored, spoiled>> /\ Goto(r, AfterBack(FALSE))
       \/ Stores(c, "back") /\ Fails("storage", c) /\ Goto(r, AfterBack(FALSE))
    /\ UNCHANGED <<row, decided>>

\* store_otp, whose error returns at once and drops nothing.
StoreOtp(r) ==
    /\ At(r, "otp")
    /\ \/ Goto(r, "mail") /\ UNCHANGED row
       \/ /\ "database" \in Faults /\ Done(r)
          /\ row' = [row EXCEPT ![reqs[r].card] = NoRow("left")]
    /\ UNCHANGED <<stored, decided, spoiled>>

\* Faulty variant: when the mail is refused only the first photo is dropped.
AfterMailUndoes(ok) == IF ok THEN "insert" ELSE "undo"

AfterMail(ok) == IF ok THEN "insert" ELSE "drop front"

SendMail(r) ==
    /\ At(r, "mail")
    /\ \E ok \in BOOLEAN : Goto(r, AfterMail(ok))
    /\ UNCHANGED <<row, stored, decided, spoiled>>

\* An error drops the photos, also one that comes after the row was committed.
Insert(r) ==
    LET c == reqs[r].card
        p == reqs[r].person
        inserted == row' = [row EXCEPT ![c] =
                        [status |-> "pending_verification", person |-> p, named |-> TRUE]]
    IN
    /\ At(r, "insert")
    /\ \/ ~Registered(p) /\ inserted /\ Done(r) /\ UNCHANGED spoiled
       \/ /\ Registered(p) \/ "database" \in Faults
          /\ Goto(r, "drop front") /\ UNCHANGED <<row, spoiled>>
       \/ ~Registered(p) /\ inserted /\ Goto(r, "drop front") /\ Fails("database", c)
    /\ UNCHANGED <<stored, decided>>

-----------------------------------------------------------------------------
(* What happens to the account.                                            *)

\* verify-otp, whatever the status was; a university address, which may have come
\* with photos too, is not reviewed.
Verify(c) ==
    /\ Exists(c)
    /\ \E status \in {"active", "pending"} : row' = [row EXCEPT ![c].status = status]
    /\ UNCHANGED <<stored, reqs, decided, spoiled>>

Allows(op, status) ==
    \/ op \in {"approve", "reject"} /\ status = "pending"
    \/ op = "ban" /\ status # "rejected"
    \/ op = "reactivate" /\ status # "active"
    \/ op \in {"confirm", "delete"}

\* The SELECT: what it finds of the photos matters to a deletion only.
Begin(r, op, c) ==
    /\ ~Busy(r) /\ Exists(c) /\ Allows(op, row[c].status)
    /\ reqs' = [reqs EXCEPT ![r] =
           [op |-> op, card |-> c, person |-> Nobody,
            phase |-> IF op # "delete" THEN "write"
                      ELSE IF row[c].named THEN "drop front" ELSE "erase"]]
    /\ decided' = IF op = "delete" THEN decided \cup {c} ELSE decided
    /\ UNCHANGED <<row, stored, spoiled>>

NewStatus(op) == IF op \in {"reject", "ban"} THEN "rejected" ELSE "active"

\* Faulty variant: a rejection leaves the photos.
DiscardsUnlessRejected(op) == op \in {"approve", "confirm"}

Discards(op) == op \in {"approve", "reject", "confirm"}

\* UPDATE ... RETURNING: the photos of the row as it is now are discarded.
Write(r) ==
    LET c == reqs[r].card
        op == reqs[r].op
    IN
    /\ At(r, "write")
    /\ IF Exists(c)
       THEN /\ row' = [row EXCEPT ![c].status = NewStatus(op)]
            /\ decided' = IF op \in {"approve", "reject", "confirm"}
                          THEN decided \cup {c} ELSE decided
            /\ IF Discards(op) /\ row[c].named THEN Goto(r, "drop front") ELSE Done(r)
       ELSE Done(r) /\ UNCHANGED <<row, decided>>
    /\ UNCHANGED <<stored, spoiled>>

\* The code is wrong, the UPDATE fails, or the request ends before it.
WriteFails(r) ==
    /\ At(r, "write")
    /\ Done(r)
    /\ UNCHANGED <<row, stored, decided, spoiled>>

-----------------------------------------------------------------------------
(* delete_quietly, discard_uploads and discard_id_card.                    *)

Drops(c, side) ==
    \/ Removes(c, side) /\ UNCHANGED spoiled
    \/ Fails("storage", c) /\ UNCHANGED stored

Undo(r) ==
    /\ At(r, "undo")
    /\ Drops(reqs[r].card, "front")
    /\ Done(r)
    /\ UNCHANGED <<row, decided>>

DropFront(r) ==
    /\ At(r, "drop front")
    /\ Drops(reqs[r].card, "front")
    /\ Goto(r, "drop back")
    /\ UNCHANGED <<row, decided>>

DropBack(r) ==
    /\ At(r, "drop back")
    /\ Drops(reqs[r].card, "back")
    /\ IF reqs[r].op = "register" THEN Done(r) ELSE Goto(r, "clear")
    /\ UNCHANGED <<row, decided>>

\* Both paths set to NULL; a failure is logged and ignored.
Clear(r) ==
    /\ At(r, "clear")
    /\ \/ row' = [row EXCEPT ![reqs[r].card].named = FALSE]
       \/ "database" \in Faults /\ UNCHANGED row
    /\ IF reqs[r].op = "delete" THEN Goto(r, "erase") ELSE Done(r)
    /\ UNCHANGED <<stored, decided, spoiled>>

\* DELETE, refused while a key refers to the account.
Erase(r) ==
    LET c == reqs[r].card IN
    /\ At(r, "erase")
    /\ row' \in {row, [row EXCEPT ![c] = IF Exists(c) THEN NoRow("deleted") ELSE @]}
    /\ Done(r)
    /\ UNCHANGED <<stored, decided, spoiled>>

\* The client goes away, or the process stops: photos that were being stored or
\* dropped are nobody's any more.
Cutoff(r) ==
    /\ Busy(r) /\ "cutoff" \in Faults
    /\ spoiled' = IF reqs[r].phase \in {"front", "write", "clear", "erase"}
                  THEN spoiled ELSE spoiled \cup {reqs[r].card}
    /\ Done(r)
    /\ UNCHANGED <<row, stored, decided>>

-----------------------------------------------------------------------------

Next ==
    \/ \E r \in Requests :
           \/ \E c \in Cards :
                  \/ \E p \in People : Register(r, c, p)
                  \/ \E op \in Op : Begin(r, op, c)
           \/ UploadFront(r) \/ UploadBack(r) \/ StoreOtp(r) \/ SendMail(r) \/ Insert(r)
           \/ Write(r) \/ WriteFails(r)
           \/ Undo(r) \/ DropFront(r) \/ DropBack(r) \/ Clear(r) \/ Erase(r)
           \/ Cutoff(r)
    \/ \E c \in Cards : Verify(c)

Spec == Init /\ [][Next]_vars

-----------------------------------------------------------------------------
(* Properties.                                                             *)

Discarding(r, c) ==
    Busy(r) /\ reqs[r].card = c /\ reqs[r].phase \in {"drop front", "drop back"}

\* An admin who has an account still to decide about can look at both of its
\* photos: registration writes the row last, and nothing drops them before the
\* decision (auth_handler.rs:290-306, admin_handler.rs:245-281).
ReviewHasPhotos ==
    \A c \in Cards \ (decided \cup spoiled) :
        row[c].status \in Waiting => row[c].named /\ stored[c] = Sides

Abandoned(c) == \A r \in Requests : Busy(r) => reqs[r].card # c

\* A registration that failed leaves no photos behind, except at store_otp, whose
\* error drops none (the run cards_otp_error): those that no request is about are
\* named by a row, unless a call to the store failed or was cut off
\* (auth_handler.rs:290-341).
OrphansAreExplained ==
    \A c \in Cards \ spoiled :
        stored[c] # {} /\ Abandoned(c) /\ row[c].status # "left" =>
            Exists(c) /\ row[c].named

\* What auth_handler.rs:290-292 and docs/api.md:156-157 say: everything that can
\* fail happens before the row is written, so a failure leaves nothing behind.
FailuresLeaveNothing ==
    \A c \in Cards \ spoiled :
        stored[c] # {} /\ Abandoned(c) => Exists(c) /\ row[c].named

\* Once an account is approved, rejected, confirmed at a university address or
\* chosen for deletion, and nobody is busy dropping its photos, they are gone, also
\* when two admins decide at once.  A ban and a reactivation drop none, though the
\* comment on discard_id_card speaks of any decision: after them the photos go with
\* the next decision of the first kind (docs/api.md:131-132, 1137;
\* admin_handler.rs:281-305).
DecisionDropsPhotos ==
    \A c \in decided \ spoiled :
        (\A r \in Requests : ~Discarding(r, c)) => stored[c] = {}

-----------------------------------------------------------------------------
(* The inductive invariant of the proofs, folder by folder.                *)

About(r, c) == Busy(r) /\ reqs[r].card = c
Registering(r, c) == About(r, c) /\ reqs[r].op = "register"

\* Who may be at which step, and that photos are dropped for a reason.
InStep(c) ==
    /\ \A r \in Requests : About(r, c) =>
           /\ row[c].status # "fresh"
           /\ reqs[r].op = "register" =>
                  reqs[r].phase \notin {"write", "clear", "erase"}
           /\ reqs[r].op # "register" =>
                  /\ reqs[r].phase \in {"write", "drop front", "drop back", "clear", "erase"}
                  /\ row[c].status # "drawn"
                  /\ reqs[r].phase # "write" => c \in decided
    /\ c \in decided => row[c].status \notin {"fresh", "drawn"}

\* What a registration has stored by the time it is at a step.
StoredBy(phase) ==
    IF phase = "front" THEN {}
    ELSE IF phase \in {"back", "undo"} THEN {"front"}
    ELSE IF phase = "drop back" THEN {"back"} ELSE Sides

\* A folder belongs to the registration that drew it.
OwnedByRegistration(c) ==
    \A r \in Requests : Registering(r, c) =>
        /\ row[c].status = "drawn" /\ stored[c] = StoredBy(reqs[r].phase)
        /\ \A q \in Requests : Registering(q, c) => q = r

\* Photos are those of a row or of the registration.
Accounted(c) ==
    /\ row[c].status \in {"fresh", "deleted"} => stored[c] = {}
    /\ row[c].status = "drawn" /\ (\A r \in Requests : ~Registering(r, c)) => stored[c] = {}
    /\ Exists(c) /\ ~row[c].named => stored[c] = {}

\* They are whole until somebody has decided, and then they go side by side.
WholeOrGoing(c) ==
    /\ Exists(c) /\ c \notin decided => row[c].named /\ stored[c] = Sides
    /\ \A r \in Requests : About(r, c) =>
           /\ reqs[r].phase = "drop back" => "front" \notin stored[c]
           /\ reqs[r].phase \in {"clear", "erase"} => stored[c] = {}
    /\ c \in decided /\ stored[c] # {} => \E r \in Requests : Discarding(r, c)

Tracked(c) ==
    /\ InStep(c)
    /\ c \notin spoiled => OwnedByRegistration(c) /\ Accounted(c) /\ WholeOrGoing(c)

CardInv == TypeOK /\ \A c \in Cards : Tracked(c)

=============================================================================
