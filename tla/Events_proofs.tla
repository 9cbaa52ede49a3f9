--------------------------- MODULE Events_proofs ---------------------------
(***************************************************************************)
(* Teams are whole, keys refuse a write only after a race, and labels have *)
(* a link, for all events, contests, teams, announcements and requests.    *)
(***************************************************************************)
EXTENDS Events, TLAPS

-----------------------------------------------------------------------------
(* Types and teams.                                                        *)

LEMMA IdleType == Idle \in Request /\ Idle.team = None /\ Idle.phase = "idle"
  BY DEF Idle, Request, Phase

\* What a request that has nothing to do with teams must be for the invariant.
LEMMA Apart ==
    ASSUME TeamInv, UNCHANGED teams, things' \in [Things -> Life], posts' \in [Posts -> Post],
           NEW r \in Requests, NEW new \in Request, reqs' = [reqs EXCEPT ![r] = new],
           new.team = None, new.phase \notin {"drop", "members"},
           new.phase = "team" => new.body \in Bodies /\ new.ties \subseteq EventIds
    PROVE  TeamInv'
  <1>1. TypeOK' BY DEF TeamInv, TypeOK
  <1>2. reqs'[r] = new /\ \A q \in Requests \ {r} : reqs'[q] = reqs[q]
    BY DEF TeamInv, TypeOK
  <1>3. TeamIsOneForm' BY DEF TeamInv, TeamIsOneForm
  <1>4. ASSUME NEW q \in Requests PROVE InTransaction(q)'
    <2>1. CASE q = r BY <1>2, <2>1 DEF InTransaction
    <2>2. CASE q # r
      <3>1. InTransaction(q) BY DEF TeamInv
      <3> QED BY <1>2, <2>2, <3>1 DEF InTransaction
    <2> QED BY <2>1, <2>2
  <1>5. OneHolder' BY <1>2 DEF TeamInv, OneHolder
  <1> QED BY <1>1, <1>3, <1>4, <1>5 DEF TeamInv

\* A request that ends, or whose INSERT or UPDATE is refused.
LEMMA Ends ==
    ASSUME TeamInv, UNCHANGED teams, things' \in [Things -> Life], posts' \in [Posts -> Post],
           NEW r \in Requests, Done(r)
    PROVE  TeamInv'
  <1>1. reqs' = [reqs EXCEPT ![r] = Idle] BY DEF Done
  <1> QED BY <1>1, IdleType, Apart

LEMMA DoneFacts ==
    ASSUME TypeOK, NEW r \in Requests, Done(r)
    PROVE  /\ reqs' \in [Requests -> Request] /\ reqs'[r] = Idle
           /\ \A q \in Requests \ {r} : reqs'[q] = reqs[q]
  BY IdleType DEF TypeOK, Done

\* The row of a team that no transaction holds goes.
LEMMA RowsGo ==
    ASSUME TeamInv, things' \in [Things -> Life], posts' \in [Posts -> Post], UNCHANGED reqs,
           NEW gone \in SUBSET Teams, \A t \in gone : Locks(t) = {},
           teams' = [t \in Teams |-> IF t \in gone THEN NoTeam("deleted") ELSE teams[t]]
    PROVE  TeamInv'
  <1>1. NoTeam("deleted") \in Team BY DEF NoTeam, Team, Life
  <1>2. TypeOK' BY <1>1 DEF TeamInv, TypeOK
  <1>3. TeamIsOneForm' BY DEF TeamInv, TeamIsOneForm, NoTeam
  <1>4. ASSUME NEW r \in Requests PROVE InTransaction(r)'
    <2>1. InTransaction(r) /\ reqs[r].team \in Teams \cup {None}
      BY DEF TeamInv, TypeOK, Request
    <2>2. reqs[r].team \notin gone BY DEF Locks
    <2>3. reqs[r].team # None => teams'[reqs[r].team] = teams[reqs[r].team]
      BY <2>1, <2>2
    <2> QED BY <2>1, <2>3 DEF InTransaction
  <1>5. OneHolder' BY DEF TeamInv, OneHolder
  <1> QED BY <1>2, <1>3, <1>4, <1>5 DEF TeamInv

LEMMA KeepsDelete ==
    ASSUME TeamInv, NEW x \in Things, Delete(x) PROVE TeamInv'
  <1> DEFINE gone == {t \in Teams : teams[t].event = x}
  <1>1. things' \in [Things -> Life] BY DEF Delete, TeamInv, TypeOK, Life
  <1>2. posts' \in [Posts -> Post] BY DEF Delete, TeamInv, TypeOK, Post
  <1>3. /\ \A t \in gone : Locks(t) = {}
        /\ teams' = [t \in Teams |-> IF t \in gone THEN NoTeam("deleted") ELSE teams[t]]
    BY DEF Delete
  <1> QED BY <1>1, <1>2, <1>3, RowsGo DEF Delete

LEMMA KeepsDeleteTeam ==
    ASSUME TeamInv, NEW t \in Teams, NEW e \in EventIds, DeleteTeam(t, e) PROVE TeamInv'
  <1>1. teams' = [s \in Teams |-> IF s \in {t} THEN NoTeam("deleted") ELSE teams[s]]
    BY DEF DeleteTeam, TeamInv, TypeOK
  <1> QED BY <1>1, RowsGo DEF DeleteTeam, TeamInv, TypeOK

LEMMA KeepsAddTeam ==
    ASSUME TeamInv, NEW r \in Requests, NEW e \in EventIds, NEW b \in Bodies, AddTeam(r, e, b)
    PROVE  TeamInv'
  <1> DEFINE new == [Idle EXCEPT !.phase = "team", !.body = b, !.ties = {e}, !.found = {e}]
  <1>1. /\ new \in Request /\ new.team = None /\ new.phase = "team" /\ new.body \in Bodies
        /\ new.ties \subseteq EventIds
    BY DEF Idle, Request, Phase, Things
  <1>2. reqs' = [reqs EXCEPT ![r] = new] BY DEF AddTeam
  <1> HIDE DEF new
  <1> QED BY <1>1, <1>2, Apart DEF AddTeam, TeamInv, TypeOK

LEMMA KeepsEdit ==
    ASSUME TeamInv, NEW r \in Requests, NEW x \in Things, Edit(r, x) PROVE TeamInv'
  <1> DEFINE new == [Idle EXCEPT !.phase = "edit", !.ties = {x}, !.found = {x}]
  <1>1. new \in Request /\ new.team = None /\ new.phase = "edit" BY DEF Idle, Request, Phase
  <1>2. reqs' = [reqs EXCEPT ![r] = new] BY DEF Edit
  <1> HIDE DEF new
  <1> QED BY <1>1, <1>2, Apart DEF Edit, TeamInv, TypeOK

\* A refused write, as the request ends up.
LEMMA RefusedWrite ==
    ASSUME TypeOK, NEW r \in Requests, Goto(r, "500")
    PROVE  \E new \in Request :
               /\ reqs' = [reqs EXCEPT ![r] = new]
               /\ new.phase = "500" /\ new.team = reqs[r].team
               /\ new.ties = reqs[r].ties /\ new.found = reqs[r].found
  <1> DEFINE new == [reqs[r] EXCEPT !.phase = "500"]
  <1>1. reqs[r] \in Request BY DEF TypeOK
  <1>2. /\ new \in Request /\ new.phase = "500" /\ new.team = reqs[r].team
        /\ new.ties = reqs[r].ties /\ new.found = reqs[r].found
    BY <1>1 DEF Request, Phase
  <1>3. reqs' = [reqs EXCEPT ![r] = new] BY DEF Goto
  <1> QED BY <1>2, <1>3

LEMMA KeepsWriteEdit ==
    ASSUME TeamInv, NEW r \in Requests, WriteEdit(r) PROVE TeamInv'
  <1>1. TypeOK /\ InTransaction(r) /\ reqs[r].phase = "edit"
    BY DEF TeamInv, WriteEdit, At
  <1>2. CASE Done(r) BY <1>1, <1>2, Ends DEF WriteEdit, TypeOK
  <1>3. CASE ~Done(r)
    <2>1. PICK new \in Request : reqs' = [reqs EXCEPT ![r] = new]
                                 /\ new.phase = "500" /\ new.team = reqs[r].team
      BY <1>1, <1>3, RefusedWrite DEF WriteEdit
    <2>2. reqs[r].team = None BY <1>1 DEF InTransaction
    <2> QED BY <1>1, <2>1, <2>2, Apart DEF WriteEdit, TypeOK
  <1> QED BY <1>2, <1>3

LEMMA KeepsInsertTeam ==
    ASSUME TeamInv, NEW r \in Requests, InsertTeam(r) PROVE TeamInv'
  <1> DEFINE phase == IF reqs[r].ties \subseteq Live THEN "members" ELSE "500"
             new == [reqs[r] EXCEPT !.phase = phase]
  <1>1. reqs[r] \in Request /\ InTransaction(r) /\ reqs[r].phase = "team"
    BY DEF TeamInv, TypeOK, InsertTeam, At
  <1>2. reqs[r].team = None /\ reqs[r].body \in Bodies /\ reqs[r].ties \subseteq EventIds
    BY <1>1 DEF InTransaction
  <1>3. phase \in {"members", "500"} OBVIOUS
  <1> HIDE DEF phase
  <1>4. /\ new \in Request /\ new.phase \in {"members", "500"} /\ new.team = None
        /\ new.body \in Bodies /\ new.ties \subseteq EventIds
    BY <1>1, <1>2, <1>3 DEF Request, Phase
  <1>5. reqs' = [reqs EXCEPT ![r] = new] BY DEF InsertTeam, Goto, phase
  <1> HIDE DEF new
  <1>6. reqs'[r] = new /\ \A q \in Requests \ {r} : reqs'[q] = reqs[q]
    BY <1>5 DEF TeamInv, TypeOK
  <1>7. TypeOK' BY <1>4, <1>5 DEF InsertTeam, TeamInv, TypeOK
  <1>8. TeamIsOneForm' BY DEF InsertTeam, TeamInv, TeamIsOneForm
  <1>9. ASSUME NEW q \in Requests PROVE InTransaction(q)'
    <2>1. CASE q = r BY <1>4, <1>6, <2>1 DEF InTransaction
    <2>2. CASE q # r
      <3>1. InTransaction(q) BY DEF TeamInv
      <3> QED BY <1>6, <2>2, <3>1 DEF InTransaction, InsertTeam
    <2> QED BY <2>1, <2>2
  <1>10. OneHolder' BY <1>4, <1>6 DEF TeamInv, OneHolder
  <1> QED BY <1>7, <1>8, <1>9, <1>10 DEF TeamInv

LEMMA KeepsUpdateTeam ==
    ASSUME TeamInv, NEW r \in Requests, NEW t \in Teams, NEW e \in EventIds, NEW b \in Bodies,
           UpdateTeam(r, t, e, b)
    PROVE  TeamInv'
  <1> DEFINE new == [Idle EXCEPT !.phase = "drop", !.team = t, !.body = b]
  <1>1. new \in Request /\ new.phase = "drop" /\ new.team = t /\ new.body \in Bodies
    BY DEF Idle, Request, Phase
  <1>2. reqs' = [reqs EXCEPT ![r] = new] BY DEF UpdateTeam
  <1> HIDE DEF new
  <1>3. reqs'[r] = new /\ \A q \in Requests \ {r} : reqs'[q] = reqs[q]
    BY <1>2 DEF TeamInv, TypeOK
  <1>4. TypeOK' BY <1>1, <1>2 DEF UpdateTeam, TeamInv, TypeOK
  <1>5. TeamIsOneForm' BY DEF UpdateTeam, TeamInv, TeamIsOneForm
  <1>6. t # None /\ teams'[t].life = "live" BY IdAssumption DEF UpdateTeam
  <1>7. ASSUME NEW q \in Requests PROVE InTransaction(q)'
    <2>1. CASE q = r BY <1>1, <1>3, <1>6, <2>1 DEF InTransaction
    <2>2. CASE q # r
      <3>1. InTransaction(q) BY DEF TeamInv
      <3> QED BY <1>3, <2>2, <3>1 DEF InTransaction, UpdateTeam
    <2> QED BY <2>1, <2>2
  <1>8. \A q \in Requests : reqs[q].team # t BY DEF UpdateTeam, Locks
  <1>9. OneHolder' BY <1>1, <1>3, <1>8 DEF TeamInv, OneHolder
  <1> QED BY <1>4, <1>5, <1>7, <1>9 DEF TeamInv

\* A statement within a transaction.
LEMMA InsideTransaction ==
    ASSUME TeamInv, UNCHANGED <<things, teams, posts>>,
           NEW r \in Requests, NEW new \in Request, reqs' = [reqs EXCEPT ![r] = new],
           reqs[r].phase \in {"drop", "members"}, new.phase = "members",
           new.team = reqs[r].team, new.body = reqs[r].body, new.ties = reqs[r].ties,
           new.team # None => new.dropped = teams[new.team].members
    PROVE  TeamInv'
  <1>1. reqs'[r] = new /\ \A q \in Requests \ {r} : reqs'[q] = reqs[q]
    BY DEF TeamInv, TypeOK
  <1>2. TypeOK' BY DEF TeamInv, TypeOK
  <1>3. TeamIsOneForm' BY DEF TeamInv, TeamIsOneForm
  <1>4. ASSUME NEW q \in Requests PROVE InTransaction(q)'
    <2>1. InTransaction(q) BY DEF TeamInv
    <2>2. CASE q = r BY <1>1, <2>1, <2>2 DEF InTransaction
    <2>3. CASE q # r BY <1>1, <2>1, <2>3 DEF InTransaction
    <2> QED BY <2>2, <2>3
  <1>5. OneHolder' BY <1>1 DEF TeamInv, OneHolder
  <1> QED BY <1>2, <1>3, <1>4, <1>5 DEF TeamInv

LEMMA KeepsDropMembers ==
    ASSUME TeamInv, NEW r \in Requests, DropMembers(r) PROVE TeamInv'
  <1> DEFINE new == [reqs[r] EXCEPT !.phase = "members",
                                    !.dropped = teams[reqs[r].team].members]
  <1>1. reqs[r] \in Request /\ InTransaction(r) /\ reqs[r].phase = "drop"
    BY DEF TeamInv, TypeOK, DropMembers, At
  <1>2. reqs[r].team \in Teams BY <1>1 DEF InTransaction, Request
  <1>3. teams[reqs[r].team].members \in SUBSET Member
    BY <1>2 DEF TeamInv, TypeOK, Team
  <1>4. /\ new \in Request /\ new.phase = "members" /\ new.team = reqs[r].team
        /\ new.body = reqs[r].body /\ new.ties = reqs[r].ties
        /\ new.dropped = teams[new.team].members
    BY <1>1, <1>3 DEF Request, Phase
  <1>5. reqs' = [reqs EXCEPT ![r] = new] BY DEF DropMembers
  <1> HIDE DEF new
  <1> QED BY <1>1, <1>4, <1>5, InsideTransaction DEF DropMembers

LEMMA KeepsInsertMember ==
    ASSUME TeamInv, NEW r \in Requests, InsertMember(r) PROVE TeamInv'
  <1>1. PICK i \in 1 .. Size :
            reqs' = [reqs EXCEPT ![r].rows = @ \cup {<<reqs[r].body, i>>}]
    BY DEF InsertMember
  <1> DEFINE new == [reqs[r] EXCEPT !.rows = @ \cup {<<reqs[r].body, i>>}]
  <1>2. reqs[r] \in Request /\ InTransaction(r) /\ reqs[r].phase = "members"
    BY DEF TeamInv, TypeOK, InsertMember, At
  <1>3. <<reqs[r].body, i>> \in Member BY <1>2 DEF InTransaction, Member
  <1>4. /\ new \in Request /\ new.phase = "members" /\ new.team = reqs[r].team
        /\ new.body = reqs[r].body /\ new.ties = reqs[r].ties
        /\ new.dropped = reqs[r].dropped
    BY <1>2, <1>3 DEF Request, Phase
  <1>5. reqs' = [reqs EXCEPT ![r] = new] BY <1>1
  <1> HIDE DEF new
  <1>6. new.team # None => new.dropped = teams[new.team].members
    BY <1>2, <1>4 DEF InTransaction
  <1> QED BY <1>2, <1>4, <1>5, <1>6, InsideTransaction DEF InsertMember

\* The members committed are those of the form: nobody changed what was dropped.
LEMMA KeepsCommit ==
    ASSUME TeamInv, NEW r \in Requests, Commit(r) PROVE TeamInv'
  <1> DEFINE b == reqs[r].body
  <1>1. /\ TypeOK /\ reqs[r] \in Request /\ InTransaction(r) /\ reqs[r].phase = "members"
        /\ reqs[r].rows = {b} \X (1 .. Size)
    BY DEF TeamInv, TypeOK, Commit, At
  <1>2. b \in Bodies BY <1>1 DEF InTransaction
  <1>3. /\ reqs' \in [Requests -> Request] /\ reqs'[r] = Idle
        /\ \A q \in Requests \ {r} : reqs'[q] = reqs[q]
    BY <1>1, DoneFacts DEF Commit
  <1>4. PICK t \in Teams, event \in EventIds \cup {None} :
            /\ teams' = [teams EXCEPT ![t] = [life |-> "live", event |-> event, coach |-> b,
                                              members |-> {b} \X (1 .. Size)]]
            /\ t = reqs[r].team \/ teams[t].life = "unused"
    <2>1. CASE reqs[r].team = None
      <3>1. PICK t \in Teams, e \in Things :
                /\ e \in reqs[r].ties /\ teams[t].life = "unused"
                /\ teams' = [teams EXCEPT ![t] =
                       [life |-> "live", event |-> e, coach |-> b,
                        members |-> ({} \ reqs[r].dropped) \cup reqs[r].rows]]
        BY <1>1, <2>1, IdAssumption DEF Commit, NoTeam, Request
      <3>2. e \in EventIds BY <1>1, <2>1, <3>1 DEF InTransaction
      <3>3. ({} \ reqs[r].dropped) \cup reqs[r].rows = {b} \X (1 .. Size) BY <1>1
      <3> QED BY <3>1, <3>2, <3>3
    <2>2. CASE reqs[r].team # None
      <3>1. PICK t \in Teams :
                /\ t = reqs[r].team
                /\ teams' = [teams EXCEPT ![t] =
                       [life |-> "live", event |-> teams[t].event, coach |-> b,
                        members |-> (teams[t].members \ reqs[r].dropped) \cup reqs[r].rows]]
        BY <2>2 DEF Commit
      <3>2. reqs[r].dropped = teams[t].members BY <1>1, <2>2, <3>1 DEF InTransaction
      <3>3. (teams[t].members \ reqs[r].dropped) \cup reqs[r].rows = {b} \X (1 .. Size)
        BY <1>1, <3>2
      <3>4. teams[t].event \in EventIds \cup {None} BY <1>1 DEF TypeOK, Team
      <3> QED BY <3>1, <3>3, <3>4
    <2> QED BY <2>1, <2>2
  <1> DEFINE new == [life |-> "live", event |-> event, coach |-> b,
                     members |-> {b} \X (1 .. Size)]
  <1>5. new \in Team /\ new.life = "live" /\ new.members = {new.coach} \X (1 .. Size)
    BY <1>2 DEF Team, Life, Member
  <1>6. teams' = [teams EXCEPT ![t] = new] BY <1>4
  <1> HIDE DEF new
  <1>7. teams'[t] = new /\ \A s \in Teams \ {t} : teams'[s] = teams[s]
    BY <1>1, <1>6 DEF TypeOK
  <1>8. TypeOK' BY <1>1, <1>3, <1>5, <1>6 DEF TypeOK, Commit
  <1>9. TeamIsOneForm' BY <1>5, <1>7 DEF TeamInv, TeamIsOneForm
  <1>10. ASSUME NEW q \in Requests PROVE InTransaction(q)'
    <2>1. CASE q = r BY <1>3, <2>1, IdleType DEF InTransaction
    <2>2. CASE q # r
      <3>1. InTransaction(q) /\ reqs'[q] = reqs[q] BY <1>3, <2>2 DEF TeamInv
      <3>2. reqs[q].team # None => reqs[q].team \in Teams /\ reqs[q].team # t
        BY <1>1, <1>4, <2>2, <3>1 DEF TeamInv, OneHolder, InTransaction, TypeOK, Request
      <3>3. reqs[q].team # None => teams'[reqs[q].team] = teams[reqs[q].team]
        BY <1>7, <3>2
      <3> QED BY <3>1, <3>3 DEF InTransaction
    <2> QED BY <2>1, <2>2
  <1>11. OneHolder' BY <1>3, IdleType DEF TeamInv, OneHolder
  <1> QED BY <1>8, <1>9, <1>10, <1>11 DEF TeamInv

-----------------------------------------------------------------------------
(* Announcements.                                                          *)

\* The request that writes an announcement, as it is when it starts to look things up.
LEMMA CreateStarts ==
    ASSUME NEW r \in Requests, NEW sent \in SUBSET Things, NEW url \in BOOLEAN,
           NEW label \in BOOLEAN, CreatePost(r, sent, url, label)
    PROVE  \E new \in Request :
               /\ reqs' = [reqs EXCEPT ![r] = new]
               /\ new.phase = "look up" /\ new.team = None
               /\ new.ties \subseteq new.found \cup new.todo
               /\ new.label => new.url
  <1>1. Writes(r, None, sent, sent, {}, url, label) /\ (label => url) BY DEF CreatePost
  <1> DEFINE new == [Idle EXCEPT !.phase = "look up", !.post = None, !.ties = sent,
                         !.todo = sent, !.found = {}, !.url = url, !.label = label]
  <1>2. /\ new \in Request /\ new.phase = "look up" /\ new.team = None
        /\ new.ties = sent /\ new.todo = sent
        /\ new.url = url /\ new.label = label
    BY DEF Idle, Request, Phase
  <1>3. reqs' = [reqs EXCEPT ![r] = new] BY <1>1 DEF Writes, LooksUp
  <1> HIDE DEF new
  <1> QED BY <1>1, <1>2, <1>3

LEMMA UpdateStarts ==
    ASSUME TypeOK, LabelHasLink, NEW r \in Requests, NEW p \in Posts, NEW sent \in SUBSET Things,
           NEW url \in Field, NEW label \in Field, UpdatePost(r, p, sent, url, label)
    PROVE  \E new \in Request :
               /\ reqs' = [reqs EXCEPT ![r] = new]
               /\ new.phase = "look up" /\ new.team = None
               /\ new.ties \subseteq new.found \cup new.todo
               /\ new.label => new.url
  <1> DEFINE old == posts[p]
             newUrl == Merged(url, old.url)
             newLabel == NewLabel(url, label, old)
             ties == NewTies(sent, old.ties)
  <1>1. /\ old \in Post /\ old.ties \in SUBSET Things
        /\ old.url \in BOOLEAN /\ old.label \in BOOLEAN
    BY DEF TypeOK, Post
  <1>2. /\ Writes(r, p, ties, sent, old.ties, newUrl, newLabel)
        /\ url = "omitted" /\ label # "omitted" => (newLabel => newUrl)
    BY DEF UpdatePost
  <1>3. newUrl \in BOOLEAN /\ newLabel \in BOOLEAN BY <1>1 DEF Merged, NewLabel
  <1>4. ties \in SUBSET Things /\ ties \subseteq old.ties \cup sent
    BY <1>1 DEF NewTies
  <1>5. newLabel => newUrl
    <2>1. CASE url = "given" BY <2>1 DEF Merged
    <2>2. CASE url = "empty" BY <2>2 DEF NewLabel
    <2>3. CASE url = "omitted" /\ label = "omitted"
      BY <2>3 DEF Merged, NewLabel, LabelHasLink
    <2>4. CASE url = "omitted" /\ label # "omitted" BY <1>2, <2>4
    <2> QED BY <2>1, <2>2, <2>3, <2>4 DEF Field
  <1> HIDE DEF newUrl, newLabel, ties
  <1> DEFINE new == [Idle EXCEPT !.phase = "look up", !.post = p, !.ties = ties,
                         !.todo = sent, !.found = old.ties, !.url = newUrl,
                         !.label = newLabel]
  <1>6. /\ new \in Request /\ new.phase = "look up" /\ new.team = None
        /\ new.ties = ties /\ new.todo = sent /\ new.found = old.ties
        /\ new.url = newUrl /\ new.label = newLabel
    BY <1>1, <1>3, <1>4 DEF Idle, Request, Phase
  <1>7. reqs' = [reqs EXCEPT ![r] = new] BY <1>2 DEF Writes, LooksUp
  <1> HIDE DEF new
  <1> QED BY <1>4, <1>5, <1>6, <1>7

\* One SELECT finds what it looks for, nothing is left to look for, or the request ends.
LEMMA LookUpGoesOn ==
    ASSUME TypeOK, NEW r \in Requests, LookUp(r), ~Done(r)
    PROVE  \E new \in Request :
               /\ reqs' = [reqs EXCEPT ![r] = new]
               /\ new.phase \in {"look up", "write"} /\ new.team = reqs[r].team
               /\ new.phase = "write" => reqs[r].todo = {}
               /\ new.ties = reqs[r].ties /\ new.found \cup new.todo = reqs[r].found \cup reqs[r].todo
               /\ new.url = reqs[r].url /\ new.label = reqs[r].label
               /\ new.phase = "write" => new.found = reqs[r].found
  <1>1. reqs[r] \in Request /\ reqs[r].phase = "look up" BY DEF TypeOK, LookUp, At
  <1>2. CASE reqs[r].todo = {} /\ Goto(r, "write")
    <2> DEFINE new == [reqs[r] EXCEPT !.phase = "write"]
    <2>1. /\ new \in Request /\ new.phase = "write" /\ new.team = reqs[r].team
          /\ new.ties = reqs[r].ties /\ new.found = reqs[r].found
          /\ new.todo = reqs[r].todo
          /\ new.url = reqs[r].url /\ new.label = reqs[r].label
      BY <1>1 DEF Request, Phase
    <2>2. reqs' = [reqs EXCEPT ![r] = new] BY <1>2 DEF Goto
    <2> HIDE DEF new
    <2> QED BY <1>2, <2>1, <2>2
  <1>3. CASE ~(reqs[r].todo = {} /\ Goto(r, "write"))
    <2>1. PICK x \in reqs[r].todo :
              reqs' = [reqs EXCEPT ![r].todo = @ \ {x}, ![r].found = @ \cup {x}]
      BY <1>3 DEF LookUp
    <2> DEFINE new == [reqs[r] EXCEPT !.todo = @ \ {x}, !.found = @ \cup {x}]
    <2>2. /\ new \in Request /\ new.phase = "look up" /\ new.team = reqs[r].team
          /\ new.ties = reqs[r].ties /\ new.found = reqs[r].found \cup {x}
          /\ new.todo = reqs[r].todo \ {x}
          /\ new.url = reqs[r].url /\ new.label = reqs[r].label
      BY <1>1 DEF Request, Phase
    <2>3. reqs' = [reqs EXCEPT ![r] = new] BY <2>1
    <2> HIDE DEF new
    <2>4. new.found \cup new.todo = reqs[r].found \cup reqs[r].todo BY <2>2
    <2> QED BY <2>2, <2>3, <2>4
  <1> QED BY <1>2, <1>3

LEMMA WritesRow ==
    ASSUME TypeOK, NEW r \in Requests, WritePost(r) PROVE posts' \in [Posts -> Post]
  <1> DEFINE row == [life |-> "live", ties |-> reqs[r].ties, url |-> reqs[r].url,
                     label |-> reqs[r].label]
  <1>1. row \in Post BY DEF TypeOK, Request, Post, Life
  <1>2. (\E p \in Posts : posts' = [posts EXCEPT ![p] = row]) \/ posts' = posts
    BY DEF WritePost
  <1> QED BY <1>1, <1>2 DEF TypeOK

\* Whether a request that writes an announcement starts, goes on, is refused or ends.
LEMMA KeepsPosts ==
    ASSUME TeamInv, LabelHasLink, NEW r \in Requests,
           \/ \E sent \in SUBSET Things :
                  \/ \E url, label \in BOOLEAN : CreatePost(r, sent, url, label)
                  \/ \E p \in Posts, url, label \in Field : UpdatePost(r, p, sent, url, label)
           \/ LookUp(r) \/ WritePost(r)
    PROVE  TeamInv'
  <1>1. TypeOK /\ InTransaction(r) /\ reqs[r] \in Request BY DEF TeamInv, TypeOK
  <1>2. ASSUME NEW sent \in SUBSET Things, NEW url \in BOOLEAN, NEW label \in BOOLEAN,
               CreatePost(r, sent, url, label)
        PROVE  TeamInv'
    <2>1. PICK new \in Request : reqs' = [reqs EXCEPT ![r] = new]
                                 /\ new.phase = "look up" /\ new.team = None
      BY <1>2, CreateStarts
    <2> QED BY <1>1, <1>2, <2>1, Apart DEF CreatePost, TypeOK
  <1>3. ASSUME NEW sent \in SUBSET Things, NEW p \in Posts, NEW url \in Field,
               NEW label \in Field, UpdatePost(r, p, sent, url, label)
        PROVE  TeamInv'
    <2>1. PICK new \in Request : reqs' = [reqs EXCEPT ![r] = new]
                                 /\ new.phase = "look up" /\ new.team = None
      BY <1>1, <1>3, UpdateStarts
    <2> QED BY <1>1, <1>3, <2>1, Apart DEF UpdatePost, TypeOK
  <1>4. reqs[r].phase \in {"look up", "write"} => reqs[r].team = None
    BY <1>1 DEF InTransaction
  <1>5. CASE LookUp(r)
    <2>1. CASE Done(r) BY <1>1, <1>5, <2>1, Ends DEF LookUp, TypeOK
    <2>2. CASE ~Done(r)
      <3>1. PICK new \in Request : reqs' = [reqs EXCEPT ![r] = new]
                                   /\ new.phase \in {"look up", "write"}
                                   /\ new.team = reqs[r].team
        BY <1>1, <1>5, <2>2, LookUpGoesOn
      <3> QED BY <1>1, <1>4, <1>5, <3>1, Apart DEF LookUp, At, TypeOK
    <2> QED BY <2>1, <2>2
  <1>6. CASE WritePost(r)
    <2>1. posts' \in [Posts -> Post] BY <1>1, <1>6, WritesRow
    <2>2. CASE Done(r) BY <1>1, <1>6, <2>1, <2>2, Ends DEF WritePost, TypeOK
    <2>3. CASE ~Done(r)
      <3>1. PICK new \in Request : reqs' = [reqs EXCEPT ![r] = new]
                                   /\ new.phase = "500" /\ new.team = reqs[r].team
        BY <1>1, <1>6, <2>3, RefusedWrite DEF WritePost
      <3> QED BY <1>1, <1>4, <1>6, <2>1, <3>1, Apart DEF WritePost, At, TypeOK
    <2> QED BY <2>2, <2>3
  <1> QED BY <1>2, <1>3, <1>5, <1>6

-----------------------------------------------------------------------------
(* Every step keeps the three invariants.                                  *)

\* What the steps of requests that are about teams leave for the other two.
LEMMA TeamSteps ==
    ASSUME TypeOK, KeyInv, NEW r \in Requests,
           \/ \E e \in EventIds, b \in Bodies :
                  AddTeam(r, e, b) \/ \E t \in Teams : UpdateTeam(r, t, e, b)
           \/ \E x \in Things : Edit(r, x)
           \/ WriteEdit(r)
           \/ InsertTeam(r) \/ DropMembers(r) \/ InsertMember(r) \/ Commit(r)
    PROVE  /\ posts' = posts
           /\ \A q \in Requests \ {r} : reqs'[q] = reqs[q]
           /\ reqs'[r].phase \notin {"look up", "write"}
           /\ reqs'[r].phase \in {"edit", "team", "500"} => reqs'[r].ties \subseteq reqs'[r].found
  <1>1. reqs[r] \in Request BY DEF TypeOK
  <1>2. ASSUME NEW e \in EventIds, NEW b \in Bodies, AddTeam(r, e, b)
        PROVE  /\ posts' = posts /\ \A q \in Requests \ {r} : reqs'[q] = reqs[q]
               /\ reqs'[r].phase = "team" /\ reqs'[r].ties = reqs'[r].found
    BY <1>2 DEF AddTeam, Idle, TypeOK
  <1>3. ASSUME NEW e \in EventIds, NEW b \in Bodies, NEW t \in Teams, UpdateTeam(r, t, e, b)
        PROVE  /\ posts' = posts /\ \A q \in Requests \ {r} : reqs'[q] = reqs[q]
               /\ reqs'[r].phase = "drop"
    BY <1>3 DEF UpdateTeam, Idle, TypeOK
  <1>4. CASE InsertTeam(r)
    <2>1. reqs[r].phase = "team" /\ reqs[r].ties \subseteq reqs[r].found
      BY <1>4 DEF InsertTeam, At, KeyInv, LookedUp
    <2>2. /\ reqs'[r].phase \in {"members", "500"}
          /\ reqs'[r].ties = reqs[r].ties /\ reqs'[r].found = reqs[r].found
          /\ \A q \in Requests \ {r} : reqs'[q] = reqs[q]
      BY <1>1, <1>4 DEF InsertTeam, Goto, TypeOK, Request
    <2> QED BY <1>4, <2>1, <2>2 DEF InsertTeam
  <1>5. CASE DropMembers(r)
    <2>1. reqs'[r].phase = "members" /\ \A q \in Requests \ {r} : reqs'[q] = reqs[q]
      BY <1>1, <1>5 DEF DropMembers, TypeOK, Request
    <2> QED BY <1>5, <2>1 DEF DropMembers
  <1>6. CASE InsertMember(r)
    <2>1. PICK i \in 1 .. Size :
              reqs' = [reqs EXCEPT ![r].rows = @ \cup {<<reqs[r].body, i>>}]
      BY <1>6 DEF InsertMember
    <2>2. /\ reqs'[r].phase = reqs[r].phase
          /\ \A q \in Requests \ {r} : reqs'[q] = reqs[q]
      BY <1>1, <2>1 DEF TypeOK, Request
    <2> QED BY <1>6, <2>2 DEF InsertMember, At
  <1>7. CASE Commit(r) BY <1>7, DoneFacts, IdleType DEF Commit
  <1>8. ASSUME NEW x \in Things, Edit(r, x)
        PROVE  /\ posts' = posts /\ \A q \in Requests \ {r} : reqs'[q] = reqs[q]
               /\ reqs'[r].phase = "edit" /\ reqs'[r].ties = reqs'[r].found
    BY <1>8 DEF Edit, Idle, TypeOK
  <1>9. CASE WriteEdit(r)
    <2>1. reqs[r].ties \subseteq reqs[r].found
      BY <1>9 DEF WriteEdit, At, KeyInv, LookedUp
    <2>2. CASE Done(r) BY <1>9, <2>2, DoneFacts, IdleType DEF WriteEdit
    <2>3. CASE ~Done(r)
      <3>1. PICK new \in Request :
                /\ reqs' = [reqs EXCEPT ![r] = new] /\ new.phase = "500"
                /\ new.ties = reqs[r].ties /\ new.found = reqs[r].found
        BY <1>9, <2>3, RefusedWrite DEF WriteEdit
      <3>2. reqs'[r] = new /\ \A q \in Requests \ {r} : reqs'[q] = reqs[q]
        BY <3>1 DEF TypeOK
      <3> QED BY <1>9, <2>1, <3>1, <3>2 DEF WriteEdit
    <2> QED BY <2>2, <2>3
  <1> QED BY <1>2, <1>3, <1>4, <1>5, <1>6, <1>7, <1>8, <1>9

\* A step that leaves the requests alone.
LEMMA OtherSteps ==
    ASSUME TypeOK, LinkInv,
           \/ \E x \in Things : Create(x) \/ Delete(x)
           \/ \E t \in Teams, e \in EventIds : DeleteTeam(t, e)
           \/ \E p \in Posts : DeletePost(p)
    PROVE  reqs' = reqs /\ LabelHasLink'
  <1>1. CASE \E x \in Things : Create(x)
    BY <1>1 DEF Create, LinkInv, LabelHasLink
  <1>2. CASE \E x \in Things : Delete(x)
    <2>1. PICK x \in Things :
              posts' = [p \in Posts |-> [posts[p] EXCEPT !.ties = @ \ {x}]] /\ reqs' = reqs
      BY <1>2 DEF Delete
    <2>2. ASSUME NEW p \in Posts PROVE posts'[p].label => posts'[p].url
      <3>1. posts[p] \in Post /\ (posts[p].label => posts[p].url)
        BY DEF TypeOK, LinkInv, LabelHasLink
      <3> DEFINE row == [posts[p] EXCEPT !.ties = @ \ {x}]
      <3>2. row.label = posts[p].label /\ row.url = posts[p].url BY <3>1 DEF Post
      <3>3. posts'[p] = row BY <2>1
      <3> HIDE DEF row
      <3> QED BY <3>1, <3>2, <3>3
    <2> QED BY <2>1, <2>2 DEF LabelHasLink
  <1>3. CASE \E t \in Teams, e \in EventIds : DeleteTeam(t, e)
    BY <1>3 DEF DeleteTeam, LinkInv, LabelHasLink
  <1>4. CASE \E p \in Posts : DeletePost(p)
    <2>1. PICK p \in Posts : posts' = [posts EXCEPT ![p] = NoPost("deleted")] /\ reqs' = reqs
      BY <1>4 DEF DeletePost
    <2>2. ASSUME NEW q \in Posts PROVE posts'[q].label => posts'[q].url
      <3>1. posts[q].label => posts[q].url BY DEF LinkInv, LabelHasLink
      <3>2. ~NoPost("deleted").label BY DEF NoPost
      <3>3. posts'[q] = IF q = p THEN NoPost("deleted") ELSE posts[q] BY <2>1 DEF TypeOK
      <3> QED BY <3>1, <3>2, <3>3
    <2> QED BY <2>1, <2>2 DEF LabelHasLink
  <1> QED BY <1>1, <1>2, <1>3, <1>4

LEMMA NextTeams ==
    ASSUME TeamInv, LinkInv, [Next]_vars PROVE TeamInv'
  <1>1. TypeOK BY DEF TeamInv
  <1>2. ASSUME NEW x \in Things, Create(x) PROVE TeamInv'
    <2>1. things' \in [Things -> Life] BY <1>1, <1>2 DEF Create, TypeOK, Life
    <2>2. {} \in SUBSET Teams /\ \A t \in {} : Locks(t) = {} OBVIOUS
    <2>3. teams' = [t \in Teams |-> IF t \in {} THEN NoTeam("deleted") ELSE teams[t]]
      BY <1>1, <1>2 DEF Create, TypeOK
    <2> QED BY <1>1, <1>2, <2>1, <2>2, <2>3, RowsGo DEF Create, TypeOK
  <1>3. ASSUME NEW p \in Posts, DeletePost(p) PROVE TeamInv'
    <2>1. posts' \in [Posts -> Post] BY <1>1, <1>3 DEF DeletePost, TypeOK, NoPost, Post, Life
    <2>2. {} \in SUBSET Teams /\ \A t \in {} : Locks(t) = {} OBVIOUS
    <2>3. teams' = [t \in Teams |-> IF t \in {} THEN NoTeam("deleted") ELSE teams[t]]
      BY <1>1, <1>3 DEF DeletePost, TypeOK
    <2> QED BY <1>1, <1>3, <2>1, <2>2, <2>3, RowsGo DEF DeletePost, TypeOK
  <1>4. ASSUME NEW r \in Requests, End(r) PROVE TeamInv'
    BY <1>1, <1>4, Ends DEF End, TypeOK
  <1>5. CASE UNCHANGED vars
    BY <1>5 DEF vars, TeamInv, TypeOK, TeamIsOneForm, InTransaction, OneHolder
  <1>6. CASE Next
    BY <1>2, <1>3, <1>4, <1>6, KeepsDelete, KeepsDeleteTeam, KeepsEdit, KeepsWriteEdit, KeepsAddTeam,
       KeepsUpdateTeam, KeepsInsertTeam, KeepsDropMembers, KeepsInsertMember, KeepsCommit, KeepsPosts
    DEF Next, LinkInv
  <1> QED BY <1>5, <1>6

\* What the steps of requests that are about announcements leave.
LEMMA PostSteps ==
    ASSUME TypeOK, KeyInv, LinkInv, NEW r \in Requests,
           \/ \E sent \in SUBSET Things :
                  \/ \E url, label \in BOOLEAN : CreatePost(r, sent, url, label)
                  \/ \E p \in Posts, url, label \in Field : UpdatePost(r, p, sent, url, label)
           \/ LookUp(r) \/ WritePost(r) \/ End(r)
    PROVE  /\ LabelHasLink'
           /\ \A q \in Requests \ {r} : reqs'[q] = reqs[q]
           /\ LookedUp(r)'
           /\ reqs'[r].phase \in {"look up", "write"} => (reqs'[r].label => reqs'[r].url)
  <1>1. reqs[r] \in Request BY DEF TypeOK
  <1>2. ASSUME NEW sent \in SUBSET Things, NEW url \in BOOLEAN, NEW label \in BOOLEAN,
               CreatePost(r, sent, url, label)
        PROVE  /\ posts' = posts
               /\ \E new \in Request :
                      /\ reqs' = [reqs EXCEPT ![r] = new]
                      /\ new.phase = "look up" /\ new.team = None
                      /\ new.ties \subseteq new.found \cup new.todo
                      /\ new.label => new.url
    BY <1>2, CreateStarts DEF CreatePost
  <1>3. ASSUME NEW sent \in SUBSET Things, NEW p \in Posts, NEW url \in Field,
               NEW label \in Field, UpdatePost(r, p, sent, url, label)
        PROVE  /\ posts' = posts
               /\ \E new \in Request :
                      /\ reqs' = [reqs EXCEPT ![r] = new]
                      /\ new.phase = "look up" /\ new.team = None
                      /\ new.ties \subseteq new.found \cup new.todo
                      /\ new.label => new.url
    BY <1>3, UpdateStarts DEF UpdatePost, LinkInv
  <1>4. CASE /\ posts' = posts
             /\ \E new \in Request :
                    /\ reqs' = [reqs EXCEPT ![r] = new]
                    /\ new.phase = "look up" /\ new.team = None
                    /\ new.ties \subseteq new.found \cup new.todo
                    /\ new.label => new.url
    <2>1. PICK new \in Request :
              /\ reqs' = [reqs EXCEPT ![r] = new] /\ new.phase = "look up"
              /\ new.ties \subseteq new.found \cup new.todo
              /\ new.label => new.url
      BY <1>4
    <2>2. reqs'[r] = new /\ \A q \in Requests \ {r} : reqs'[q] = reqs[q]
      BY <2>1 DEF TypeOK
    <2>3. LookedUp(r)' BY <2>1, <2>2 DEF LookedUp, At
    <2> QED BY <1>4, <2>1, <2>2, <2>3 DEF LinkInv, LabelHasLink
  <1>5. ASSUME Done(r), posts' = posts \/ LabelHasLink' PROVE
              /\ LabelHasLink'
              /\ \A q \in Requests \ {r} : reqs'[q] = reqs[q]
              /\ LookedUp(r)'
              /\ reqs'[r].phase \in {"look up", "write"} => (reqs'[r].label => reqs'[r].url)
    BY <1>5, DoneFacts, IdleType DEF LookedUp, At, LinkInv, LabelHasLink
  <1>6. CASE LookUp(r) /\ ~Done(r)
    <2>1. PICK new \in Request :
              /\ reqs' = [reqs EXCEPT ![r] = new]
              /\ new.phase \in {"look up", "write"}
              /\ new.phase = "write" => reqs[r].todo = {}
              /\ new.ties = reqs[r].ties
              /\ new.found \cup new.todo = reqs[r].found \cup reqs[r].todo
              /\ new.url = reqs[r].url /\ new.label = reqs[r].label
              /\ new.phase = "write" => new.found = reqs[r].found
      BY <1>6, LookUpGoesOn
    <2>2. reqs'[r] = new /\ \A q \in Requests \ {r} : reqs'[q] = reqs[q]
      BY <2>1 DEF TypeOK
    <2>3. /\ reqs[r].ties \subseteq reqs[r].found \cup reqs[r].todo
          /\ reqs[r].label => reqs[r].url
      BY <1>6 DEF LookUp, At, KeyInv, LookedUp, LinkInv
    <2>4. LookedUp(r)' BY <2>1, <2>2, <2>3 DEF LookedUp, At
    <2>5. LabelHasLink' BY <1>6 DEF LookUp, LinkInv, LabelHasLink
    <2> QED BY <2>1, <2>2, <2>3, <2>4, <2>5
  <1>7. CASE WritePost(r)
    <2> DEFINE row == [life |-> "live", ties |-> reqs[r].ties, url |-> reqs[r].url,
                       label |-> reqs[r].label]
    <2>1. /\ reqs[r].label => reqs[r].url
          /\ reqs[r].ties \subseteq reqs[r].found
      BY <1>7 DEF WritePost, At, KeyInv, LookedUp, LinkInv
    <2>2. (\E p \in Posts : posts' = [posts EXCEPT ![p] = row]) \/ posts' = posts
      BY <1>7 DEF WritePost
    <2>3. LabelHasLink'
      <3>1. row.label = reqs[r].label /\ row.url = reqs[r].url OBVIOUS
      <3> HIDE DEF row
      <3>2. ASSUME NEW q \in Posts PROVE posts'[q].label => posts'[q].url
        <4>1. posts[q].label => posts[q].url BY DEF LinkInv, LabelHasLink
        <4>2. posts'[q] = row \/ posts'[q] = posts[q] BY <2>2 DEF TypeOK
        <4> QED BY <2>1, <3>1, <4>1, <4>2
      <3> QED BY <3>2 DEF LabelHasLink
    <2>4. CASE Done(r) BY <1>5, <2>3, <2>4
    <2>5. CASE ~Done(r)
      <3>1. PICK new \in Request :
                /\ reqs' = [reqs EXCEPT ![r] = new] /\ new.phase = "500"
                /\ new.ties = reqs[r].ties /\ new.found = reqs[r].found
        BY <1>7, <2>5, RefusedWrite DEF WritePost
      <3>2. reqs'[r] = new /\ \A q \in Requests \ {r} : reqs'[q] = reqs[q]
        BY <3>1 DEF TypeOK
      <3> QED BY <2>1, <2>3, <3>1, <3>2 DEF LookedUp, At
    <2> QED BY <2>4, <2>5
  <1>8. CASE End(r) BY <1>5, <1>8 DEF End
  <1>9. CASE LookUp(r) /\ Done(r) BY <1>5, <1>9 DEF LookUp
  <1> QED BY <1>2, <1>3, <1>4, <1>6, <1>7, <1>8, <1>9

LEMMA NextKeys ==
    ASSUME TypeOK, KeyInv, LinkInv, [Next]_vars PROVE KeyInv' /\ LinkInv'
  <1>1. CASE UNCHANGED vars
    BY <1>1 DEF vars, KeyInv, LookedUp, At, LinkInv, LabelHasLink
  <1>2. CASE \/ \E x \in Things : Create(x) \/ Delete(x)
             \/ \E t \in Teams, e \in EventIds : DeleteTeam(t, e)
             \/ \E p \in Posts : DeletePost(p)
    BY <1>2, OtherSteps DEF KeyInv, LookedUp, At, LinkInv
  <1>3. ASSUME NEW r \in Requests,
               /\ LabelHasLink'
               /\ \A q \in Requests \ {r} : reqs'[q] = reqs[q]
               /\ LookedUp(r)'
               /\ reqs'[r].phase \in {"look up", "write"} => (reqs'[r].label => reqs'[r].url)
        PROVE  KeyInv' /\ LinkInv'
    BY <1>3 DEF KeyInv, LookedUp, At, LinkInv
  <1>4. ASSUME NEW r \in Requests,
               \/ \E e \in EventIds, b \in Bodies :
                      AddTeam(r, e, b) \/ \E t \in Teams : UpdateTeam(r, t, e, b)
               \/ \E x \in Things : Edit(r, x)
               \/ WriteEdit(r)
               \/ InsertTeam(r) \/ DropMembers(r) \/ InsertMember(r) \/ Commit(r)
        PROVE  KeyInv' /\ LinkInv'
    <2>1. /\ posts' = posts
          /\ \A q \in Requests \ {r} : reqs'[q] = reqs[q]
          /\ reqs'[r].phase \notin {"look up", "write"}
          /\ reqs'[r].phase \in {"edit", "team", "500"} => reqs'[r].ties \subseteq reqs'[r].found
      BY <1>4, TeamSteps
    <2>2. LookedUp(r)' BY <2>1 DEF LookedUp, At
    <2>3. LabelHasLink' BY <2>1 DEF LinkInv, LabelHasLink
    <2> QED BY <1>3, <2>1, <2>2, <2>3
  <1>5. ASSUME NEW r \in Requests,
               \/ \E sent \in SUBSET Things :
                      \/ \E url, label \in BOOLEAN : CreatePost(r, sent, url, label)
                      \/ \E p \in Posts, url, label \in Field :
                             UpdatePost(r, p, sent, url, label)
               \/ LookUp(r) \/ WritePost(r) \/ End(r)
        PROVE  KeyInv' /\ LinkInv'
    BY <1>3, <1>5, PostSteps
  <1> QED BY <1>1, <1>2, <1>4, <1>5 DEF Next

LEMMA InitBoard == Init => TeamInv /\ KeyInv /\ LinkInv
  <1> SUFFICES ASSUME Init PROVE TeamInv /\ KeyInv /\ LinkInv
    OBVIOUS
  <1>1. TypeOK BY IdleType DEF Init, TypeOK, Life, NoTeam, Team, NoPost, Post
  <1>2. \A r \in Requests : reqs[r] = Idle BY DEF Init
  <1>3. TeamInv
    BY <1>1, <1>2, IdleType DEF TeamInv, TeamIsOneForm, InTransaction, OneHolder, Init, NoTeam
  <1>4. KeyInv BY <1>2, IdleType DEF KeyInv, LookedUp, At
  <1>5. LinkInv BY <1>2, IdleType DEF LinkInv, LabelHasLink, Init, NoPost
  <1> QED BY <1>3, <1>4, <1>5

\* The three invariants hold together: which transaction holds which team, what a
\* request has looked up, and what it is going to write.
THEOREM Invariant == Spec => [](TeamInv /\ KeyInv /\ LinkInv)
  <1>1. Init => TeamInv /\ KeyInv /\ LinkInv BY InitBoard
  <1>2. TeamInv /\ KeyInv /\ LinkInv /\ [Next]_vars => (TeamInv /\ KeyInv /\ LinkInv)'
    <2> SUFFICES ASSUME TeamInv, KeyInv, LinkInv, [Next]_vars
                 PROVE  (TeamInv /\ KeyInv /\ LinkInv)'
      OBVIOUS
    <2>1. TypeOK BY DEF TeamInv
    <2> QED BY <2>1, NextTeams, NextKeys
  <1> QED BY <1>1, <1>2, PTL DEF Spec

\* Every variable of Events keeps its type, whatever requests interleave
\* (event_handler.rs, contest_handler.rs, announcement_handler.rs).
THEOREM TypeCorrect == Spec => []TypeOK
  <1>1. TeamInv => TypeOK BY DEF TeamInv
  <1> QED BY <1>1, Invariant, PTL

\* Every team that can be read has the three members and the coach of one form, for
\* any number of teams and requests (event_handler.rs:250-382).
THEOREM TeamsAreWhole == Spec => []TeamIsOneForm
  <1>1. TeamInv => TeamIsOneForm BY DEF TeamInv
  <1> QED BY <1>1, Invariant, PTL

\* A key refuses a write only after a race: all it refers to had been looked up and
\* found (announcement_handler.rs:72-95, event_handler.rs:264-273).
THEOREM RefusalsAreRaces == Spec => []KeyRefusalsAreRaces
  <1>1. KeyInv => KeyRefusalsAreRaces BY DEF KeyInv, LookedUp, KeyRefusalsAreRaces, At
  <1> QED BY <1>1, Invariant, PTL

\* No announcement has a label without a link (announcement_handler.rs:62-67, 238-255).
THEOREM LabelsHaveLinks == Spec => []LabelHasLink
  <1>1. LinkInv => LabelHasLink BY DEF LinkInv
  <1> QED BY <1>1, Invariant, PTL

=============================================================================
