------------------------------- MODULE Events -------------------------------
(***************************************************************************)
(* Events with their teams, contests, and the announcements tied to them:  *)
(* event_handler.rs, contest_handler.rs, announcement_handler.rs.          *)
(*                                                                         *)
(* The two handlers that write members of a team hold a transaction; any   *)
(* other statement is on its own.  Postgres reads what is committed when a *)
(* statement starts, locks the rows it changes until the end of the        *)
(* transaction, and makes whoever deletes a row wait for a transaction     *)
(* that inserted a reference to it.  Texts and dates, merged like the link *)
(* of an announcement, are left out: an edit of them is its two statements. *)
(***************************************************************************)
EXTENDS Integers, FiniteSets

CONSTANTS
    EventIds, Contests, Teams, Posts,  \* ids, each used once
    Bodies,                            \* team forms: a coach and three members
    None,
    Requests                           \* slots for requests in flight

ASSUME IdAssumption ==
    /\ EventIds \cap Contests = {}
    /\ None \notin EventIds \cup Bodies \cup Teams \cup Posts

VARIABLES
    things,  \* the events and contests
    teams,   \* teams and team_members, as committed
    posts,   \* the announcements
    reqs     \* requests in flight

vars == <<things, teams, posts, reqs>>

Things == EventIds \cup Contests
Life == {"unused", "live", "deleted"}
Size == 3
Member == Bodies \X (1 .. Size)

\* The rows of a team; a member is known by the form it came with.
Team == [life : Life, event : EventIds \cup {None}, coach : Bodies \cup {None},
         members : SUBSET Member]
NoTeam(life) == [life |-> life, event |-> None, coach |-> None, members |-> {}]

\* The two references of an announcement, and whether it has a link and a label.
Post == [life : Life, ties : SUBSET Things, url : BOOLEAN, label : BOOLEAN]
NoPost(life) == [life |-> life, ties |-> {}, url |-> FALSE, label |-> FALSE]

Phase == {"idle", "edit", "team", "drop", "members", "look up", "write", "500"}
Request == [phase : Phase, team : Teams \cup {None}, body : Bodies \cup {None},
            dropped : SUBSET Member, rows : SUBSET Member,
            post : Posts \cup {None}, url : BOOLEAN, label : BOOLEAN,
            ties : SUBSET Things, todo : SUBSET Things, found : SUBSET Things]
Idle == [phase |-> "idle", team |-> None, body |-> None, dropped |-> {}, rows |-> {},
         post |-> None, url |-> FALSE, label |-> FALSE,
         ties |-> {}, todo |-> {}, found |-> {}]

TypeOK ==
    /\ things \in [Things -> Life]
    /\ teams \in [Teams -> Team]
    /\ posts \in [Posts -> Post]
    /\ reqs \in [Requests -> Request]

Init ==
    /\ things = [x \in Things |-> "unused"]
    /\ teams = [t \in Teams |-> NoTeam("unused")]
    /\ posts = [p \in Posts |-> NoPost("unused")]
    /\ reqs = [r \in Requests |-> Idle]

-----------------------------------------------------------------------------

Live == {x \in Things : things[x] = "live"}
At(r, phase) == reqs[r].phase = phase
Goto(r, phase) == reqs' = [reqs EXCEPT ![r].phase = phase]
Done(r) == reqs' = [reqs EXCEPT ![r] = Idle]

\* Faulty variant: the transaction starts with the DELETE and locks no row of teams.
LocksNothing(t) == {}

\* The transactions that changed the row of team t.
Locks(t) == {r \in Requests : reqs[r].team = t}

\* Those that inserted a team of event e.
References(e) ==
    {r \in Requests : At(r, "members") /\ reqs[r].team = None /\ e \in reqs[r].ties}

-----------------------------------------------------------------------------
(* Events and contests.                                                    *)

Create(x) ==
    /\ things[x] = "unused"
    /\ things' = [things EXCEPT ![x] = "live"]
    /\ UNCHANGED <<teams, posts, reqs>>

\* SELECT, and what was not sent is merged from it.
Edit(r, x) ==
    /\ At(r, "idle") /\ x \in Live
    /\ reqs' = [reqs EXCEPT ![r] = [Idle EXCEPT !.phase = "edit", !.ties = {x}, !.found = {x}]]
    /\ UNCHANGED <<things, teams, posts>>

\* UPDATE ... RETURNING of every column; a row that is gone by now is a 500.
WriteEdit(r) ==
    /\ At(r, "edit")
    /\ \/ reqs[r].ties \subseteq Live /\ Done(r)
       \/ ~(reqs[r].ties \subseteq Live) /\ Goto(r, "500")
    /\ UNCHANGED <<things, teams, posts>>

\* ON DELETE CASCADE for its teams, SET NULL for what is tied to it.
Delete(x) ==
    /\ x \in Live /\ References(x) = {}
    /\ \A t \in Teams : teams[t].event = x => Locks(t) = {}
    /\ things' = [things EXCEPT ![x] = "deleted"]
    /\ teams' = [t \in Teams |->
           IF teams[t].event = x THEN NoTeam("deleted") ELSE teams[t]]
    /\ posts' = [p \in Posts |-> [posts[p] EXCEPT !.ties = @ \ {x}]]
    /\ UNCHANGED reqs

-----------------------------------------------------------------------------
(* Teams.                                                                  *)

\* The event is there: SELECT, then BEGIN.
AddTeam(r, e, b) ==
    /\ At(r, "idle") /\ e \in Live
    /\ reqs' = [reqs EXCEPT ![r] = [Idle EXCEPT !.phase = "team", !.body = b,
                                                !.ties = {e}, !.found = {e}]]
    /\ UNCHANGED <<things, teams, posts>>

InsertTeam(r) ==
    /\ At(r, "team")
    /\ Goto(r, IF reqs[r].ties \subseteq Live THEN "members" ELSE "500")
    /\ UNCHANGED <<things, teams, posts>>

\* UPDATE teams ... WHERE team_id AND event_id.
UpdateTeam(r, t, e, b) ==
    /\ At(r, "idle")
    /\ Locks(t) = {}
    /\ teams[t].life = "live" /\ teams[t].event = e
    /\ reqs' = [reqs EXCEPT ![r] = [Idle EXCEPT !.phase = "drop", !.team = t, !.body = b]]
    /\ UNCHANGED <<things, teams, posts>>

DropMembers(r) ==
    /\ At(r, "drop")
    /\ reqs' = [reqs EXCEPT ![r].phase = "members",
                            ![r].dropped = teams[reqs[r].team].members]
    /\ UNCHANGED <<things, teams, posts>>

InsertMember(r) ==
    /\ At(r, "members")
    /\ \E i \in 1 .. Size :
           /\ reqs[r].rows = {reqs[r].body} \X (1 .. (i - 1))
           /\ reqs' = [reqs EXCEPT ![r].rows = @ \cup {<<reqs[r].body, i>>}]
    /\ UNCHANGED <<things, teams, posts>>

Commit(r) ==
    LET b == reqs[r].body
        row(team, event) == [life |-> "live", event |-> event, coach |-> b,
            members |-> (team.members \ reqs[r].dropped) \cup reqs[r].rows]
    IN
    /\ At(r, "members") /\ reqs[r].rows = {b} \X (1 .. Size)
    /\ \/ \E t \in Teams :
              /\ t = reqs[r].team
              /\ teams' = [teams EXCEPT ![t] = row(teams[t], teams[t].event)]
       \/ \E t \in Teams, e \in reqs[r].ties :
              /\ teams[t].life = "unused" /\ reqs[r].team = None
              /\ teams' = [teams EXCEPT ![t] = row(NoTeam("unused"), e)]
    /\ Done(r)
    /\ UNCHANGED <<things, posts>>

DeleteTeam(t, e) ==
    /\ teams[t].life = "live" /\ teams[t].event = e
    /\ Locks(t) = {}
    /\ teams' = [teams EXCEPT ![t] = NoTeam("deleted")]
    /\ UNCHANGED <<things, posts, reqs>>

-----------------------------------------------------------------------------
(* Announcements.                                                          *)

\* At most one event and one contest.
Ties(ties) ==
    \A x, y \in ties : x # y => {x, y} \cap EventIds # {} /\ {x, y} \cap Contests # {}

\* Faulty variant: only the event is looked up.
LooksUpEvents(sent) == sent \cap EventIds

\* check_relations: what was sent, not what was there.
LooksUp(sent) == sent

Writes(r, p, ties, sent, found, url, label) ==
    reqs' = [reqs EXCEPT ![r] =
        [Idle EXCEPT !.phase = "look up", !.post = p, !.ties = ties, !.todo = LooksUp(sent),
                     !.found = found, !.url = url, !.label = label]]

\* clean_link refuses a label without a link.
CreatePost(r, sent, url, label) ==
    /\ At(r, "idle") /\ Ties(sent) /\ (label => url)
    /\ Writes(r, None, sent, sent, {}, url, label)
    /\ UNCHANGED <<things, teams, posts>>

Field == {"omitted", "empty", "given"}
Merged(field, old) == field = "given" \/ (field = "omitted" /\ old)

\* Faulty variant: an empty link leaves the label.
KeepsLabel(url, label, old) == Merged(label, old.label)

\* An empty link takes the label with it.
NewLabel(url, label, old) == url # "empty" /\ Merged(label, old.label)

\* What was sent takes the place of what was there, column by column.
NewTies(sent, old) == sent \cup {x \in old : Ties(sent \cup {x})}

\* fetch_one and the merge; clean_link, where it is called, refuses as above.
UpdatePost(r, p, sent, url, label) ==
    LET old == posts[p]
        newUrl == Merged(url, old.url)
        newLabel == NewLabel(url, label, old)
    IN
    /\ At(r, "idle") /\ Ties(sent) /\ old.life = "live"
    /\ url = "omitted" /\ label # "omitted" => (newLabel => newUrl)
    /\ Writes(r, p, NewTies(sent, old.ties), sent, old.ties, newUrl, newLabel)
    /\ UNCHANGED <<things, teams, posts>>

\* One SELECT; what is missing is a 404.
LookUp(r) ==
    /\ At(r, "look up")
    /\ \/ \E x \in reqs[r].todo :
              /\ x \in EventIds \/ reqs[r].todo \cap EventIds = {}
              /\ IF x \in Live
                 THEN reqs' = [reqs EXCEPT ![r].todo = @ \ {x}, ![r].found = @ \cup {x}]
                 ELSE Done(r)
       \/ reqs[r].todo = {} /\ Goto(r, "write")
    /\ UNCHANGED <<things, teams, posts>>

\* INSERT, or UPDATE WHERE post_id; a key that is missing by now is a 500.
WritePost(r) ==
    LET q == reqs[r]
        row == [life |-> "live", ties |-> q.ties, url |-> q.url, label |-> q.label]
    IN
    /\ At(r, "write")
    /\ \/ /\ q.ties \subseteq Live
          /\ \E p \in Posts :
                 /\ \/ q.post = None /\ posts[p].life = "unused"
                    \/ q.post = p /\ posts[p].life = "live"
                 /\ posts' = [posts EXCEPT ![p] = row]
          /\ Done(r)
       \/ /\ \E p \in Posts : q.post = p /\ posts[p].life # "live"
          /\ Done(r) /\ UNCHANGED posts
       \/ /\ ~(q.ties \subseteq Live)
          /\ \A p \in Posts : q.post = p => posts[p].life = "live"
          /\ Goto(r, "500") /\ UNCHANGED posts
    /\ UNCHANGED <<things, teams>>

DeletePost(p) ==
    /\ posts[p].life = "live"
    /\ posts' = [posts EXCEPT ![p] = NoPost("deleted")]
    /\ UNCHANGED <<things, teams, reqs>>

-----------------------------------------------------------------------------

\* The answer, an invalid registration number, a failed statement, a client that goes
\* away: a transaction is rolled back.
End(r) ==
    /\ ~At(r, "idle")
    /\ Done(r)
    /\ UNCHANGED <<things, teams, posts>>

Next ==
    \/ \E x \in Things : Create(x) \/ Delete(x)
    \/ \E t \in Teams, e \in EventIds : DeleteTeam(t, e)
    \/ \E p \in Posts : DeletePost(p)
    \/ \E r \in Requests :
           \/ \E e \in EventIds, b \in Bodies :
                  AddTeam(r, e, b) \/ \E t \in Teams : UpdateTeam(r, t, e, b)
           \/ \E x \in Things : Edit(r, x)
           \/ WriteEdit(r)
           \/ InsertTeam(r) \/ DropMembers(r) \/ InsertMember(r) \/ Commit(r)
           \/ \E sent \in SUBSET Things :
                  \/ \E url, label \in BOOLEAN : CreatePost(r, sent, url, label)
                  \/ \E p \in Posts, url, label \in Field : UpdatePost(r, p, sent, url, label)
           \/ LookUp(r) \/ WritePost(r)
           \/ End(r)

Spec == Init /\ [][Next]_vars

-----------------------------------------------------------------------------
(* Properties.                                                             *)

\* What is committed of a team is a coach and three members that were sent together,
\* however additions, replacements and deletions interleave
\* (event_handler.rs:250-382, docs/api.md:1011, 1032).
TeamIsOneForm ==
    \A t \in Teams : teams[t].life = "live" =>
        teams[t].members = {teams[t].coach} \X (1 .. Size)

\* A missing event or contest is a 404: a key refuses a write, or an UPDATE finds no
\* row (a 500), only if everything the write refers to was there when the request
\* looked, and went since (announcement_handler.rs:72-95, event_handler.rs:191-217,
\* 264-273, contest_handler.rs:92-117).
KeyRefusalsAreRaces ==
    \A r \in Requests : At(r, "500") => reqs[r].ties \subseteq reqs[r].found

\* A label always has a link to go with, whichever of the two was sent, omitted
\* or cleared, and whatever another editor did meanwhile
\* (announcement_handler.rs:62-67, 238-255).
LabelHasLink == \A p \in Posts : posts[p].label => posts[p].url

-----------------------------------------------------------------------------
(* The inductive invariants of the proofs.                                 *)

\* A transaction on a team keeps it there and has seen the members it drops.
InTransaction(r) ==
    LET q == reqs[r] IN
    /\ q.phase \in {"team", "drop", "members"} => q.body \in Bodies
    /\ q.phase = "drop" => q.team # None
    /\ q.team # None =>
           /\ q.phase \in {"drop", "members"}
           /\ teams[q.team].life = "live"
           /\ q.phase = "members" => q.dropped = teams[q.team].members
    /\ q.phase = "team" \/ (q.phase = "members" /\ q.team = None) => q.ties \subseteq EventIds

\* No two transactions hold the row of one team.
OneHolder ==
    \A r, q \in Requests : reqs[r].team # None /\ reqs[r].team = reqs[q].team => r = q

TeamInv == TypeOK /\ TeamIsOneForm /\ (\A r \in Requests : InTransaction(r)) /\ OneHolder

\* What is still to be written was found, or is about to be looked up.
LookedUp(r) ==
    /\ At(r, "look up") => reqs[r].ties \subseteq reqs[r].found \cup reqs[r].todo
    /\ reqs[r].phase \in {"edit", "team", "write", "500"} => reqs[r].ties \subseteq reqs[r].found

KeyInv == \A r \in Requests : LookedUp(r)

LinkInv ==
    /\ LabelHasLink
    /\ \A r \in Requests : reqs[r].phase \in {"look up", "write"} =>
           (reqs[r].label => reqs[r].url)

=============================================================================
