------------------------------- MODULE Roster -------------------------------
(***************************************************************************)
(* The authoritative roster: Workdays, their numbered revisions, the one   *)
(* shared private draft, publication, employee decline, Open Position      *)
(* applications, status changes, rescheduling and draft deletion           *)
(* (app/rostering, app/open_positions and the routes that call them).      *)
(*                                                                         *)
(* A transaction that holds the Workday row lock from its first read to    *)
(* its commit is one action.  Two routes read the row before they lock it  *)
(* (employee decline) or never lock it (status change): each is a read     *)
(* action that leaves a request behind, and a commit action that uses what *)
(* was read.  A Manager's page is such a read too, kept for as long as the *)
(* page is open.                                                           *)
(*                                                                         *)
(* The generated Travel Day of a race day is left out.                     *)
(***************************************************************************)
EXTENDS Integers

CONSTANTS
  Workdays,        \* identities a Workday row may have
  Slots,           \* slot keys
  People,          \* people who can be rostered
  Managers,        \* open Manager browser pages
  Requests,        \* requests in flight that read the row without its lock
  Facts,           \* contents of the day-level fields of a revision
  NoOne, NoDay,    \* null person, null Workday
  Vacancies,       \* statuses a form gives to a slot without a person
  Policies,        \* decline policies in use
  Overlaps,        \* kinds of request that other transactions may overlap
  MaxRevision,     \* bound: revisions of one Workday
  MaxVersion       \* bound: lock_version

AssignmentStatus == {"ASSIGNED", "OPEN", "TBC", "MANAGER_ACTION_REQUIRED"}
WorkdayStatus == {"SCHEDULED", "CANCELLED", "ABANDONED"}
DeclinePolicy == {"OPEN_IMMEDIATELY", "MANAGER_REVIEW"}
ApplicationStatus ==
  {"NONE", "APPLIED", "SELECTED", "ACCEPTED", "NOT_SELECTED", "CLOSED"}

ASSUME RosterAssumption ==
  /\ NoOne \notin People
  /\ NoDay \notin Workdays
  /\ Vacancies \subseteq AssignmentStatus
  /\ Policies \subseteq DeclinePolicy
  /\ Overlaps \subseteq {"DECLINE", "STATUS", "PROGRAMME"}
  /\ Facts # {}
  /\ MaxRevision \in Nat \ {0}
  /\ MaxVersion \in Nat \ {0, 1}

VARIABLES
  row,     \* the workdays table
  rev,     \* the workday_revisions table with each revision's assignments
  issued,  \* slot keys ever given to an assignment of the Workday
  app,     \* the open_position_applications table
  page,    \* what each Manager's page shows
  req      \* requests between their unlocked read and their commit

vars == <<row, rev, issued, app, page, req>>

-----------------------------------------------------------------------------
(* Rows.  A revision is known by its number: (workday_id, revision_number) *)
(* is unique in the schema.  Number 0 is the null pointer.                 *)

NoRev == 0
Revs == 1 .. MaxRevision
Pointer == 0 .. MaxRevision

Row == [life : {"ABSENT", "LIVE", "DELETED"}, status : WorkdayStatus,
        version : Nat, published : Pointer, draft : Pointer,
        replaces : Workdays \cup {NoDay}]

NoRow(life) == [life |-> life, status |-> "SCHEDULED", version |-> 0,
                published |-> NoRev, draft |-> NoRev, replaces |-> NoDay]

Cell == [status : AssignmentStatus \cup {"ABSENT"}, person : People \cup {NoOne}]
Absent == [status |-> "ABSENT", person |-> NoOne]
Vacant(s) == [status |-> s, person |-> NoOne]
Assigned(p) == [status |-> "ASSIGNED", person |-> p]

\* What the forms of a single slot can store: a person makes it ASSIGNED, and
\* without one any status is accepted, ASSIGNED too.
CellInput == {Vacant(s) : s \in Vacancies} \cup {Assigned(p) : p \in People}

Crew == [Slots -> Cell]
EmptyCrew == [s \in Slots |-> Absent]
Present(crew) == {s \in Slots : crew[s] # Absent}

Revision == [state : {"NONE", "DRAFT", "PUBLISHED"}, basedOn : Pointer,
             crew : Crew, facts : Facts]
NoRevision == [state |-> "NONE", basedOn |-> NoRev, crew |-> EmptyCrew,
               facts |-> CHOOSE f \in Facts : TRUE]

Application == [status : ApplicationStatus, draft : Pointer]
NoApplication == [status |-> "NONE", draft |-> NoRev]
Pending == {"APPLIED", "SELECTED"}

Page == [stage : {"IDLE", "LOADING", "SHOWN"}, day : Workdays \cup {NoDay},
         draft : Pointer, version : Nat, crew : Crew, facts : Facts]
NoPage == [stage |-> "IDLE", day |-> NoDay, draft |-> NoRev, version |-> 0,
           crew |-> EmptyCrew, facts |-> NoRevision.facts]

Request == [kind : {"NONE", "DECLINE", "STATUS"}, day : Workdays \cup {NoDay},
            row : Row, person : People \cup {NoOne}, status : WorkdayStatus]
NoRequest == [kind |-> "NONE", day |-> NoDay, row |-> NoRow("ABSENT"),
              person |-> NoOne, status |-> "SCHEDULED"]

TypeOK ==
  /\ row \in [Workdays -> Row]
  /\ rev \in [Workdays -> [Revs -> Revision]]
  /\ issued \in [Workdays -> SUBSET Slots]
  /\ app \in [Workdays -> [Revs -> [Slots -> [People -> Application]]]]
  /\ page \in [Managers -> Page]
  /\ req \in [Requests -> Request]

Init ==
  /\ row = [w \in Workdays |-> NoRow("ABSENT")]
  /\ rev = [w \in Workdays |-> [n \in Revs |-> NoRevision]]
  /\ issued = [w \in Workdays |-> {}]
  /\ app = [w \in Workdays |-> [n \in Revs |-> [s \in Slots |->
             [p \in People |-> NoApplication]]]]
  /\ page = [m \in Managers |-> NoPage]
  /\ req = [q \in Requests |-> NoRequest]

-----------------------------------------------------------------------------
(* Helpers.                                                                *)

Live(w) == row[w].life = "LIVE"
Exists(w, n) == rev[w][n].state # "NONE"
Replaced(w) == \E v \in Workdays : Live(v) /\ row[v].replaces = w

\* save_draft refuses ASSIGNED without a person, and lets a slot keep, but not
\* be given, MANAGER_ACTION_REQUIRED.
Saves(old, new) ==
  /\ new # Vacant("ASSIGNED")
  /\ new.status = "MANAGER_ACTION_REQUIRED" => new = old

\* The crews save_draft can leave behind: a stored slot may be kept, changed
\* or removed; a new row gets a slot key that was never used before.
Edits(w, old) ==
  {c \in [Slots -> CellInput \cup {Absent}] :
     /\ \A s \in Slots : Saves(old[s], c[s])
     /\ \A s \in issued[w] : old[s] = Absent => c[s] = Absent}

CloneOf(w, n) == [rev[w][n] EXCEPT !.state = "DRAFT", !.basedOn = n]

\* ensure_draft numbers the clone published + 1; the unique constraint on
\* (workday_id, revision_number) refuses a number that is taken.
CanClone(w) ==
  /\ row[w].draft = NoRev
  /\ row[w].published # NoRev
  /\ row[w].published < MaxRevision
  /\ ~Exists(w, row[w].published + 1)
  /\ row[w].version < MaxVersion

\* The new draft, with the day-level facts f.
Clone(w, f) ==
  LET d == row[w].published + 1
  IN  /\ row' = [row EXCEPT ![w].draft = d, ![w].version = @ + 1]
      /\ rev' = [rev EXCEPT ![w][d] =
                   [CloneOf(w, row[w].published) EXCEPT !.facts = f]]

Showing(w) ==
  [stage |-> "SHOWN", day |-> w, draft |-> row[w].draft,
   version |-> row[w].version, crew |-> rev[w][row[w].draft].crew,
   facts |-> rev[w][row[w].draft].facts]

Loading(w, d, v) ==
  [NoPage EXCEPT !.stage = "LOADING", !.day = w, !.draft = d, !.version = v]

\* lock_current_draft on a form submitted from page m: the route has looked up
\* the Workday's current draft, the page supplies the version.
Locked(m) ==
  LET w == page[m].day
  IN  /\ page[m].stage = "SHOWN"
      /\ Live(w)
      /\ row[w].version = page[m].version
      /\ row[w].version < MaxVersion
      /\ row[w].draft # NoRev
      /\ rev[w][row[w].draft].state = "DRAFT"

\* The row of a Workday whose lock_version is advanced.
TouchedNot(w) == row[w]
Touched(w) == [row[w] EXCEPT !.version = @ + 1]

\* Every draft mutation stores crew c and facts f, advances the version and
\* leaves the page by a redirect.
Store(m, c, f) ==
  LET w == page[m].day
      d == row[w].draft
  IN  /\ rev' = [rev EXCEPT ![w][d].crew = c, ![w][d].facts = f]
      /\ row' = [row EXCEPT ![w] = Touched(w)]
      /\ issued' = [issued EXCEPT ![w] = @ \cup Present(c)]
      /\ page' = [page EXCEPT ![m] = NoPage]
      /\ UNCHANGED <<app, req>>

DraftOf(m) == rev[page[m].day][row[page[m].day].draft]

-----------------------------------------------------------------------------
(* Creation and deletion.                                                  *)

\* create_workday, alone (saved = FALSE) or followed by save_draft in the same
\* transaction, as the unified Builder's form does.
CreateWorkday(w, saved, c, f) ==
  /\ row[w].life = "ABSENT"
  /\ ~saved => c = EmptyCrew
  /\ \A s \in Slots : Saves(Absent, c[s])
  /\ row' = [row EXCEPT ![w] =
               [NoRow("LIVE") EXCEPT !.version = IF saved THEN 2 ELSE 1, !.draft = 1]]
  /\ rev' = [rev EXCEPT ![w][1] =
               [NoRevision EXCEPT !.state = "DRAFT", !.crew = c, !.facts = f]]
  /\ issued' = [issued EXCEPT ![w] = Present(c)]
  /\ UNCHANGED <<app, page, req>>

\* delete_never_published_workday: the revisions of the Workday go with it.
DeleteWorkday(w) ==
  /\ Live(w)
  /\ row[w].published = NoRev
  /\ \A n \in Revs : rev[w][n].state # "PUBLISHED"
  /\ row' = [row EXCEPT ![w] = NoRow("DELETED")]
  /\ rev' = [rev EXCEPT ![w] = [n \in Revs |-> NoRevision]]
  /\ UNCHANGED <<issued, app, page, req>>

-----------------------------------------------------------------------------
(* Manager pages.                                                          *)

\* GET /workdays/{id} with a draft: ensure_draft keeps the row lock until the
\* page is rendered.
OpenDraft(m, w) ==
  /\ page[m].stage = "IDLE"
  /\ Live(w)
  /\ row[w].draft # NoRev
  /\ page' = [page EXCEPT ![m] = Showing(w)]
  /\ UNCHANGED <<row, rev, issued, app, req>>

\* GET /workdays/{id} without a draft: the clone is committed, which releases
\* the lock, and the page is rendered from later reads.
OpenPublished(m, w) ==
  /\ page[m].stage = "IDLE"
  /\ Live(w)
  /\ CanClone(w)
  /\ Clone(w, rev[w][row[w].published].facts)
  /\ page' = [page EXCEPT ![m] =
                Loading(w, row[w].published + 1, row[w].version + 1)]
  /\ UNCHANGED <<issued, app, req>>

\* GET /workdays/{id}/preview takes no lock: it reads the row here and the
\* draft's contents in RenderPage.
OpenPreview(m, w) ==
  /\ page[m].stage = "IDLE"
  /\ Live(w)
  /\ row[w].draft # NoRev
  /\ page' = [page EXCEPT ![m] = Loading(w, row[w].draft, row[w].version)]
  /\ UNCHANGED <<row, rev, issued, app, req>>

RenderPage(m) ==
  LET shown == rev[page[m].day][page[m].draft]
  IN  /\ page[m].stage = "LOADING"
      /\ shown.state # "NONE"
      /\ page' = [page EXCEPT ![m].stage = "SHOWN", ![m].crew = shown.crew,
                              ![m].facts = shown.facts]
      /\ UNCHANGED <<row, rev, issued, app, req>>

\* The Manager leaves the page, or its form is refused with 409.
ClosePage(m) ==
  /\ page[m].stage # "IDLE"
  /\ page' = [page EXCEPT ![m] = NoPage]
  /\ UNCHANGED <<row, rev, issued, app, req>>

-----------------------------------------------------------------------------
(* Draft mutations.                                                        *)

SaveDraft(m, c, f) ==
  /\ Locked(m)
  /\ c \in Edits(page[m].day, DraftOf(m).crew)
  /\ Store(m, c, f)

UpdateDetails(m, f) ==
  /\ Locked(m)
  /\ Store(m, DraftOf(m).crew, f)

AddAssignment(m, s, cell) ==
  /\ Locked(m)
  /\ s \notin issued[page[m].day]
  /\ Store(m, [DraftOf(m).crew EXCEPT ![s] = cell], DraftOf(m).facts)

UpdateAssignment(m, s, cell) ==
  /\ Locked(m)
  /\ DraftOf(m).crew[s] # Absent
  /\ Store(m, [DraftOf(m).crew EXCEPT ![s] = cell], DraftOf(m).facts)

RemoveAssignment(m, s) ==
  /\ Locked(m)
  /\ DraftOf(m).crew[s] # Absent
  /\ Store(m, [DraftOf(m).crew EXCEPT ![s] = Absent], DraftOf(m).facts)

\* apply_latest_programme_to_draft copies source facts under the row lock, but
\* advances the version only when it has to create the draft.
ApplyProgramme(w, f) ==
  /\ Live(w)
  /\ "PROGRAMME" \in Overlaps \/ \A m \in Managers : page[m].day # w
  /\ \/ /\ row[w].draft # NoRev
        /\ rev' = [rev EXCEPT ![w][row[w].draft].facts = f]
        /\ UNCHANGED row
     \/ CanClone(w) /\ Clone(w, f)
  /\ UNCHANGED <<issued, app, page, req>>

-----------------------------------------------------------------------------
(* Publication.                                                            *)

\* Application a of person p for slot s is accepted by publishing draft d when it
\* was selected into that draft and the person is still in the slot.
AcceptsSelected(w, d, s, p, a) == a.status = "SELECTED" /\ a.draft = d
Accepts(w, d, s, p, a) ==
  a.status = "SELECTED" /\ a.draft = d /\ rev[w][d].crew[s].person = p

\* Publication decides every application made on the superseded revision r.
Decided(w, d, r) ==
  [app[w] EXCEPT ![r] = [s \in Slots |-> [p \in People |->
     LET a == app[w][r][s][p]
     IN  IF a.status = "NONE" THEN a
         ELSE [a EXCEPT !.status =
                 IF Accepts(w, d, s, p, a) THEN "ACCEPTED" ELSE "NOT_SELECTED"]]]]

PublishedRowKeepsDraft(w, d) ==
  [row[w] EXCEPT !.published = d, !.version = @ + 1]
PublishedRowKeepsVersion(w, d) ==
  [row[w] EXCEPT !.published = d, !.draft = NoRev]
PublishedRow(w, d) ==
  [row[w] EXCEPT !.published = d, !.draft = NoRev, !.version = @ + 1]

\* _publish, with the conflicts of the day absent or confirmed.
Publish(m) ==
  LET w == page[m].day
      d == page[m].draft
  IN  /\ Locked(m)
      /\ row[w].draft = d
      /\ rev[w][d].basedOn = row[w].published
      /\ row' = [row EXCEPT ![w] = PublishedRow(w, d)]
      /\ rev' = [rev EXCEPT ![w][d].state = "PUBLISHED"]
      /\ app' = [app EXCEPT ![w] =
                   IF rev[w][d].basedOn = NoRev THEN @
                   ELSE Decided(w, d, rev[w][d].basedOn)]
      /\ page' = [page EXCEPT ![m] = NoPage]
      /\ UNCHANGED <<issued, req>>

ReplacementUnlinked(w) ==
  [NoRow("LIVE") EXCEPT !.version = 2, !.published = 1]
ReplacementRow(w) ==
  [NoRow("LIVE") EXCEPT !.version = 2, !.published = 1, !.replaces = w]

ClonedDraft(w) ==
  [rev[w][IF row[w].draft = NoRev THEN row[w].published ELSE row[w].draft]
     EXCEPT !.state = "PUBLISHED", !.basedOn = NoRev]
ClonedPublication(w) == [rev[w][row[w].published] EXCEPT !.basedOn = NoRev]

\* reschedule_published_workday: the source is abandoned and its draft
\* detached; the replacement v is created and published in the same
\* transaction from the source's current publication.
Reschedule(w, v) ==
  /\ Live(w)
  /\ row[w].published # NoRev
  /\ ~Replaced(w)
  /\ row[w].version < MaxVersion
  /\ row[v].life = "ABSENT"
  /\ row' = [row EXCEPT
               ![w].draft = NoRev, ![w].status = "ABANDONED", ![w].version = @ + 1,
               ![v] = ReplacementRow(w)]
  /\ rev' = [rev EXCEPT ![v][1] = ClonedPublication(w)]
  /\ issued' = [issued EXCEPT ![v] = Present(rev[w][row[w].published].crew)]
  /\ UNCHANGED <<app, page, req>>

-----------------------------------------------------------------------------
(* Open Positions.                                                         *)

ApplyForPosition(p, w, s) ==
  /\ Live(w)
  /\ row[w].published # NoRev
  /\ row[w].status = "SCHEDULED"
  /\ rev[w][row[w].published].crew[s].status = "OPEN"
  /\ app[w][row[w].published][s][p].status = "NONE"
  /\ app' = [app EXCEPT ![w][row[w].published][s][p] =
               [status |-> "APPLIED", draft |-> NoRev]]
  /\ UNCHANGED <<row, rev, issued, page, req>>

\* choose_applicant and select_application: the applicant is put into the slot
\* of the current draft; nothing is decided yet.
SelectApplication(m, p, s) ==
  LET w == page[m].day
      r == row[w].published
      d == row[w].draft
  IN  /\ Locked(m)
      /\ r # NoRev
      /\ app[w][r][s][p].status = "APPLIED"
      /\ rev[w][r].crew[s].status = "OPEN"
      /\ rev[w][d].crew[s] # Absent
      /\ app' = [app EXCEPT ![w][r][s][p] = [status |-> "SELECTED", draft |-> d]]
      /\ rev' = [rev EXCEPT ![w][d].crew[s] = Assigned(p)]
      /\ row' = [row EXCEPT ![w] = Touched(w)]
      /\ page' = [page EXCEPT ![m] = NoPage]
      /\ UNCHANGED <<issued, req>>

\* The same form on a Workday that has no draft (any more): choose_applicant
\* commits a new draft and then refuses the selection.
SelectWithoutDraft(m, p, s) ==
  LET w == page[m].day
      r == row[w].published
  IN  /\ page[m].stage = "SHOWN"
      /\ Live(w)
      /\ CanClone(w)
      /\ app[w][r][s][p].status # "NONE"
      /\ Clone(w, rev[w][r].facts)
      /\ page' = [page EXCEPT ![m] = NoPage]
      /\ UNCHANGED <<issued, app, req>>

-----------------------------------------------------------------------------
(* Requests that read the row before they lock or write it.                *)

\* Without an overlap of its kind, the request commits on the row it read.
Undisturbed(q) ==
  req[q].kind \in Overlaps \/ row[req[q].day] = req[q].row

\* The decline route reads the row, checks that the person may still decline,
\* and commits; the ORM keeps the row it read.
DeclineRead(q, p, w) ==
  /\ req[q].kind = "NONE"
  /\ Live(w)
  /\ row[w].published # NoRev
  /\ row[w].status = "SCHEDULED"
  /\ \E s \in Slots : rev[w][row[w].published].crew[s] = Assigned(p)
  /\ req' = [req EXCEPT ![q] =
               [NoRequest EXCEPT !.kind = "DECLINE", !.day = w, !.row = row[w],
                                 !.person = p]]
  /\ UNCHANGED <<row, rev, issued, app, page>>

\* revision_number = max(revision_number) + 1
IsNextNumber(w, n) ==
  /\ \A k \in Revs : k >= n => ~Exists(w, k)
  /\ n > 1 => Exists(w, n - 1)

PolicyAsStatus(policy) == policy
DeclinedStatus(policy) ==
  IF policy = "OPEN_IMMEDIATELY" THEN "OPEN" ELSE "MANAGER_ACTION_REQUIRED"

\* The declining person's slot t is vacated in a copy of revision r.
DeclinedRevisionOldBase(w, r, t, policy) ==
  [rev[w][r] EXCEPT !.crew[t] = Vacant(DeclinedStatus(policy))]
DeclinedRevision(w, r, t, policy) ==
  [rev[w][r] EXCEPT !.basedOn = r, !.crew[t] = Vacant(DeclinedStatus(policy))]

\* The columns written over the current row: those that differ from the row
\* `old` that the session holds.
DeclinedRowKeepsDraft(old, current, n) ==
  [current EXCEPT !.published = n, !.version = old.version + 1]
DeclinedRow(old, current, n) ==
  [current EXCEPT !.published = n,
                  !.draft = IF old.draft # NoRev THEN NoRev ELSE @,
                  !.version = old.version + 1]

NotCarried(w, r, n, t) == app[w]
\* Applications to the other slots are carried to revision n, closed on r.
Carried(w, r, n, t) ==
  LET moves(s, p) == s # t /\ app[w][r][s][p].status \in Pending
  IN  [app[w] EXCEPT
         ![r] = [s \in Slots |-> [p \in People |->
                   IF moves(s, p) THEN [app[w][r][s][p] EXCEPT !.status = "CLOSED"]
                   ELSE app[w][r][s][p]]],
         ![n] = [s \in Slots |-> [p \in People |->
                   IF moves(s, p) THEN [status |-> "APPLIED", draft |-> NoRev]
                   ELSE app[w][n][s][p]]]]

\* decline_published_assignment locks the row with SELECT ... FOR UPDATE but
\* without populate_existing: the attributes it goes on to use are the ones
\* the route read.  Only attributes that differ from those are written.
DeclineCommit(q, t, policy, n) ==
  LET w == req[q].day
      p == req[q].person
      old == req[q].row
      r == old.published
  IN  /\ req[q].kind = "DECLINE"
      /\ Undisturbed(q)
      /\ Live(w)
      /\ rev[w][r].crew[t] = Assigned(p)
      /\ IsNextNumber(w, n)
      /\ old.version < MaxVersion
      /\ rev' = [rev EXCEPT ![w][n] = DeclinedRevision(w, r, t, policy)]
      /\ row' = [row EXCEPT ![w] = DeclinedRow(old, row[w], n)]
      /\ app' = [app EXCEPT ![w] = Carried(w, r, n, t)]
      /\ req' = [req EXCEPT ![q] = NoRequest]
      /\ UNCHANGED <<issued, page>>

AllowedStatus(w, s) == s = "SCHEDULED" => ~Replaced(w)

\* update_workday_status reads the row and the replacement without a lock ...
StatusRead(q, w, s) ==
  /\ req[q].kind = "NONE"
  /\ Live(w)
  /\ AllowedStatus(w, s)
  /\ req' = [req EXCEPT ![q] =
               [NoRequest EXCEPT !.kind = "STATUS", !.day = w, !.row = row[w],
                                 !.status = s]]
  /\ UNCHANGED <<row, rev, issued, app, page>>

\* ... and writes the status, if it differs from the one read, and the version
\* read plus one.
StatusCommit(q) ==
  LET w == req[q].day
      old == req[q].row
  IN  /\ req[q].kind = "STATUS"
      /\ Undisturbed(q)
      /\ Live(w)
      /\ old.version < MaxVersion
      /\ row' = [row EXCEPT
                   ![w].status = IF req[q].status # old.status THEN req[q].status ELSE @,
                   ![w].version = old.version + 1]
      /\ req' = [req EXCEPT ![q] = NoRequest]
      /\ UNCHANGED <<rev, issued, app, page>>

\* The request dies before its commit, or is refused: nothing was written.
DropRequest(q) ==
  /\ req[q].kind # "NONE"
  /\ req' = [req EXCEPT ![q] = NoRequest]
  /\ UNCHANGED <<row, rev, issued, app, page>>

-----------------------------------------------------------------------------
ManagerStep(m) ==
  \/ \E w \in Workdays : OpenDraft(m, w) \/ OpenPublished(m, w) \/ OpenPreview(m, w)
  \/ RenderPage(m)
  \/ ClosePage(m)
  \/ \E f \in Facts :
       \/ UpdateDetails(m, f)
       \/ \E c \in [Slots -> CellInput \cup {Absent}] : SaveDraft(m, c, f)
  \/ \E s \in Slots :
       \/ \E cell \in CellInput : AddAssignment(m, s, cell) \/ UpdateAssignment(m, s, cell)
       \/ RemoveAssignment(m, s)
       \/ \E p \in People : SelectApplication(m, p, s) \/ SelectWithoutDraft(m, p, s)
  \/ Publish(m)

RequestStep(q) ==
  \/ \E w \in Workdays, p \in People : DeclineRead(q, p, w)
  \/ \E t \in Slots, policy \in Policies, n \in Revs : DeclineCommit(q, t, policy, n)
  \/ \E w \in Workdays, s \in WorkdayStatus : StatusRead(q, w, s)
  \/ StatusCommit(q)
  \/ DropRequest(q)

WorkdayStep(w) ==
  \/ \E saved \in BOOLEAN, c \in [Slots -> CellInput \cup {Absent}], f \in Facts :
       CreateWorkday(w, saved, c, f)
  \/ DeleteWorkday(w)
  \/ \E f \in Facts : ApplyProgramme(w, f)
  \/ \E v \in Workdays : Reschedule(w, v)
  \/ \E p \in People, s \in Slots : ApplyForPosition(p, w, s)

Next ==
  \/ \E m \in Managers : ManagerStep(m)
  \/ \E q \in Requests : RequestStep(q)
  \/ \E w \in Workdays : WorkdayStep(w)

Spec == Init /\ [][Next]_vars

-----------------------------------------------------------------------------
(* What holds whatever overlaps.                                           *)

\* The current pointers of a Workday name rows in the right state: crew read a
\* PUBLISHED revision and the Builder edits a DRAFT; a Workday that is neither
\* drafted nor published cannot exist, and deletion leaves nothing behind.
PointersSound ==
  \A w \in Workdays :
    /\ row[w].published # NoRev => rev[w][row[w].published].state = "PUBLISHED"
    /\ row[w].draft # NoRev => rev[w][row[w].draft].state = "DRAFT"
    /\ Live(w) => row[w].published # NoRev \/ row[w].draft # NoRev
    /\ ~Live(w) => \A n \in Revs : ~Exists(w, n)

\* An accepted applicant holds the slot in the publication that superseded the
\* revision applied to, and is the only one accepted for that slot.
AcceptedHoldsSlot ==
  \A w \in Workdays, r \in Revs, s \in Slots, p \in People :
    app[w][r][s][p].status = "ACCEPTED" =>
      /\ \E n \in Revs : /\ rev[w][n].state = "PUBLISHED"
                        /\ rev[w][n].basedOn = r
                        /\ rev[w][n].crew[s] = Assigned(p)
      /\ \A o \in People \ {p} : app[w][r][s][o].status # "ACCEPTED"

\* A published revision never changes again, neither its crew nor its facts.
PublishedImmutable ==
  [][\A w \in Workdays, n \in Revs :
       rev[w][n].state = "PUBLISHED" => rev'[w][n] = rev[w][n]]_vars

-----------------------------------------------------------------------------
(* What holds when the requests that read the row without its lock are not *)
(* overlapped: declines, and for PageFresh any of them.                    *)

\* A page whose version would be accepted shows the draft it would overwrite.
PageFresh ==
  \A m \in Managers :
    LET w == page[m].day
    IN  /\ page[m].stage = "SHOWN"
        /\ row[w].version = page[m].version
        /\ row[w].draft # NoRev
        => /\ page[m].draft = row[w].draft
           /\ page[m].crew = DraftOf(m).crew
           /\ page[m].facts = DraftOf(m).facts

\* The shared draft was cloned from the publication that is still current.
DraftOnCurrent ==
  \A w \in Workdays :
    row[w].draft # NoRev => rev[w][row[w].draft].basedOn = row[w].published

\* An application that waits for a decision is on the current publication.
PendingOnCurrent ==
  \A w \in Workdays, r \in Revs, s \in Slots, p \in People :
    app[w][r][s][p].status \in Pending => r = row[w].published

\* A predecessor with a replacement is never scheduled again.  It fails when a
\* reschedule commits between the two reads of the status form and its write.
ReplacedNotScheduled ==
  \A w \in Workdays : Live(w) /\ Replaced(w) => row[w].status # "SCHEDULED"

\* The editor of a published Workday opens: the number of its next draft is free.
EditorOpens(w) ==
  Live(w) /\ row[w].draft = NoRev /\ row[w].published < MaxRevision
    => ~Exists(w, row[w].published + 1)
EditableUnlessReplaced == \A w \in Workdays : Replaced(w) \/ EditorOpens(w)
Editable == \A w \in Workdays : EditorOpens(w)

\* Every publication is built on the one it replaces.
NoPublicationLost ==
  [][\A w \in Workdays :
       row[w].published # NoRev /\ row'[w].published # row[w].published
         => rev'[w][row'[w].published].basedOn = row[w].published]_vars

\* A request commits over a row that changed since the request read it.
OvertakenCommit(w) ==
  \E q \in Requests : /\ req[q].kind # "NONE" /\ req[q].day = w
                      /\ req[q].row # row[w] /\ req'[q] = NoRequest

\* The revisions of a Workday but for their day-level facts.
Lineage(w) ==
  [n \in Revs |-> <<rev[w][n].state, rev[w][n].basedOn, rev[w][n].crew>>]

\* Whatever overlaps, lock_version never falls, and whatever changes a Workday's
\* row, its revisions or their crews, or stores a Manager's facts, advances it: a
\* stale page stays stale.  Two things do not: a request that commits over a row
\* it had not read writes the version it had read plus one, and programme facts
\* copied into a draft leave the version alone.
VersionAdvances ==
  [][\A w \in Workdays : Live(w) /\ Live(w)' /\ ~OvertakenCommit(w) =>
       /\ row'[w].version >= row[w].version
       /\ \/ row'[w] # row[w]
          \/ Lineage(w)' # Lineage(w)
          \/ rev'[w] # rev[w] /\ page' # page
          => row'[w].version > row[w].version]_vars

-----------------------------------------------------------------------------
(* What crew see, and the shared draft behind it.                          *)

At(w, n) == {rev[w][k].crew : k \in {n} \ {NoRev}}

Authority == INSTANCE RosterAuthority WITH
  Rosters <- Crew,
  Freed <- {Vacant(DeclinedStatus(policy)) : policy \in Policies},
  visible <- [w \in Workdays |-> At(w, row[w].published)],
  proposal <- [w \in Workdays |-> At(w, row[w].draft)]

\* The rostering code implements the authority specification.
ImplementsAuthority == Authority!Spec
=============================================================================
