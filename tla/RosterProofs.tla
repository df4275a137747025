---------------------------- MODULE RosterProofs ----------------------------
(***************************************************************************)
(* What module Roster guarantees for every number of Workdays, slots,      *)
(* people, pages and requests, every bound, and every choice of the        *)
(* requests that may be overlapped.                                        *)
(***************************************************************************)
EXTENDS Roster, TLAPS

-----------------------------------------------------------------------------
(* The inductive invariant.  TypeOK is not inductive: an open page must    *)
(* name a Workday and a revision, or what RenderPage reads has no type;    *)
(* a decline must have read a publication, or what DeclineCommit copies    *)
(* has no type.                                                            *)

PagesNamed ==
  \A m \in Managers : page[m].stage # "IDLE" =>
    page[m].day \in Workdays /\ page[m].draft \in Revs

RequestsNamed ==
  \A q \in Requests :
    /\ req[q].kind # "NONE" => req[q].day \in Workdays
    /\ req[q].kind = "DECLINE" =>
         req[q].person \in People /\ req[q].row.published \in Revs

TypeInv == TypeOK /\ PagesNamed /\ RequestsNamed

\* The publication that a decline read is still a publication.
RequestsSound ==
  \A q \in Requests : req[q].kind = "DECLINE" =>
    rev[req[q].day][req[q].row.published].state = "PUBLISHED"

Inv == TypeInv /\ PointersSound /\ RequestsSound

-----------------------------------------------------------------------------
(* Types of the rows.                                                      *)

LEMMA NullTypes ==
  /\ \A life \in {"ABSENT", "LIVE", "DELETED"} : NoRow(life) \in Row
  /\ Absent \in Cell
  /\ EmptyCrew \in Crew
  /\ NoRevision \in Revision
  /\ NoApplication \in Application
  /\ NoPage \in Page
  /\ NoRequest \in Request
<1>1. NoRev \in Pointer
  BY RosterAssumption DEF NoRev, Pointer
<1>2. \A life \in {"ABSENT", "LIVE", "DELETED"} : NoRow(life) \in Row
  BY <1>1 DEF NoRow, Row, WorkdayStatus
<1>3. Absent \in Cell
  BY DEF Absent, Cell
<1>4. EmptyCrew \in Crew
  BY <1>3 DEF EmptyCrew, Crew
<1>5. NoRevision.facts \in Facts /\ NoRevision \in Revision
  BY <1>1, <1>4, RosterAssumption DEF NoRevision, Revision
<1>6. NoApplication \in Application
  BY <1>1 DEF NoApplication, Application, ApplicationStatus
<1>7. NoPage \in Page
  BY <1>1, <1>4, <1>5 DEF NoPage, Page
<1>8. NoRequest \in Request
  BY <1>2 DEF NoRequest, Request, WorkdayStatus
<1> QED
  BY <1>2, <1>3, <1>4, <1>5, <1>6, <1>7, <1>8

LEMMA CellInputType == CellInput \subseteq Cell
BY RosterAssumption DEF CellInput, Cell, Vacant, Assigned, AssignmentStatus

\* A table updated at one Workday and one revision keeps its type.
LEMMA RevUpdate ==
  ASSUME TypeOK, NEW w \in Workdays, NEW n \in Revs, NEW r \in Revision,
         rev' = [rev EXCEPT ![w][n] = r]
  PROVE  /\ rev' \in [Workdays -> [Revs -> Revision]]
         /\ rev'[w][n] = r
         /\ \A v \in Workdays, k \in Revs : v # w \/ k # n => rev'[v][k] = rev[v][k]
BY DEF TypeOK

LEMMA RowUpdate ==
  ASSUME TypeOK, NEW w \in Workdays, NEW r \in Row,
         row' = [row EXCEPT ![w] = r]
  PROVE  /\ row' \in [Workdays -> Row]
         /\ row'[w] = r
         /\ \A v \in Workdays : v # w => row'[v] = row[v]
BY DEF TypeOK

LEMMA PageUpdate ==
  ASSUME TypeOK, PagesNamed, NEW m \in Managers, NEW p \in Page,
         p.stage # "IDLE" => p.day \in Workdays /\ p.draft \in Revs,
         page' = [page EXCEPT ![m] = p]
  PROVE  page' \in [Managers -> Page] /\ PagesNamed'
BY DEF TypeOK, PagesNamed

-----------------------------------------------------------------------------
(* Types of what the helpers build.                                        *)

\* A page rendered from a Workday that has a draft.
LEMMA ShowingType ==
  ASSUME TypeOK, NEW w \in Workdays, row[w].draft # NoRev
  PROVE  /\ Showing(w) \in Page
         /\ Showing(w).day \in Workdays /\ Showing(w).draft \in Revs
<1>1. row[w] \in Row /\ row[w].draft \in Revs
  BY RosterAssumption DEF TypeOK, Row, Pointer, Revs, NoRev
<1>2. rev[w][row[w].draft] \in Revision
  BY <1>1 DEF TypeOK
<1> QED
  BY <1>1, <1>2 DEF Showing, Page, Revision, Row

LEMMA LoadingType ==
  ASSUME NEW w \in Workdays, NEW d \in Revs, NEW v \in Nat
  PROVE  /\ Loading(w, d, v) \in Page
         /\ Loading(w, d, v).day \in Workdays /\ Loading(w, d, v).draft \in Revs
<1>1. d \in Pointer
  BY RosterAssumption DEF Revs, Pointer
<1> QED
  BY <1>1, NullTypes DEF Loading, Page, NoPage

\* What is written to the pointers, the status and the version of a row.
LEMMA RowFields ==
  ASSUME NEW r \in Row, NEW e \in Pointer, NEW n \in Pointer, NEW k \in Nat,
         NEW s \in WorkdayStatus
  PROVE  /\ [r EXCEPT !.draft = e, !.version = k] \in Row
         /\ [r EXCEPT !.published = n, !.draft = e, !.version = k] \in Row
         /\ [r EXCEPT !.status = s, !.version = k] \in Row
BY DEF Row

\* What a clone writes.
LEMMA CloneEffect ==
  ASSUME TypeOK, NEW w \in Workdays, NEW f \in Facts, CanClone(w), Clone(w, f)
  PROVE  LET n == row[w].published
             d == n + 1
             r == [CloneOf(w, n) EXCEPT !.facts = f]
             x == [row[w] EXCEPT !.draft = d, !.version = @ + 1]
         IN  /\ n \in Revs /\ d \in Revs /\ r \in Revision /\ x \in Row
             /\ rev[w][d].state = "NONE"
             /\ r.state = "DRAFT" /\ r.basedOn = n
             /\ row' = [row EXCEPT ![w] = x]
             /\ rev' = [rev EXCEPT ![w][d] = r]
<1> DEFINE n == row[w].published
           d == n + 1
           r == [CloneOf(w, n) EXCEPT !.facts = f]
           x == [row[w] EXCEPT !.draft = d, !.version = @ + 1]
<1>1. row[w] \in Row /\ n \in Revs /\ d \in Revs /\ d \in Pointer /\ n \in Pointer
  BY RosterAssumption DEF CanClone, TypeOK, Row, Pointer, Revs, NoRev
<1>2. rev[w][n] \in Revision /\ rev[w][d].state = "NONE"
  BY <1>1 DEF TypeOK, CanClone, Exists
<1>3. r \in Revision /\ r.state = "DRAFT" /\ r.basedOn = n
  BY <1>1, <1>2 DEF CloneOf, Revision
<1>4. x \in Row
  <2>1. row[w].version + 1 \in Nat
    BY <1>1 DEF Row
  <2> QED
    BY <1>1, <2>1, RowFields, RosterAssumption DEF WorkdayStatus
<1>5. row' = [row EXCEPT ![w] = x] /\ rev' = [rev EXCEPT ![w][d] = r]
  BY DEF Clone
<1> QED
  BY <1>1, <1>2, <1>3, <1>4, <1>5

LEMMA CloneType ==
  ASSUME TypeOK, NEW w \in Workdays, NEW f \in Facts, CanClone(w), Clone(w, f)
  PROVE  /\ row[w].published + 1 \in Revs
         /\ row' \in [Workdays -> Row]
         /\ rev' \in [Workdays -> [Revs -> Revision]]
<1> DEFINE n == row[w].published
           d == n + 1
           r == [CloneOf(w, n) EXCEPT !.facts = f]
           x == [row[w] EXCEPT !.draft = d, !.version = @ + 1]
<1>1. /\ d \in Revs /\ r \in Revision /\ x \in Row
      /\ row' = [row EXCEPT ![w] = x]
      /\ rev' = [rev EXCEPT ![w][d] = r]
  BY CloneEffect
<1> HIDE DEF r, x
<1> QED
  BY <1>1 DEF TypeOK

\* A draft cloned with the day-level facts of the publication.
LEMMA PublishedFacts ==
  ASSUME TypeOK, NEW w \in Workdays, CanClone(w)
  PROVE  /\ row[w] \in Row /\ row[w].published \in Revs
         /\ rev[w][row[w].published].facts \in Facts
<1>1. row[w] \in Row
  BY DEF TypeOK
<1>2. row[w].published \in Pointer /\ row[w].published # NoRev
  BY <1>1 DEF CanClone, Row
<1>3. row[w].published \in Revs
  BY <1>2, RosterAssumption DEF Pointer, Revs, NoRev
<1>4. rev[w][row[w].published] \in Revision
  BY <1>3 DEF TypeOK
<1> QED
  BY <1>1, <1>3, <1>4 DEF Revision

\* What a draft mutation finds and writes.
LEMMA LockedDraft ==
  ASSUME TypeInv, NEW m \in Managers, Locked(m)
  PROVE  LET w == page[m].day
             d == row[w].draft
         IN  /\ w \in Workdays /\ d \in Revs /\ row[w] \in Row
             /\ Live(w) /\ rev[w][d] \in Revision /\ rev[w][d].state = "DRAFT"
             /\ rev[w][d].crew \in Crew /\ rev[w][d].facts \in Facts
             /\ DraftOf(m) = rev[w][d]
<1> DEFINE w == page[m].day
           d == row[w].draft
<1>1. w \in Workdays
  BY DEF Locked, TypeInv, PagesNamed
<1>2. row[w] \in Row /\ d \in Revs
  BY <1>1, RosterAssumption DEF Locked, TypeInv, TypeOK, Row, Pointer, Revs, NoRev
<1>3. rev[w][d] \in Revision
  BY <1>1, <1>2 DEF TypeInv, TypeOK
<1> QED
  BY <1>1, <1>2, <1>3 DEF Locked, DraftOf, Revision

LEMMA StoreEffect ==
  ASSUME TypeInv, NEW m \in Managers, NEW c \in Crew, NEW f \in Facts,
         Locked(m), Store(m, c, f)
  PROVE  LET w == page[m].day
             d == row[w].draft
             r == [rev[w][d] EXCEPT !.crew = c, !.facts = f]
         IN  /\ r \in Revision /\ r.state = "DRAFT"
             /\ Touched(w) \in Row /\ Touched(w).draft = d
             /\ Touched(w).published = row[w].published
             /\ Touched(w).life = row[w].life
             /\ row' = [row EXCEPT ![w] = Touched(w)]
             /\ rev' = [rev EXCEPT ![w][d] = r]
<1> DEFINE w == page[m].day
           d == row[w].draft
           r == [rev[w][d] EXCEPT !.crew = c, !.facts = f]
<1>1. w \in Workdays /\ d \in Revs /\ row[w] \in Row /\ rev[w][d] \in Revision
      /\ rev[w][d].state = "DRAFT"
  BY LockedDraft
<1>2. r \in Revision /\ r.state = "DRAFT"
  BY <1>1 DEF Revision, Crew
<1>3. /\ Touched(w) \in Row /\ Touched(w).draft = d
      /\ Touched(w).published = row[w].published /\ Touched(w).life = row[w].life
  BY <1>1 DEF Touched, Row
<1>4. row' = [row EXCEPT ![w] = Touched(w)] /\ rev' = [rev EXCEPT ![w][d] = r]
  BY DEF Store
<1> QED
  BY <1>2, <1>3, <1>4

LEMMA StoreType ==
  ASSUME TypeInv, NEW m \in Managers, NEW c \in Crew, NEW f \in Facts,
         Locked(m), Store(m, c, f)
  PROVE  TypeInv'
<1> DEFINE w == page[m].day
           d == row[w].draft
<1>1. w \in Workdays /\ d \in Revs
  BY LockedDraft
<1>2. rev' \in [Workdays -> [Revs -> Revision]]
  <2>1. PICK r \in Revision : rev' = [rev EXCEPT ![w][d] = r]
    BY StoreEffect
  <2> QED
    BY <1>1, <2>1 DEF TypeInv, TypeOK
<1>3. row' \in [Workdays -> Row]
  BY <1>1, StoreEffect DEF TypeInv, TypeOK
<1>4. issued' \in [Workdays -> SUBSET Slots]
  BY <1>1 DEF Store, Present, TypeInv, TypeOK
<1>5. page' \in [Managers -> Page] /\ PagesNamed'
  <2>1. page' = [page EXCEPT ![m] = NoPage]
    BY DEF Store
  <2> QED
    BY <2>1, NullTypes, PageUpdate DEF NoPage, TypeInv
<1>6. UNCHANGED <<app, req>>
  BY DEF Store
<1> QED
  BY <1>2, <1>3, <1>4, <1>5, <1>6 DEF TypeInv, TypeOK, RequestsNamed

-----------------------------------------------------------------------------
(* Types of the applications.                                              *)

Applications == [Revs -> [Slots -> [People -> Application]]]

\* Deciding or closing an application keeps its type.
LEMMA ApplicationStatusType ==
  ASSUME NEW a \in Application
  PROVE  \A status \in {"ACCEPTED", "NOT_SELECTED", "CLOSED"} :
           [a EXCEPT !.status = status] \in Application
BY DEF Application, ApplicationStatus

\* One application of the table changes.
LEMMA ApplicationUpdate ==
  ASSUME TypeInv, NEW w \in Workdays, NEW n \in Revs, NEW s \in Slots,
         NEW p \in People, NEW a \in Application,
         app' = [app EXCEPT ![w][n][s][p] = a]
  PROVE  app' \in [Workdays -> Applications]
<1>1. app \in [Workdays -> Applications]
  BY DEF TypeInv, TypeOK, Applications
<1>2. app[w][n] \in [Slots -> [People -> Application]]
  BY <1>1 DEF Applications
<1>3. [app[w][n] EXCEPT ![s][p] = a] \in [Slots -> [People -> Application]]
  BY <1>2
<1>4. [app[w] EXCEPT ![n] = [app[w][n] EXCEPT ![s][p] = a]] \in Applications
  BY <1>1, <1>3 DEF Applications
<1>5. app' = [app EXCEPT ![w] = [app[w] EXCEPT ![n] = [app[w][n] EXCEPT ![s][p] = a]]]
  BY <1>1 DEF Applications
<1> QED
  BY <1>1, <1>4, <1>5

LEMMA DecidedType ==
  ASSUME TypeOK, NEW w \in Workdays, NEW d \in Revs, NEW r \in Revs
  PROVE  Decided(w, d, r) \in Applications
<1> DEFINE new(s, p) ==
             LET a == app[w][r][s][p]
             IN  IF a.status = "NONE" THEN a
                 ELSE [a EXCEPT !.status =
                         IF Accepts(w, d, s, p, a) THEN "ACCEPTED" ELSE "NOT_SELECTED"]
<1>1. app[w] \in Applications
  BY DEF TypeOK, Applications
<1>2. \A s \in Slots, p \in People : new(s, p) \in Application
  <2>1. SUFFICES ASSUME NEW s \in Slots, NEW p \in People
                 PROVE  new(s, p) \in Application
    OBVIOUS
  <2>2. app[w][r][s][p] \in Application
    BY <1>1 DEF Applications
  <2> QED
    BY <2>2, ApplicationStatusType
<1>3. [s \in Slots |-> [p \in People |-> new(s, p)]] \in [Slots -> [People -> Application]]
  BY <1>2
<1>4. Decided(w, d, r) = [app[w] EXCEPT ![r] = [s \in Slots |-> [p \in People |-> new(s, p)]]]
  BY DEF Decided
<1> QED
  BY <1>1, <1>3, <1>4 DEF Applications

LEMMA CarriedType ==
  ASSUME TypeOK, NEW w \in Workdays, NEW r \in Revs, NEW n \in Revs, NEW t \in Slots
  PROVE  Carried(w, r, n, t) \in Applications
<1> DEFINE moves(s, p) == s # t /\ app[w][r][s][p].status \in Pending
           closed(s, p) ==
             IF moves(s, p) THEN [app[w][r][s][p] EXCEPT !.status = "CLOSED"]
             ELSE app[w][r][s][p]
           carried(s, p) ==
             IF moves(s, p) THEN [status |-> "APPLIED", draft |-> NoRev]
             ELSE app[w][n][s][p]
<1>1. app[w] \in Applications
  BY DEF TypeOK, Applications
<1>2. \A s \in Slots, p \in People : closed(s, p) \in Application
  <2>1. SUFFICES ASSUME NEW s \in Slots, NEW p \in People
                 PROVE  closed(s, p) \in Application
    OBVIOUS
  <2>2. app[w][r][s][p] \in Application
    BY <1>1 DEF Applications
  <2> QED
    BY <2>2, ApplicationStatusType
<1>3. [status |-> "APPLIED", draft |-> NoRev] \in Application
  BY RosterAssumption DEF Application, ApplicationStatus, NoRev, Pointer
<1>4. \A s \in Slots, p \in People : carried(s, p) \in Application
  BY <1>1, <1>3 DEF Applications
<1>5. /\ [s \in Slots |-> [p \in People |-> closed(s, p)]] \in [Slots -> [People -> Application]]
      /\ [s \in Slots |-> [p \in People |-> carried(s, p)]] \in [Slots -> [People -> Application]]
  BY <1>2, <1>4
<1>6. Carried(w, r, n, t) =
        [app[w] EXCEPT ![r] = [s \in Slots |-> [p \in People |-> closed(s, p)]],
                       ![n] = [s \in Slots |-> [p \in People |-> carried(s, p)]]]
  BY DEF Carried
<1> QED
  BY <1>1, <1>5, <1>6 DEF Applications

-----------------------------------------------------------------------------
(* What publication, rescheduling, decline and status change write.        *)

LEMMA PublishEffect ==
  ASSUME TypeInv, NEW m \in Managers, Publish(m)
  PROVE  LET w == page[m].day
             d == row[w].draft
             r == [rev[w][d] EXCEPT !.state = "PUBLISHED"]
         IN  /\ w \in Workdays /\ d \in Revs /\ page[m].draft = d
             /\ Live(w) /\ rev[w][d].state = "DRAFT"
             /\ r \in Revision /\ r.state = "PUBLISHED"
             /\ PublishedRow(w, d) \in Row
             /\ PublishedRow(w, d).published = d /\ PublishedRow(w, d).draft = NoRev
             /\ PublishedRow(w, d).life = "LIVE"
             /\ row' = [row EXCEPT ![w] = PublishedRow(w, d)]
             /\ rev' = [rev EXCEPT ![w][d] = r]
<1> DEFINE w == page[m].day
           d == row[w].draft
           r == [rev[w][d] EXCEPT !.state = "PUBLISHED"]
<1>1. Locked(m) /\ page[m].draft = d
  BY DEF Publish
<1>2. /\ w \in Workdays /\ d \in Revs /\ row[w] \in Row /\ Live(w)
      /\ rev[w][d] \in Revision /\ rev[w][d].state = "DRAFT"
  BY <1>1, LockedDraft
<1>3. r \in Revision /\ r.state = "PUBLISHED"
  BY <1>2 DEF Revision
<1>4. d \in Pointer /\ NoRev \in Pointer /\ row[w].version + 1 \in Nat
  BY <1>2, RosterAssumption DEF Pointer, Revs, NoRev, Row
<1>5. PublishedRow(w, d) \in Row
  BY <1>2, <1>4, RowFields DEF PublishedRow, WorkdayStatus
<1>6. /\ PublishedRow(w, d).published = d /\ PublishedRow(w, d).draft = NoRev
      /\ PublishedRow(w, d).life = "LIVE"
  BY <1>2 DEF PublishedRow, Row, Live
<1>7. row' = [row EXCEPT ![w] = PublishedRow(w, d)] /\ rev' = [rev EXCEPT ![w][d] = r]
  BY <1>1 DEF Publish
<1> QED
  BY <1>1, <1>2, <1>3, <1>5, <1>6, <1>7

LEMMA RescheduleEffect ==
  ASSUME TypeInv, NEW w \in Workdays, NEW v \in Workdays, Reschedule(w, v)
  PROVE  LET n == row[w].published
             x == [row[w] EXCEPT !.draft = NoRev, !.status = "ABANDONED", !.version = @ + 1]
         IN  /\ v # w /\ Live(w) /\ row[v].life = "ABSENT"
             /\ n \in Revs /\ 1 \in Revs
             /\ x \in Row /\ x.draft = NoRev /\ x.published = n /\ x.life = "LIVE"
             /\ ReplacementRow(w) \in Row
             /\ ClonedPublication(w) \in Revision
             /\ ClonedPublication(w).state = rev[w][n].state
             /\ row' = [row EXCEPT ![w] = x, ![v] = ReplacementRow(w)]
             /\ rev' = [rev EXCEPT ![v][1] = ClonedPublication(w)]
<1> DEFINE n == row[w].published
           x == [row[w] EXCEPT !.draft = NoRev, !.status = "ABANDONED", !.version = @ + 1]
<1>1. v # w /\ Live(w) /\ row[v].life = "ABSENT"
  BY DEF Reschedule, Live
<1>2. row[w] \in Row /\ n \in Revs /\ 1 \in Revs /\ 1 \in Pointer /\ NoRev \in Pointer
  BY RosterAssumption DEF Reschedule, TypeInv, TypeOK, Row, Pointer, Revs, NoRev
<1>3. rev[w][n] \in Revision
  BY <1>2 DEF TypeInv, TypeOK
<1>4. row[w].version + 1 \in Nat
  BY <1>2 DEF Row
<1>5. x \in Row /\ x.draft = NoRev /\ x.published = n /\ x.life = "LIVE"
  <2>1. \A k \in Nat : [row[w] EXCEPT !.draft = NoRev, !.status = "ABANDONED", !.version = k] \in Row
    BY <1>2 DEF Row, WorkdayStatus
  <2> QED
    BY <1>1, <1>2, <1>4, <2>1 DEF Row, Live
<1>6. ReplacementRow(w) \in Row
  BY <1>2 DEF ReplacementRow, NoRow, Row, WorkdayStatus
<1>7. ClonedPublication(w) \in Revision /\ ClonedPublication(w).state = rev[w][n].state
  BY <1>2, <1>3 DEF ClonedPublication, Revision
<1>8. /\ row' = [row EXCEPT ![w] = x, ![v] = ReplacementRow(w)]
      /\ rev' = [rev EXCEPT ![v][1] = ClonedPublication(w)]
  <2>1. row' = [row EXCEPT ![w].draft = NoRev, ![w].status = "ABANDONED",
                           ![w].version = @ + 1, ![v] = ReplacementRow(w)]
    BY DEF Reschedule
  <2> QED
    BY <2>1 DEF Reschedule, TypeInv, TypeOK
<1> QED
  BY <1>1, <1>2, <1>5, <1>6, <1>7, <1>8

LEMMA DeclineEffect ==
  ASSUME TypeInv, NEW q \in Requests, NEW t \in Slots, NEW policy \in Policies,
         NEW n \in Revs, DeclineCommit(q, t, policy, n)
  PROVE  LET w == req[q].day
             old == req[q].row
             x == DeclinedRow(old, row[w], n)
             r == DeclinedRevision(w, old.published, t, policy)
         IN  /\ w \in Workdays /\ old.published \in Revs /\ Live(w)
             /\ req[q].kind = "DECLINE"
             /\ rev[w][n].state = "NONE"
             /\ x \in Row /\ x.published = n /\ x.life = "LIVE"
             /\ x.draft \in {NoRev, row[w].draft}
             /\ r \in Revision /\ r.state = rev[w][old.published].state
             /\ row' = [row EXCEPT ![w] = x]
             /\ rev' = [rev EXCEPT ![w][n] = r]
             /\ app' = [app EXCEPT ![w] = Carried(w, old.published, n, t)]
<1> DEFINE w == req[q].day
           old == req[q].row
           x == DeclinedRow(old, row[w], n)
           r == DeclinedRevision(w, old.published, t, policy)
<1>1. req[q].kind = "DECLINE" /\ Live(w) /\ IsNextNumber(w, n)
  BY DEF DeclineCommit
<1>2. w \in Workdays /\ old.published \in Revs
  BY <1>1 DEF TypeInv, RequestsNamed
<1>3. row[w] \in Row /\ req[q] \in Request /\ old \in Row
  BY <1>2 DEF TypeInv, TypeOK, Request
<1>4. rev[w][old.published] \in Revision
  BY <1>2 DEF TypeInv, TypeOK
<1>5. rev[w][n].state = "NONE"
  BY <1>1 DEF IsNextNumber, Exists, Revs
<1>6. x \in Row /\ x.published = n /\ x.life = "LIVE" /\ x.draft \in {NoRev, row[w].draft}
  <2>1. old.version + 1 \in Nat /\ n \in Pointer /\ NoRev \in Pointer /\ row[w].draft \in Pointer
    BY <1>3, RosterAssumption DEF Row, Revs, Pointer, NoRev
  <2>2. (IF old.draft # NoRev THEN NoRev ELSE row[w].draft) \in Pointer
    BY <2>1
  <2>3. x = [row[w] EXCEPT !.published = n,
                           !.draft = IF old.draft # NoRev THEN NoRev ELSE row[w].draft,
                           !.version = old.version + 1]
    BY <1>3 DEF DeclinedRow, Row
  <2>4. \A e \in Pointer, k \in Nat :
          [row[w] EXCEPT !.published = n, !.draft = e, !.version = k] \in Row
    BY <1>3, <2>1 DEF Row
  <2>5. x \in Row
    BY <2>1, <2>2, <2>3, <2>4
  <2> QED
    BY <1>1, <1>3, <2>3, <2>5 DEF Row, Live
<1>7. r \in Revision /\ r.state = rev[w][old.published].state
  <2>1. Vacant(DeclinedStatus(policy)) \in Cell
    BY RosterAssumption DEF Vacant, DeclinedStatus, Cell, AssignmentStatus
  <2>2. old.published \in Pointer
    BY <1>2, RosterAssumption DEF Revs, Pointer
  <2>3. [rev[w][old.published].crew EXCEPT ![t] = Vacant(DeclinedStatus(policy))] \in Crew
    BY <1>4, <2>1 DEF Revision, Crew
  <2>4. r = [rev[w][old.published] EXCEPT
               !.basedOn = old.published,
               !.crew = [@ EXCEPT ![t] = Vacant(DeclinedStatus(policy))]]
    BY DEF DeclinedRevision
  <2> QED
    BY <1>4, <2>2, <2>3, <2>4 DEF Revision
<1>8. /\ row' = [row EXCEPT ![w] = x] /\ rev' = [rev EXCEPT ![w][n] = r]
      /\ app' = [app EXCEPT ![w] = Carried(w, old.published, n, t)]
  BY DEF DeclineCommit
<1> QED
  BY <1>1, <1>2, <1>5, <1>6, <1>7, <1>8

LEMMA StatusEffect ==
  ASSUME TypeInv, NEW q \in Requests, StatusCommit(q)
  PROVE  LET w == req[q].day
         IN  /\ w \in Workdays /\ Live(w)
             /\ \E x \in Row : /\ x.life = "LIVE" /\ x.published = row[w].published
                               /\ x.draft = row[w].draft
                               /\ row' = [row EXCEPT ![w] = x]
<1> DEFINE w == req[q].day
           old == req[q].row
           s == IF req[q].status # old.status THEN req[q].status ELSE row[w].status
           x == [row[w] EXCEPT !.status = s, !.version = old.version + 1]
<1>1. w \in Workdays /\ Live(w)
  BY DEF StatusCommit, TypeInv, RequestsNamed
<1>2. row[w] \in Row /\ old \in Row /\ req[q].status \in WorkdayStatus
  BY <1>1 DEF TypeInv, TypeOK, Request
<1>3. s \in WorkdayStatus /\ old.version + 1 \in Nat /\ NoRev \in Pointer
  BY <1>2, RosterAssumption DEF Row, Pointer, NoRev
<1>4. x \in Row
  BY <1>2, <1>3, RowFields
<1>5. x.life = "LIVE" /\ x.published = row[w].published /\ x.draft = row[w].draft
  BY <1>1, <1>2 DEF Row, Live
<1>6. row' = [row EXCEPT ![w] = x]
  BY <1>1 DEF StatusCommit, TypeInv, TypeOK
<1> QED
  BY <1>1, <1>4, <1>5, <1>6

LEMMA CreateEffect ==
  ASSUME TypeInv, NEW w \in Workdays, NEW saved \in BOOLEAN,
         NEW c \in [Slots -> CellInput \cup {Absent}], NEW f \in Facts,
         CreateWorkday(w, saved, c, f)
  PROVE  /\ row[w].life = "ABSENT" /\ 1 \in Revs
         /\ \E x \in Row : /\ x.life = "LIVE" /\ x.published = NoRev /\ x.draft = 1
                           /\ row' = [row EXCEPT ![w] = x]
         /\ \E r \in Revision : /\ r.state = "DRAFT" /\ r.basedOn = NoRev
                                /\ rev' = [rev EXCEPT ![w][1] = r]
<1> DEFINE x == [NoRow("LIVE") EXCEPT !.version = IF saved THEN 2 ELSE 1, !.draft = 1]
           r == [NoRevision EXCEPT !.state = "DRAFT", !.crew = c, !.facts = f]
<1>1. row[w].life = "ABSENT" /\ 1 \in Revs /\ 1 \in Pointer
  BY RosterAssumption DEF CreateWorkday, Revs, Pointer
<1>2. c \in Crew
  BY NullTypes, CellInputType DEF Crew
<1>3. r \in Revision /\ r.state = "DRAFT" /\ r.basedOn = NoRev
  BY <1>2, NullTypes DEF Revision, NoRevision
<1>4. x \in Row /\ x.life = "LIVE" /\ x.published = NoRev /\ x.draft = 1
  <2>1. NoRow("LIVE") \in Row
    BY NullTypes
  <2>2. (IF saved THEN 2 ELSE 1) \in Nat
    OBVIOUS
  <2>3. x \in Row
    BY <1>1, <2>1, <2>2 DEF Row
  <2> QED
    BY <2>1, <2>3 DEF NoRow, Row
<1>5. row' = [row EXCEPT ![w] = x] /\ rev' = [rev EXCEPT ![w][1] = r]
  BY DEF CreateWorkday
<1> QED
  BY <1>1, <1>3, <1>4, <1>5

-----------------------------------------------------------------------------
(* Type correctness.                                                       *)

LEMMA TypeInit == Init => TypeInv
<1> SUFFICES ASSUME Init PROVE TypeInv
  OBVIOUS
<1>1. TypeOK
  <2>1. row \in [Workdays -> Row] /\ rev \in [Workdays -> [Revs -> Revision]]
    BY NullTypes DEF Init
  <2>2. issued \in [Workdays -> SUBSET Slots]
    BY DEF Init
  <2>3. app \in [Workdays -> [Revs -> [Slots -> [People -> Application]]]]
    BY NullTypes DEF Init
  <2>4. page \in [Managers -> Page] /\ req \in [Requests -> Request]
    BY NullTypes DEF Init
  <2> QED
    BY <2>1, <2>2, <2>3, <2>4 DEF TypeOK
<1>2. PagesNamed /\ RequestsNamed
  BY DEF Init, PagesNamed, RequestsNamed, NoPage, NoRequest
<1> QED
  BY <1>1, <1>2 DEF TypeInv

LEMMA SelectEffect ==
  ASSUME TypeInv, NEW m \in Managers, NEW p \in People, NEW s \in Slots,
         SelectApplication(m, p, s)
  PROVE  LET w == page[m].day
             d == row[w].draft
             r == [rev[w][d] EXCEPT !.crew[s] = Assigned(p)]
         IN  /\ w \in Workdays /\ d \in Revs /\ Live(w) /\ rev[w][d].state = "DRAFT"
             /\ r \in Revision /\ r.state = "DRAFT"
             /\ Touched(w) \in Row /\ Touched(w).draft = d
             /\ Touched(w).published = row[w].published
             /\ Touched(w).life = row[w].life
             /\ row' = [row EXCEPT ![w] = Touched(w)]
             /\ rev' = [rev EXCEPT ![w][d] = r]
<1> DEFINE w == page[m].day
           d == row[w].draft
           r == [rev[w][d] EXCEPT !.crew[s] = Assigned(p)]
<1>1. w \in Workdays /\ d \in Revs /\ row[w] \in Row /\ rev[w][d] \in Revision
      /\ rev[w][d].state = "DRAFT" /\ Live(w)
  BY LockedDraft DEF SelectApplication
<1>2. r \in Revision /\ r.state = "DRAFT"
  <2>1. [rev[w][d].crew EXCEPT ![s] = Assigned(p)] \in Crew
    BY <1>1 DEF Revision, Crew, Cell, Assigned, AssignmentStatus
  <2> QED
    BY <1>1, <2>1 DEF Revision
<1>3. /\ Touched(w) \in Row /\ Touched(w).draft = d
      /\ Touched(w).published = row[w].published /\ Touched(w).life = row[w].life
  BY <1>1 DEF Touched, Row
<1>4. row' = [row EXCEPT ![w] = Touched(w)] /\ rev' = [rev EXCEPT ![w][d] = r]
  BY DEF SelectApplication
<1> QED
  BY <1>1, <1>2, <1>3, <1>4

LEMMA SelectType ==
  ASSUME TypeInv, NEW m \in Managers, NEW p \in People, NEW s \in Slots,
         SelectApplication(m, p, s)
  PROVE  TypeInv'
<1> DEFINE w == page[m].day
           n == row[w].published
           d == row[w].draft
<1>1. w \in Workdays /\ d \in Revs /\ row' \in [Workdays -> Row]
  BY SelectEffect DEF TypeInv, TypeOK
<1>2. rev' \in [Workdays -> [Revs -> Revision]]
  <2>1. PICK r \in Revision : rev' = [rev EXCEPT ![w][d] = r]
    BY SelectEffect
  <2> QED
    BY <1>1, <2>1 DEF TypeInv, TypeOK
<1>3. app' \in [Workdays -> Applications]
  <2>1. n \in Revs
    <3>1. row[w] \in Row
      BY LockedDraft DEF SelectApplication
    <3>2. n \in Pointer /\ n # NoRev
      BY <3>1 DEF SelectApplication, Row
    <3> QED
      BY <3>2, RosterAssumption DEF Pointer, Revs, NoRev
  <2>2. [status |-> "SELECTED", draft |-> d] \in Application
    BY <1>1, RosterAssumption DEF Application, ApplicationStatus, Pointer, Revs
  <2>3. app' = [app EXCEPT ![w][n][s][p] = [status |-> "SELECTED", draft |-> d]]
    BY DEF SelectApplication
  <2> QED
    BY <1>1, <2>1, <2>2, <2>3, ApplicationUpdate
<1>4. page' \in [Managers -> Page] /\ PagesNamed'
  BY NullTypes, PageUpdate DEF SelectApplication, NoPage, TypeInv
<1> QED
  BY <1>1, <1>2, <1>3, <1>4
  DEF SelectApplication, TypeInv, TypeOK, Applications, RequestsNamed

LEMMA PublishType ==
  ASSUME TypeInv, NEW m \in Managers, Publish(m)
  PROVE  TypeInv'
<1> DEFINE w == page[m].day
           d == row[w].draft
           b == rev[w][d].basedOn
<1>1. w \in Workdays /\ d \in Revs /\ page[m].draft = d /\ row' \in [Workdays -> Row]
  BY PublishEffect DEF TypeInv, TypeOK
<1>2. rev' \in [Workdays -> [Revs -> Revision]]
  <2>1. PICK r \in Revision : rev' = [rev EXCEPT ![w][d] = r]
    BY PublishEffect
  <2> QED
    BY <1>1, <2>1 DEF TypeInv, TypeOK
<1>3. app' \in [Workdays -> Applications]
  <2>1. b = NoRev \/ b \in Revs
    BY <1>1, RosterAssumption DEF TypeInv, TypeOK, Revision, Pointer, Revs, NoRev
  <2>2. app[w] \in Applications
    BY <1>1 DEF TypeInv, TypeOK, Applications
  <2>3. (IF b = NoRev THEN app[w] ELSE Decided(w, d, b)) \in Applications
    BY <1>1, <2>1, <2>2, DecidedType DEF TypeInv
  <2>4. app' = [app EXCEPT ![w] = IF b = NoRev THEN app[w] ELSE Decided(w, d, b)]
    BY <1>1 DEF Publish, TypeInv, TypeOK
  <2> QED
    BY <1>1, <2>3, <2>4 DEF TypeInv, TypeOK, Applications
<1>4. page' \in [Managers -> Page] /\ PagesNamed'
  BY NullTypes, PageUpdate DEF Publish, NoPage, TypeInv
<1> QED
  BY <1>1, <1>2, <1>3, <1>4 DEF Publish, TypeInv, TypeOK, Applications, RequestsNamed

\* Each action of a Manager's page keeps the types.
LEMMA ManagerType ==
  ASSUME TypeInv, NEW m \in Managers, ManagerStep(m)
  PROVE  TypeInv'
<1> USE DEF TypeInv
<1>1. ASSUME NEW w \in Workdays, OpenDraft(m, w) PROVE TypeInv'
  <2>1. page' \in [Managers -> Page] /\ PagesNamed'
    BY <1>1, ShowingType, PageUpdate DEF OpenDraft
  <2> QED
    BY <1>1, <2>1 DEF OpenDraft, TypeOK, RequestsNamed
<1>2. ASSUME NEW w \in Workdays, OpenPublished(m, w) PROVE TypeInv'
  <2> DEFINE n == row[w].published
             f == rev[w][n].facts
  <2>1. CanClone(w) /\ Clone(w, f)
    BY <1>2 DEF OpenPublished
  <2>2. row[w] \in Row /\ f \in Facts
    BY <2>1, PublishedFacts
  <2>4. n + 1 \in Revs /\ row' \in [Workdays -> Row]
        /\ rev' \in [Workdays -> [Revs -> Revision]]
    BY <2>1, <2>2, CloneType
  <2>5. row[w].version + 1 \in Nat
    BY <2>2 DEF Row
  <2>6. page' \in [Managers -> Page] /\ PagesNamed'
    <3> DEFINE p == Loading(w, n + 1, row[w].version + 1)
    <3>1. p \in Page /\ p.day \in Workdays /\ p.draft \in Revs
      BY <2>4, <2>5, LoadingType
    <3>2. page' = [page EXCEPT ![m] = p]
      BY <1>2 DEF OpenPublished
    <3> HIDE DEF p
    <3> QED
      BY <3>1, <3>2, PageUpdate
  <2> QED
    BY <1>2, <2>4, <2>6 DEF OpenPublished, TypeOK, RequestsNamed
<1>3. ASSUME NEW w \in Workdays, OpenPreview(m, w) PROVE TypeInv'
  <2>1. row[w].draft \in Revs /\ row[w].version \in Nat
    BY <1>3, RosterAssumption DEF OpenPreview, TypeOK, Row, Pointer, Revs, NoRev
  <2>2. page' \in [Managers -> Page] /\ PagesNamed'
    BY <1>3, <2>1, LoadingType, PageUpdate DEF OpenPreview
  <2> QED
    BY <1>3, <2>2 DEF OpenPreview, TypeOK, RequestsNamed
<1>4. CASE RenderPage(m)
  <2> DEFINE shown == rev[page[m].day][page[m].draft]
             p == [page[m] EXCEPT !.stage = "SHOWN", !.crew = shown.crew,
                                  !.facts = shown.facts]
  <2>1. page[m].day \in Workdays /\ page[m].draft \in Revs /\ page[m] \in Page
    BY <1>4 DEF RenderPage, PagesNamed, TypeOK
  <2>2. shown.crew \in Crew /\ shown.facts \in Facts
    BY <2>1 DEF TypeOK, Revision
  <2>3. p \in Page /\ p.day \in Workdays /\ p.draft \in Revs
    BY <2>1, <2>2 DEF Page
  <2>4. page' = [page EXCEPT ![m] = p]
    BY <1>4 DEF RenderPage
  <2>5. page' \in [Managers -> Page] /\ PagesNamed'
    <3> HIDE DEF p
    <3> QED
      BY <2>3, <2>4, PageUpdate
  <2> QED
    BY <1>4, <2>5 DEF RenderPage, TypeOK, RequestsNamed
<1>5. CASE ClosePage(m)
  <2>1. page' \in [Managers -> Page] /\ PagesNamed'
    BY <1>5, NullTypes, PageUpdate DEF ClosePage, NoPage
  <2> QED
    BY <1>5, <2>1 DEF ClosePage, TypeOK, RequestsNamed
<1>6. ASSUME NEW f \in Facts, UpdateDetails(m, f) PROVE TypeInv'
  BY <1>6, LockedDraft, StoreType DEF UpdateDetails
<1>7. ASSUME NEW f \in Facts, NEW c \in [Slots -> CellInput \cup {Absent}],
             SaveDraft(m, c, f)
      PROVE  TypeInv'
  <2>1. c \in Crew
    BY NullTypes, CellInputType DEF Crew
  <2> QED
    BY <1>7, <2>1, StoreType DEF SaveDraft
<1>8. ASSUME NEW s \in Slots, NEW cell \in CellInput,
             AddAssignment(m, s, cell) \/ UpdateAssignment(m, s, cell)
      PROVE  TypeInv'
  <2> DEFINE c == [DraftOf(m).crew EXCEPT ![s] = cell]
  <2>1. Locked(m) /\ Store(m, c, DraftOf(m).facts)
    BY <1>8 DEF AddAssignment, UpdateAssignment
  <2>2. c \in Crew /\ DraftOf(m).facts \in Facts
    BY <2>1, LockedDraft, CellInputType DEF Crew
  <2> QED
    BY <2>1, <2>2, StoreType
<1>9. ASSUME NEW s \in Slots, RemoveAssignment(m, s) PROVE TypeInv'
  <2> DEFINE c == [DraftOf(m).crew EXCEPT ![s] = Absent]
  <2>1. Locked(m) /\ Store(m, c, DraftOf(m).facts)
    BY <1>9 DEF RemoveAssignment
  <2>2. c \in Crew /\ DraftOf(m).facts \in Facts
    BY <2>1, LockedDraft, NullTypes DEF Crew
  <2> QED
    BY <2>1, <2>2, StoreType
<1>10. ASSUME NEW s \in Slots, NEW p \in People, SelectApplication(m, p, s) PROVE TypeInv'
  BY <1>10, SelectType
<1>11. ASSUME NEW s \in Slots, NEW p \in People, SelectWithoutDraft(m, p, s) PROVE TypeInv'
  <2> DEFINE w == page[m].day
             f == rev[w][row[w].published].facts
  <2>1. w \in Workdays /\ CanClone(w) /\ Clone(w, f)
    BY <1>11 DEF SelectWithoutDraft, PagesNamed
  <2>2. f \in Facts
    BY <2>1, PublishedFacts
  <2>3. row' \in [Workdays -> Row] /\ rev' \in [Workdays -> [Revs -> Revision]]
    BY <2>1, <2>2, CloneType
  <2>4. page' \in [Managers -> Page] /\ PagesNamed'
    BY <1>11, NullTypes, PageUpdate DEF SelectWithoutDraft, NoPage
  <2> QED
    BY <1>11, <2>3, <2>4 DEF SelectWithoutDraft, TypeOK, RequestsNamed
<1>12. CASE Publish(m)
  BY <1>12, PublishType
<1> QED
  BY <1>1, <1>2, <1>3, <1>4, <1>5, <1>6, <1>7, <1>8, <1>9, <1>10, <1>11, <1>12
  DEF ManagerStep

\* Each action of an unlocked request keeps the types.
LEMMA RequestType ==
  ASSUME TypeInv, NEW q \in Requests, RequestStep(q)
  PROVE  TypeInv'
<1> USE DEF TypeInv
<1>1. ASSUME NEW w \in Workdays, NEW p \in People, DeclineRead(q, p, w) PROVE TypeInv'
  <2> DEFINE r == [NoRequest EXCEPT !.kind = "DECLINE", !.day = w, !.row = row[w],
                                    !.person = p]
  <2>1. row[w] \in Row /\ row[w].published \in Pointer /\ row[w].published # NoRev
    BY <1>1 DEF DeclineRead, TypeOK, Row
  <2>2. row[w].published \in Revs
    BY <2>1, RosterAssumption DEF Pointer, Revs, NoRev
  <2>3. /\ r \in Request /\ r.day = w /\ r.kind = "DECLINE" /\ r.person = p
        /\ r.row = row[w]
    BY <2>1, NullTypes DEF Request, NoRequest
  <2>4. req' = [req EXCEPT ![q] = r] /\ UNCHANGED <<row, rev, issued, app, page>>
    BY <1>1 DEF DeclineRead
  <2> HIDE DEF r
  <2> QED
    BY <2>2, <2>3, <2>4 DEF TypeOK, PagesNamed, RequestsNamed
<1>2. ASSUME NEW w \in Workdays, NEW s \in WorkdayStatus, StatusRead(q, w, s) PROVE TypeInv'
  <2> DEFINE r == [NoRequest EXCEPT !.kind = "STATUS", !.day = w, !.row = row[w],
                                    !.status = s]
  <2>1. r \in Request /\ r.day = w /\ r.kind = "STATUS"
    BY NullTypes DEF TypeOK, Request, NoRequest
  <2>2. req' = [req EXCEPT ![q] = r] /\ UNCHANGED <<row, rev, issued, app, page>>
    BY <1>2 DEF StatusRead
  <2> HIDE DEF r
  <2> QED
    BY <2>1, <2>2 DEF TypeOK, PagesNamed, RequestsNamed
<1>3. ASSUME req' = [req EXCEPT ![q] = NoRequest]
      PROVE  req' \in [Requests -> Request] /\ RequestsNamed'
  BY <1>3, NullTypes DEF TypeOK, RequestsNamed, NoRequest
<1>4. ASSUME NEW t \in Slots, NEW policy \in Policies, NEW n \in Revs,
             DeclineCommit(q, t, policy, n)
      PROVE  TypeInv'
  <2> DEFINE w == req[q].day
             o == req[q].row.published
             x == DeclinedRow(req[q].row, row[w], n)
             r == DeclinedRevision(w, o, t, policy)
  <2>1. /\ w \in Workdays /\ o \in Revs /\ x \in Row /\ r \in Revision
        /\ row' = [row EXCEPT ![w] = x]
        /\ rev' = [rev EXCEPT ![w][n] = r]
        /\ app' = [app EXCEPT ![w] = Carried(w, o, n, t)]
    BY <1>4, DeclineEffect
  <2>2. Carried(w, o, n, t) \in Applications
    BY <2>1, CarriedType
  <2>3. req' = [req EXCEPT ![q] = NoRequest] /\ UNCHANGED <<issued, page>>
    BY <1>4 DEF DeclineCommit
  <2> HIDE DEF x, r
  <2>4. app' \in [Workdays -> Applications]
    BY <2>1, <2>2 DEF TypeOK, Applications
  <2>5. row' \in [Workdays -> Row] /\ rev' \in [Workdays -> [Revs -> Revision]]
    BY <2>1 DEF TypeOK
  <2> QED
    BY <1>3, <2>3, <2>4, <2>5 DEF TypeOK, PagesNamed, Applications
<1>5. CASE StatusCommit(q)
  <2>1. row' \in [Workdays -> Row]
    <3>1. PICK x \in Row : row' = [row EXCEPT ![req[q].day] = x]
      BY <1>5, StatusEffect
    <3> QED
      BY <3>1 DEF TypeOK
  <2>2. req' = [req EXCEPT ![q] = NoRequest] /\ UNCHANGED <<rev, issued, app, page>>
    BY <1>5 DEF StatusCommit
  <2> QED
    BY <1>3, <2>1, <2>2 DEF TypeOK, PagesNamed
<1>6. CASE DropRequest(q)
  BY <1>3, <1>6 DEF DropRequest, TypeOK, PagesNamed
<1> QED
  BY <1>1, <1>2, <1>4, <1>5, <1>6 DEF RequestStep

\* Each action on a Workday as a whole keeps the types.
LEMMA WorkdayType ==
  ASSUME TypeInv, NEW w \in Workdays, WorkdayStep(w)
  PROVE  TypeInv'
<1> USE DEF TypeInv
<1>1. ASSUME NEW saved \in BOOLEAN, NEW c \in [Slots -> CellInput \cup {Absent}],
             NEW f \in Facts, CreateWorkday(w, saved, c, f)
      PROVE  TypeInv'
  <2>1. PICK x \in Row, r \in Revision :
          row' = [row EXCEPT ![w] = x] /\ rev' = [rev EXCEPT ![w][1] = r]
    BY <1>1, CreateEffect
  <2>2. 1 \in Revs
    BY <1>1, CreateEffect
  <2>3. row' \in [Workdays -> Row] /\ rev' \in [Workdays -> [Revs -> Revision]]
    BY <2>1, <2>2 DEF TypeOK
  <2>4. issued' = [issued EXCEPT ![w] = Present(c)] /\ UNCHANGED <<app, page, req>>
    BY <1>1 DEF CreateWorkday
  <2>5. issued' \in [Workdays -> SUBSET Slots]
    BY <2>4 DEF Present, TypeOK
  <2> QED
    BY <2>3, <2>4, <2>5 DEF TypeOK, PagesNamed, RequestsNamed
<1>2. CASE DeleteWorkday(w)
  <2>1. row' = [row EXCEPT ![w] = NoRow("DELETED")]
        /\ rev' = [rev EXCEPT ![w] = [n \in Revs |-> NoRevision]]
        /\ UNCHANGED <<issued, app, page, req>>
    BY <1>2 DEF DeleteWorkday
  <2>2. row' \in [Workdays -> Row] /\ rev' \in [Workdays -> [Revs -> Revision]]
    BY <2>1, NullTypes DEF TypeOK
  <2> QED
    BY <2>1, <2>2 DEF TypeOK, PagesNamed, RequestsNamed
<1>3. ASSUME NEW f \in Facts, ApplyProgramme(w, f) PROVE TypeInv'
  <2>1. row' \in [Workdays -> Row] /\ rev' \in [Workdays -> [Revs -> Revision]]
    <3>1. CASE CanClone(w) /\ Clone(w, f)
      BY <3>1, CloneType
    <3>2. CASE row[w].draft # NoRev /\ rev' = [rev EXCEPT ![w][row[w].draft].facts = f]
               /\ UNCHANGED row
      <4> DEFINE d == row[w].draft
                 r == [rev[w][d] EXCEPT !.facts = f]
      <4>1. row[w] \in Row
        BY DEF TypeOK
      <4>2. d \in Revs
        <5>1. d \in Pointer
          BY <4>1 DEF Row
        <5> QED
          BY <3>2, <5>1, RosterAssumption DEF Pointer, Revs, NoRev
      <4>3. r \in Revision
        <5>1. rev[w][d] \in Revision
          BY <4>2 DEF TypeOK
        <5> QED
          BY <5>1 DEF Revision
      <4>4. rev' = [rev EXCEPT ![w][d] = r]
        BY <3>2
      <4> HIDE DEF r
      <4> QED
        BY <3>2, <4>2, <4>3, <4>4 DEF TypeOK
    <3> QED
      BY <1>3, <3>1, <3>2 DEF ApplyProgramme
  <2> QED
    BY <1>3, <2>1 DEF ApplyProgramme, TypeOK, PagesNamed, RequestsNamed
<1>4. ASSUME NEW v \in Workdays, Reschedule(w, v) PROVE TypeInv'
  <2> DEFINE x == [row[w] EXCEPT !.draft = NoRev, !.status = "ABANDONED", !.version = @ + 1]
             y == ReplacementRow(w)
             r == ClonedPublication(w)
  <2>1. /\ x \in Row /\ y \in Row /\ r \in Revision
        /\ row' = [row EXCEPT ![w] = x, ![v] = y]
        /\ rev' = [rev EXCEPT ![v][1] = r]
    BY <1>4, RescheduleEffect
  <2>2. 1 \in Revs
    BY <1>4, RescheduleEffect
  <2> HIDE DEF x, y, r
  <2>3. row' \in [Workdays -> Row] /\ rev' \in [Workdays -> [Revs -> Revision]]
    BY <2>1, <2>2 DEF TypeOK
  <2>4. issued' \in [Workdays -> SUBSET Slots]
    BY <1>4 DEF Reschedule, Present, TypeOK
  <2> QED
    BY <1>4, <2>3, <2>4 DEF Reschedule, TypeOK, PagesNamed, RequestsNamed
<1>5. ASSUME NEW p \in People, NEW s \in Slots, ApplyForPosition(p, w, s) PROVE TypeInv'
  <2> DEFINE n == row[w].published
             a == [status |-> "APPLIED", draft |-> NoRev]
  <2>1. n \in Pointer /\ n # NoRev
    BY <1>5 DEF ApplyForPosition, TypeOK, Row
  <2>2. n \in Revs
    BY <2>1, RosterAssumption DEF Pointer, Revs, NoRev
  <2>3. a \in Application
    BY RosterAssumption DEF Application, ApplicationStatus, NoRev, Pointer
  <2>4. app' = [app EXCEPT ![w][n][s][p] = a] /\ UNCHANGED <<row, rev, issued, page, req>>
    BY <1>5 DEF ApplyForPosition
  <2>5. app' \in [Workdays -> Applications]
    BY <2>2, <2>3, <2>4, ApplicationUpdate
  <2> QED
    BY <2>4, <2>5 DEF TypeOK, PagesNamed, RequestsNamed, Applications
<1> QED
  BY <1>1, <1>2, <1>3, <1>4, <1>5 DEF WorkdayStep

LEMMA TypeStep == TypeInv /\ [Next]_vars => TypeInv'
<1> SUFFICES ASSUME TypeInv, [Next]_vars PROVE TypeInv'
  OBVIOUS
<1>1. CASE Next
  BY <1>1, ManagerType, RequestType, WorkdayType DEF Next
<1>2. CASE UNCHANGED vars
  BY <1>2 DEF vars, TypeInv, TypeOK, PagesNamed, RequestsNamed
<1> QED
  BY <1>1, <1>2

\* Every reachable state is well typed, whatever requests overlap.
THEOREM TypeCorrect == Spec => []TypeOK
<1>1. TypeInv => TypeOK
  BY DEF TypeInv
<1> QED
  BY <1>1, TypeInit, TypeStep, PTL DEF Spec

-----------------------------------------------------------------------------
(* Publications are immutable.                                             *)

\* What one step leaves alone: every publication, as a whole.
PublicationsKept ==
  \A w \in Workdays, n \in Revs :
    rev[w][n].state = "PUBLISHED" => rev'[w][n] = rev[w][n]

\* Writing one revision that is no publication keeps the publications.
LEMMA OneRevision ==
  ASSUME TypeInv, NEW w \in Workdays, NEW n \in Revs, NEW r \in Revision,
         rev[w][n].state # "PUBLISHED", rev' = [rev EXCEPT ![w][n] = r]
  PROVE  PublicationsKept
BY DEF PublicationsKept, TypeInv, TypeOK

\* An absent Workday has no revision 1.
LEMMA AbsentHasNone ==
  ASSUME TypeInv, PointersSound, NEW w \in Workdays, row[w].life # "LIVE",
         NEW n \in Revs
  PROVE  rev[w][n].state = "NONE"
BY DEF PointersSound, Live, Exists

\* The draft of a Workday is a revision in state DRAFT.
LEMMA DraftIsDraft ==
  ASSUME TypeInv, PointersSound, NEW w \in Workdays, row[w].draft # NoRev
  PROVE  row[w].draft \in Revs /\ rev[w][row[w].draft].state = "DRAFT"
<1>1. row[w] \in Row
  BY DEF TypeInv, TypeOK
<1>2. row[w].draft \in Pointer
  BY <1>1 DEF Row
<1>3. row[w].draft \in Revs
  BY <1>2, RosterAssumption DEF Pointer, Revs, NoRev
<1> QED
  BY <1>3 DEF PointersSound

LEMMA ManagerKeeps ==
  ASSUME Inv, NEW m \in Managers, ManagerStep(m)
  PROVE  PublicationsKept
<1> USE DEF Inv
<1>1. CASE UNCHANGED rev
  BY <1>1 DEF PublicationsKept
<1>2. ASSUME NEW w \in Workdays, CanClone(w), Clone(w, rev[w][row[w].published].facts)
      PROVE  PublicationsKept
  <2> DEFINE n == row[w].published
             f == rev[w][n].facts
             r == [CloneOf(w, n) EXCEPT !.facts = f]
  <2>1. f \in Facts
    BY <1>2, PublishedFacts DEF TypeInv
  <2>2. n + 1 \in Revs /\ r \in Revision /\ rev[w][n + 1].state = "NONE"
        /\ rev' = [rev EXCEPT ![w][n + 1] = r]
    BY <1>2, <2>1, CloneEffect DEF TypeInv
  <2> HIDE DEF r
  <2> QED
    BY <2>2, OneRevision
<1>3. ASSUME NEW c \in Crew, NEW f \in Facts, Locked(m), Store(m, c, f)
      PROVE  PublicationsKept
  <2> DEFINE w == page[m].day
             d == row[w].draft
  <2>1. w \in Workdays /\ d \in Revs /\ rev[w][d].state = "DRAFT"
    BY <1>3, LockedDraft
  <2>2. PICK r \in Revision : rev' = [rev EXCEPT ![w][d] = r]
    BY <1>3, StoreEffect
  <2> QED
    BY <2>1, <2>2, OneRevision
<1>4. ASSUME NEW c \in Crew, NEW f \in Facts, SaveDraft(m, c, f) \/ UpdateDetails(m, f)
      PROVE  PublicationsKept
  BY <1>3, <1>4, LockedDraft DEF SaveDraft, UpdateDetails
<1>5. ASSUME NEW s \in Slots, NEW cell \in CellInput \cup {Absent},
             \/ AddAssignment(m, s, cell) \/ UpdateAssignment(m, s, cell)
             \/ RemoveAssignment(m, s)
      PROVE  PublicationsKept
  <2>1. Locked(m)
    BY <1>5 DEF AddAssignment, UpdateAssignment, RemoveAssignment
  <2>2. /\ DraftOf(m).crew \in Crew /\ DraftOf(m).facts \in Facts
        /\ \A x \in Cell : [DraftOf(m).crew EXCEPT ![s] = x] \in Crew
    BY <2>1, LockedDraft DEF Crew
  <2>3. cell \in Cell /\ Absent \in Cell
    BY NullTypes, CellInputType
  <2> QED
    BY <1>3, <1>5, <2>2, <2>3 DEF AddAssignment, UpdateAssignment, RemoveAssignment
<1>6. ASSUME NEW p \in People, NEW s \in Slots, SelectApplication(m, p, s)
      PROVE  PublicationsKept
  <2> DEFINE w == page[m].day
             d == row[w].draft
  <2>1. w \in Workdays /\ d \in Revs /\ rev[w][d].state = "DRAFT"
    BY <1>6, SelectEffect
  <2>2. PICK r \in Revision : rev' = [rev EXCEPT ![w][d] = r]
    BY <1>6, SelectEffect
  <2> QED
    BY <2>1, <2>2, OneRevision
<1>7. CASE Publish(m)
  <2> DEFINE w == page[m].day
             d == row[w].draft
             r == [rev[w][d] EXCEPT !.state = "PUBLISHED"]
  <2>1. w \in Workdays /\ d \in Revs /\ rev[w][d].state = "DRAFT"
        /\ r \in Revision /\ rev' = [rev EXCEPT ![w][d] = r]
    BY <1>7, PublishEffect
  <2> HIDE DEF r
  <2> QED
    BY <2>1, OneRevision
<1>8. \A f \in Facts, c \in [Slots -> CellInput \cup {Absent}] : c \in Crew
  BY NullTypes, CellInputType DEF Crew
<1>9. ASSUME NEW w \in Workdays, OpenDraft(m, w) \/ OpenPreview(m, w)
      PROVE  PublicationsKept
  BY <1>1, <1>9 DEF OpenDraft, OpenPreview
<1>10. CASE RenderPage(m) \/ ClosePage(m)
  BY <1>1, <1>10 DEF RenderPage, ClosePage
<1>11. ASSUME NEW w \in Workdays, OpenPublished(m, w) PROVE PublicationsKept
  BY <1>2, <1>11 DEF OpenPublished
<1>12. ASSUME NEW p \in People, NEW s \in Slots, SelectWithoutDraft(m, p, s)
       PROVE  PublicationsKept
  BY <1>2, <1>12 DEF SelectWithoutDraft, TypeInv, PagesNamed
<1> QED
  BY <1>4, <1>5, <1>6, <1>7, <1>8, <1>9, <1>10, <1>11, <1>12, NullTypes DEF ManagerStep

LEMMA RequestKeeps ==
  ASSUME Inv, NEW q \in Requests, RequestStep(q)
  PROVE  PublicationsKept
<1> USE DEF Inv
<1>1. ASSUME NEW t \in Slots, NEW policy \in Policies, NEW n \in Revs,
             DeclineCommit(q, t, policy, n)
      PROVE  PublicationsKept
  <2> DEFINE w == req[q].day
             r == DeclinedRevision(w, req[q].row.published, t, policy)
  <2>1. /\ w \in Workdays /\ rev[w][n].state = "NONE" /\ r \in Revision
        /\ rev' = [rev EXCEPT ![w][n] = r]
    BY <1>1, DeclineEffect
  <2> HIDE DEF r
  <2> QED
    BY <2>1, OneRevision
<1>2. ASSUME UNCHANGED rev PROVE PublicationsKept
  BY <1>2 DEF PublicationsKept
<1> QED
  BY <1>1, <1>2 DEF RequestStep, DeclineRead, StatusRead, StatusCommit, DropRequest

LEMMA WorkdayKeeps ==
  ASSUME Inv, NEW w \in Workdays, WorkdayStep(w)
  PROVE  PublicationsKept
<1> USE DEF Inv
<1>1. ASSUME NEW saved \in BOOLEAN, NEW c \in [Slots -> CellInput \cup {Absent}],
             NEW f \in Facts, CreateWorkday(w, saved, c, f)
      PROVE  PublicationsKept
  <2>1. row[w].life # "LIVE" /\ 1 \in Revs
        /\ \E r \in Revision : rev' = [rev EXCEPT ![w][1] = r]
    BY <1>1, CreateEffect
  <2> QED
    BY <2>1, AbsentHasNone, OneRevision
<1>2. CASE DeleteWorkday(w)
  BY <1>2 DEF DeleteWorkday, PublicationsKept, TypeInv, TypeOK
<1>3. ASSUME NEW f \in Facts, ApplyProgramme(w, f) PROVE PublicationsKept
  <2>1. CASE CanClone(w) /\ Clone(w, f)
    <3> DEFINE n == row[w].published
               r == [CloneOf(w, n) EXCEPT !.facts = f]
    <3>1. n + 1 \in Revs /\ r \in Revision /\ rev[w][n + 1].state = "NONE"
          /\ rev' = [rev EXCEPT ![w][n + 1] = r]
      BY <2>1, CloneEffect DEF TypeInv
    <3> HIDE DEF r
    <3> QED
      BY <3>1, OneRevision
  <2>2. CASE row[w].draft # NoRev /\ rev' = [rev EXCEPT ![w][row[w].draft].facts = f]
    <3> DEFINE d == row[w].draft
               r == [rev[w][d] EXCEPT !.facts = f]
    <3>1. d \in Revs /\ rev[w][d].state = "DRAFT"
      BY <2>2, DraftIsDraft
    <3>2. rev[w][d] \in Revision
      BY <3>1 DEF TypeInv, TypeOK
    <3>3. r \in Revision /\ rev' = [rev EXCEPT ![w][d] = r]
      BY <2>2, <3>2 DEF Revision
    <3> HIDE DEF r
    <3> QED
      BY <3>1, <3>3, OneRevision
  <2> QED
    BY <1>3, <2>1, <2>2 DEF ApplyProgramme
<1>4. ASSUME NEW v \in Workdays, Reschedule(w, v) PROVE PublicationsKept
  <2> DEFINE r == ClonedPublication(w)
  <2>1. row[v].life # "LIVE" /\ 1 \in Revs /\ r \in Revision
        /\ rev' = [rev EXCEPT ![v][1] = r]
    BY <1>4, RescheduleEffect
  <2> HIDE DEF r
  <2> QED
    BY <2>1, AbsentHasNone, OneRevision
<1>5. ASSUME UNCHANGED rev PROVE PublicationsKept
  BY <1>5 DEF PublicationsKept
<1> QED
  BY <1>1, <1>2, <1>3, <1>4, <1>5 DEF WorkdayStep, ApplyForPosition

LEMMA KeepStep == Inv /\ [Next]_vars => PublicationsKept
<1> SUFFICES ASSUME Inv, [Next]_vars PROVE PublicationsKept
  OBVIOUS
<1>1. CASE Next
  BY <1>1, ManagerKeeps, RequestKeeps, WorkdayKeeps DEF Next
<1>2. CASE UNCHANGED vars
  BY <1>2 DEF vars, PublicationsKept
<1> QED
  BY <1>1, <1>2

-----------------------------------------------------------------------------
(* The current pointers name revisions in the right state.                 *)

PointsAt(x, w, n, r) ==
  /\ x.published # NoRev =>
       IF x.published = n THEN r.state = "PUBLISHED"
       ELSE rev[w][x.published].state = "PUBLISHED"
  /\ x.draft # NoRev =>
       IF x.draft = n THEN r.state = "DRAFT"
       ELSE rev[w][x.draft].state = "DRAFT"
  /\ x.published # NoRev \/ x.draft # NoRev

\* Row x and revision n = r are written together; x points into the result.
LEMMA PointersAfter ==
  ASSUME TypeInv, PointersSound, NEW w \in Workdays, NEW x \in Row,
         NEW n \in Revs, NEW r \in Revision,
         x.life = "LIVE", PointsAt(x, w, n, r),
         row' = [row EXCEPT ![w] = x], rev' = [rev EXCEPT ![w][n] = r]
  PROVE  PointersSound'
<1>1. x.published \in Pointer /\ x.draft \in Pointer
  BY DEF Row
<1>2. \A k \in Pointer : k # NoRev => k \in Revs
  BY RosterAssumption DEF Pointer, Revs, NoRev
<1>3. row'[w] = x /\ \A k \in Revs : rev'[w][k] = IF k = n THEN r ELSE rev[w][k]
  BY DEF TypeInv, TypeOK
<1>4. \A v \in Workdays \ {w} : row'[v] = row[v] /\ rev'[v] = rev[v]
  BY DEF TypeInv, TypeOK
<1> QED
  BY <1>1, <1>2, <1>3, <1>4 DEF PointersSound, PointsAt, Live, Exists

\* The pointers of a live Workday, for use in the steps below.
LEMMA LivePointers ==
  ASSUME TypeInv, PointersSound, NEW w \in Workdays, Live(w)
  PROVE  /\ row[w] \in Row
         /\ row[w].published # NoRev => rev[w][row[w].published].state = "PUBLISHED"
         /\ row[w].draft # NoRev => rev[w][row[w].draft].state = "DRAFT"
         /\ row[w].published # NoRev \/ row[w].draft # NoRev
BY DEF PointersSound, TypeInv, TypeOK

LEMMA ClonePoints ==
  ASSUME TypeInv, PointersSound, NEW w \in Workdays, NEW f \in Facts,
         Live(w), CanClone(w), Clone(w, f)
  PROVE  PointersSound'
<1> DEFINE n == row[w].published
           d == n + 1
           r == [CloneOf(w, n) EXCEPT !.facts = f]
           x == [row[w] EXCEPT !.draft = d, !.version = @ + 1]
<1>1. /\ n \in Revs /\ d \in Revs /\ r \in Revision /\ x \in Row
      /\ r.state = "DRAFT"
      /\ row' = [row EXCEPT ![w] = x] /\ rev' = [rev EXCEPT ![w][d] = r]
  BY CloneEffect DEF TypeInv
<1>2. row[w] \in Row /\ row[w].life = "LIVE" /\ rev[w][n].state = "PUBLISHED"
  BY LivePointers DEF CanClone, Live
<1>3. x.life = "LIVE" /\ x.published = n /\ x.draft = d
  BY <1>2 DEF Row
<1>4. n # d /\ n # NoRev
  BY <1>1 DEF Revs, NoRev
<1> HIDE DEF x, r, d, n
<1>5. PointsAt(x, w, d, r)
  BY <1>1, <1>2, <1>3, <1>4 DEF PointsAt
<1> QED
  BY <1>1, <1>3, <1>5, PointersAfter

LEMMA StorePoints ==
  ASSUME TypeInv, PointersSound, NEW m \in Managers, NEW r \in Revision,
         r.state = "DRAFT", Locked(m),
         row' = [row EXCEPT ![page[m].day] = Touched(page[m].day)],
         rev' = [rev EXCEPT ![page[m].day][row[page[m].day].draft] = r]
  PROVE  PointersSound'
<1> DEFINE w == page[m].day
           d == row[w].draft
           x == Touched(w)
<1>1. w \in Workdays /\ d \in Revs /\ row[w] \in Row /\ Live(w)
  BY LockedDraft
<1>2. x \in Row /\ x.life = "LIVE" /\ x.published = row[w].published /\ x.draft = d
  BY <1>1 DEF Touched, Row, Live
<1>3. /\ row[w].published # NoRev => rev[w][row[w].published].state = "PUBLISHED"
      /\ rev[w][d].state = "DRAFT"
  BY <1>1, LockedDraft, LivePointers
<1>4. d # NoRev
  BY <1>1 DEF Revs, NoRev
<1>5. PointsAt(x, w, d, r)
  BY <1>2, <1>3, <1>4 DEF PointsAt
<1>6. row' = [row EXCEPT ![w] = x] /\ rev' = [rev EXCEPT ![w][d] = r]
  OBVIOUS
<1> HIDE DEF x, d, w
<1> QED
  BY <1>1, <1>2, <1>5, <1>6, PointersAfter

LEMMA ManagerPoints ==
  ASSUME Inv, NEW m \in Managers, ManagerStep(m)
  PROVE  PointersSound'
<1> USE DEF Inv
<1>1. ASSUME UNCHANGED <<row, rev>> PROVE PointersSound'
  BY <1>1 DEF PointersSound, Live, Exists
<1>2. ASSUME NEW w \in Workdays, Live(w), CanClone(w),
             Clone(w, rev[w][row[w].published].facts)
      PROVE  PointersSound'
  BY <1>2, PublishedFacts, ClonePoints DEF TypeInv
<1>3. ASSUME NEW c \in Crew, NEW f \in Facts, Locked(m), Store(m, c, f)
      PROVE  PointersSound'
  BY <1>3, StoreEffect, StorePoints
<1>4. ASSUME NEW c \in Crew, NEW f \in Facts, SaveDraft(m, c, f) \/ UpdateDetails(m, f)
      PROVE  PointersSound'
  BY <1>3, <1>4, LockedDraft DEF SaveDraft, UpdateDetails
<1>5. ASSUME NEW s \in Slots, NEW cell \in CellInput \cup {Absent},
             \/ AddAssignment(m, s, cell) \/ UpdateAssignment(m, s, cell)
             \/ RemoveAssignment(m, s)
      PROVE  PointersSound'
  <2>1. Locked(m)
    BY <1>5 DEF AddAssignment, UpdateAssignment, RemoveAssignment
  <2>2. /\ DraftOf(m).crew \in Crew /\ DraftOf(m).facts \in Facts
        /\ \A x \in Cell : [DraftOf(m).crew EXCEPT ![s] = x] \in Crew
    BY <2>1, LockedDraft DEF Crew
  <2>3. cell \in Cell /\ Absent \in Cell
    BY NullTypes, CellInputType
  <2>4. PICK c \in Crew : Store(m, c, DraftOf(m).facts)
    BY <1>5, <2>2, <2>3 DEF AddAssignment, UpdateAssignment, RemoveAssignment
  <2> QED
    BY <1>3, <2>1, <2>2, <2>4
<1>6. ASSUME NEW p \in People, NEW s \in Slots, SelectApplication(m, p, s)
      PROVE  PointersSound'
  <2> DEFINE w == page[m].day
  <2>1. PICK r \in Revision : r.state = "DRAFT" /\ rev' = [rev EXCEPT ![w][row[w].draft] = r]
    BY <1>6, SelectEffect
  <2>2. Locked(m) /\ row' = [row EXCEPT ![w] = Touched(w)]
    BY <1>6 DEF SelectApplication
  <2> QED
    BY <2>1, <2>2, StorePoints
<1>7. CASE Publish(m)
  <2> DEFINE w == page[m].day
             d == row[w].draft
             r == [rev[w][d] EXCEPT !.state = "PUBLISHED"]
             x == PublishedRow(w, d)
  <2>1. /\ w \in Workdays /\ d \in Revs /\ r \in Revision /\ r.state = "PUBLISHED"
        /\ x \in Row /\ x.published = d /\ x.draft = NoRev /\ x.life = "LIVE"
        /\ row' = [row EXCEPT ![w] = x] /\ rev' = [rev EXCEPT ![w][d] = r]
    BY <1>7, PublishEffect
  <2> HIDE DEF x, r, d, w
  <2>2. d # NoRev
    BY <2>1 DEF Revs, NoRev
  <2>3. PointsAt(x, w, d, r)
    BY <2>1, <2>2 DEF PointsAt
  <2> QED
    BY <2>1, <2>3, PointersAfter
<1>8. \A c \in [Slots -> CellInput \cup {Absent}] : c \in Crew
  BY NullTypes, CellInputType DEF Crew
<1>9. ASSUME NEW w \in Workdays, OpenDraft(m, w) \/ OpenPreview(m, w)
      PROVE  PointersSound'
  BY <1>1, <1>9 DEF OpenDraft, OpenPreview
<1>10. CASE RenderPage(m) \/ ClosePage(m)
  BY <1>1, <1>10 DEF RenderPage, ClosePage
<1>11. ASSUME NEW w \in Workdays, OpenPublished(m, w) PROVE PointersSound'
  BY <1>2, <1>11 DEF OpenPublished
<1>12. ASSUME NEW p \in People, NEW s \in Slots, SelectWithoutDraft(m, p, s)
       PROVE  PointersSound'
  BY <1>2, <1>12 DEF SelectWithoutDraft, TypeInv, PagesNamed
<1> QED
  BY <1>4, <1>5, <1>6, <1>7, <1>8, <1>9, <1>10, <1>11, <1>12, NullTypes DEF ManagerStep

LEMMA RequestPoints ==
  ASSUME Inv, NEW q \in Requests, RequestStep(q)
  PROVE  PointersSound'
<1> USE DEF Inv
<1>1. ASSUME UNCHANGED <<row, rev>> PROVE PointersSound'
  BY <1>1 DEF PointersSound, Live, Exists
<1>2. ASSUME NEW t \in Slots, NEW policy \in Policies, NEW n \in Revs,
             DeclineCommit(q, t, policy, n)
      PROVE  PointersSound'
  <2> DEFINE w == req[q].day
             o == req[q].row.published
             x == DeclinedRow(req[q].row, row[w], n)
             r == DeclinedRevision(w, o, t, policy)
  <2>1. /\ w \in Workdays /\ Live(w) /\ rev[w][n].state = "NONE"
        /\ req[q].kind = "DECLINE"
        /\ x \in Row /\ x.published = n /\ x.life = "LIVE"
        /\ x.draft \in {NoRev, row[w].draft}
        /\ r \in Revision /\ r.state = rev[w][o].state
        /\ row' = [row EXCEPT ![w] = x] /\ rev' = [rev EXCEPT ![w][n] = r]
    BY <1>2, DeclineEffect
  <2>2. r.state = "PUBLISHED"
    BY <2>1 DEF RequestsSound
  <2>3. row[w].draft # NoRev => rev[w][row[w].draft].state = "DRAFT"
    BY <2>1, LivePointers
  <2>4. n # NoRev
    BY DEF Revs, NoRev
  <2>5. PointsAt(x, w, n, r)
    <3> HIDE DEF x, r, w
    <3> QED
      BY <2>1, <2>2, <2>3, <2>4 DEF PointsAt
  <2> HIDE DEF x, r, w
  <2> QED
    BY <2>1, <2>5, PointersAfter
<1>3. CASE StatusCommit(q)
  <2> DEFINE w == req[q].day
  <2>1. w \in Workdays /\ Live(w)
    BY <1>3, StatusEffect
  <2>2. PICK x \in Row : /\ x.life = "LIVE" /\ x.published = row[w].published
                         /\ x.draft = row[w].draft
                         /\ row' = [row EXCEPT ![w] = x]
    BY <1>3, StatusEffect
  <2>3. rev' = rev
    BY <1>3 DEF StatusCommit
  <2> QED
    BY <2>1, <2>2, <2>3 DEF PointersSound, Live, Exists, TypeInv, TypeOK
<1> QED
  BY <1>1, <1>2, <1>3 DEF RequestStep, DeclineRead, StatusRead, DropRequest

LEMMA WorkdayPoints ==
  ASSUME Inv, NEW w \in Workdays, WorkdayStep(w)
  PROVE  PointersSound'
<1> USE DEF Inv
<1>1. ASSUME NEW saved \in BOOLEAN, NEW c \in [Slots -> CellInput \cup {Absent}],
             NEW f \in Facts, CreateWorkday(w, saved, c, f)
      PROVE  PointersSound'
  <2>1. PICK x \in Row : /\ x.life = "LIVE" /\ x.published = NoRev /\ x.draft = 1
                         /\ row' = [row EXCEPT ![w] = x]
    BY <1>1, CreateEffect
  <2>2. PICK r \in Revision : r.state = "DRAFT" /\ rev' = [rev EXCEPT ![w][1] = r]
    BY <1>1, CreateEffect
  <2>3. 1 \in Revs /\ PointsAt(x, w, 1, r)
    BY <1>1, <2>1, <2>2, CreateEffect DEF PointsAt, NoRev
  <2> QED
    BY <2>1, <2>2, <2>3, PointersAfter
<1>2. CASE DeleteWorkday(w)
  <2>1. /\ row' = [row EXCEPT ![w] = NoRow("DELETED")]
        /\ rev' = [rev EXCEPT ![w] = [n \in Revs |-> NoRevision]]
    BY <1>2 DEF DeleteWorkday
  <2>2. row'[w] = NoRow("DELETED") /\ rev'[w] = [n \in Revs |-> NoRevision]
    BY <2>1 DEF TypeInv, TypeOK
  <2>3. \A v \in Workdays \ {w} : row'[v] = row[v] /\ rev'[v] = rev[v]
    BY <2>1 DEF TypeInv, TypeOK
  <2> QED
    BY <2>2, <2>3 DEF PointersSound, Live, Exists, NoRow, NoRevision
<1>3. ASSUME NEW f \in Facts, ApplyProgramme(w, f) PROVE PointersSound'
  <2>1. CASE CanClone(w) /\ Clone(w, f)
    BY <1>3, <2>1, ClonePoints DEF ApplyProgramme
  <2>2. CASE row[w].draft # NoRev /\ UNCHANGED row
             /\ rev' = [rev EXCEPT ![w][row[w].draft].facts = f]
    <3> DEFINE d == row[w].draft
               r == [rev[w][d] EXCEPT !.facts = f]
    <3>1. Live(w)
      BY <1>3 DEF ApplyProgramme
    <3>2. d \in Revs /\ rev[w][d].state = "DRAFT"
      BY <2>2, DraftIsDraft
    <3>3. rev[w][d] \in Revision
      BY <3>2 DEF TypeInv, TypeOK
    <3>4. /\ r \in Revision /\ r.state = "DRAFT"
          /\ rev' = [rev EXCEPT ![w][d] = r]
      BY <2>2, <3>2, <3>3 DEF Revision
    <3>5. row[w] \in Row /\ row' = [row EXCEPT ![w] = row[w]]
      BY <2>2 DEF TypeInv, TypeOK
    <3> HIDE DEF r
    <3>6. row[w].life = "LIVE" /\ PointsAt(row[w], w, d, r)
      BY <3>1, <3>2, <3>4, LivePointers DEF PointsAt, Live
    <3> QED
      BY <3>2, <3>4, <3>5, <3>6, PointersAfter
  <2> QED
    BY <1>3, <2>1, <2>2 DEF ApplyProgramme
<1>4. ASSUME NEW v \in Workdays, Reschedule(w, v) PROVE PointersSound'
  <2> DEFINE n == row[w].published
             x == [row[w] EXCEPT !.draft = NoRev, !.status = "ABANDONED", !.version = @ + 1]
             y == ReplacementRow(w)
             r == ClonedPublication(w)
  <2>1. /\ v # w /\ Live(w) /\ n \in Revs /\ 1 \in Revs
        /\ x.draft = NoRev /\ x.published = n
        /\ r.state = rev[w][n].state
        /\ row' = [row EXCEPT ![w] = x, ![v] = y]
        /\ rev' = [rev EXCEPT ![v][1] = r]
    BY <1>4, RescheduleEffect
  <2>2. n # NoRev
    BY <2>1 DEF Revs, NoRev
  <2>3. rev[w][n].state = "PUBLISHED"
    BY <2>1, <2>2, LivePointers
  <2>4. y.published = 1 /\ y.draft = NoRev /\ y.life = "LIVE"
    BY DEF ReplacementRow, NoRow
  <2> HIDE DEF x, y, r, n
  <2>5. row'[w] = x /\ rev'[w] = rev[w]
    BY <2>1 DEF TypeInv, TypeOK
  <2>6. row'[v] = y /\ rev'[v][1] = r
    BY <2>1 DEF TypeInv, TypeOK
  <2>7. \A u \in Workdays \ {w, v} : row'[u] = row[u] /\ rev'[u] = rev[u]
    BY <2>1 DEF TypeInv, TypeOK
  <2>8. x.life = "LIVE"
    BY <1>4, RescheduleEffect DEF x
  <2>9. SUFFICES ASSUME NEW u \in Workdays
                 PROVE  /\ row'[u].published # NoRev =>
                             rev'[u][row'[u].published].state = "PUBLISHED"
                        /\ row'[u].draft # NoRev => rev'[u][row'[u].draft].state = "DRAFT"
                        /\ row'[u].life = "LIVE" =>
                             row'[u].published # NoRev \/ row'[u].draft # NoRev
                        /\ row'[u].life # "LIVE" => \A k \in Revs : rev'[u][k].state = "NONE"
    BY DEF PointersSound, Live, Exists
  <2>10. CASE u = w
    BY <2>1, <2>2, <2>3, <2>5, <2>8, <2>10
  <2>11. CASE u = v
    BY <2>1, <2>3, <2>4, <2>6, <2>11 DEF NoRev
  <2>12. CASE u \in Workdays \ {w, v}
    BY <2>7, <2>12 DEF PointersSound, Live, Exists
  <2> QED
    BY <2>10, <2>11, <2>12
<1>5. ASSUME NEW p \in People, NEW s \in Slots, ApplyForPosition(p, w, s)
      PROVE  PointersSound'
  BY <1>5 DEF ApplyForPosition, PointersSound, Live, Exists
<1> QED
  BY <1>1, <1>2, <1>3, <1>4, <1>5 DEF WorkdayStep

\* What a decline has read stays a publication: publications are kept.
LEMMA RequestsSoundStep ==
  ASSUME Inv, TypeInv', PublicationsKept, [Next]_vars
  PROVE  RequestsSound'
<1> SUFFICES ASSUME NEW q \in Requests, req'[q].kind = "DECLINE"
             PROVE  rev'[req'[q].day][req'[q].row.published].state = "PUBLISHED"
  BY DEF RequestsSound
<1>1. req'[q].day \in Workdays /\ req'[q].row.published \in Revs
  BY DEF TypeInv, RequestsNamed
<1>2. rev[req'[q].day][req'[q].row.published].state = "PUBLISHED"
  <2>1. CASE req'[q] = req[q]
    BY <2>1 DEF Inv, RequestsSound
  <2>2. CASE \E w \in Workdays, p \in People : DeclineRead(q, p, w)
    <3>1. PICK w \in Workdays, p \in People : DeclineRead(q, p, w)
      BY <2>2
    <3>2. req'[q] = [NoRequest EXCEPT !.kind = "DECLINE", !.day = w, !.row = row[w],
                                      !.person = p]
      BY <3>1 DEF DeclineRead, Inv, TypeInv, TypeOK
    <3>3. req'[q].day = w /\ req'[q].row = row[w]
      BY <3>2 DEF NoRequest
    <3> QED
      BY <3>1, <3>3 DEF DeclineRead, Inv, PointersSound
  <2>3. \/ req'[q] = req[q]
        \/ \E w \in Workdays, p \in People : DeclineRead(q, p, w)
    <3>1. CASE UNCHANGED req
      BY <3>1
    <3>2. ASSUME NEW k \in Requests, RequestStep(k)
          PROVE  \/ req'[q] = req[q]
                 \/ \E w \in Workdays, p \in People : DeclineRead(q, p, w)
      <4>1. k # q => req'[q] = req[q]
        BY <3>2
        DEF RequestStep, DeclineRead, StatusRead, DeclineCommit, StatusCommit, DropRequest,
            Inv, TypeInv, TypeOK
      <4>2. ASSUME NEW w \in Workdays, NEW s \in WorkdayStatus, StatusRead(q, w, s)
            PROVE  req'[q].kind = "STATUS"
        BY <4>2 DEF StatusRead, NoRequest, Inv, TypeInv, TypeOK
      <4>3. ASSUME req' = [req EXCEPT ![q] = NoRequest] PROVE req'[q].kind = "NONE"
        BY <4>3 DEF NoRequest, Inv, TypeInv, TypeOK
      <4> QED
        BY <3>2, <4>1, <4>2, <4>3
        DEF RequestStep, DeclineCommit, StatusCommit, DropRequest
    <3>3. ASSUME NEW m \in Managers, ManagerStep(m) PROVE UNCHANGED req
      BY <3>3
      DEF ManagerStep, OpenDraft, OpenPublished, OpenPreview, RenderPage, ClosePage,
          UpdateDetails, SaveDraft, AddAssignment, UpdateAssignment, RemoveAssignment,
          SelectApplication, SelectWithoutDraft, Publish, Store
    <3>4. ASSUME NEW w \in Workdays, WorkdayStep(w) PROVE UNCHANGED req
      BY <3>4
      DEF WorkdayStep, CreateWorkday, DeleteWorkday, ApplyProgramme, Reschedule,
          ApplyForPosition
    <3> QED
      BY <3>1, <3>2, <3>3, <3>4 DEF Next, vars
  <2> QED
    BY <2>1, <2>2, <2>3
<1> QED
  BY <1>1, <1>2 DEF PublicationsKept

LEMMA InvInit == Init => Inv
<1> SUFFICES ASSUME Init PROVE Inv
  OBVIOUS
<1>1. TypeInv
  BY TypeInit
<1>2. PointersSound
  BY DEF Init, PointersSound, NoRow, Live, Exists, NoRevision
<1>3. RequestsSound
  BY DEF Init, RequestsSound, NoRequest
<1> QED
  BY <1>1, <1>2, <1>3 DEF Inv

LEMMA InvStep == Inv /\ [Next]_vars => Inv'
<1> SUFFICES ASSUME Inv, [Next]_vars PROVE Inv'
  OBVIOUS
<1>1. TypeInv'
  BY TypeStep DEF Inv
<1>2. PointersSound'
  <2>1. CASE Next
    BY <2>1, ManagerPoints, RequestPoints, WorkdayPoints DEF Next
  <2>2. CASE UNCHANGED vars
    BY <2>2 DEF Inv, vars, PointersSound, Live, Exists
  <2> QED
    BY <2>1, <2>2
<1>3. RequestsSound'
  BY <1>1, KeepStep, RequestsSoundStep
<1> QED
  BY <1>1, <1>2, <1>3 DEF Inv

\* A Workday's current pointers always name a publication for crew and a draft
\* for Managers, and a Workday without either does not exist: for every number
\* of Workdays, pages and requests, and whatever requests overlap.
THEOREM PointersAlwaysSound == Spec => []PointersSound
<1>1. Inv => PointersSound
  BY DEF Inv
<1> QED
  BY <1>1, InvInit, InvStep, PTL DEF Spec

\* No step changes a published revision, its crew or its facts, even when a
\* decline commits on a row that other transactions have changed.
THEOREM PublishedNeverChanges == Spec => PublishedImmutable
<1>1. Inv /\ [Next]_vars =>
        [\A w \in Workdays, n \in Revs :
           rev[w][n].state = "PUBLISHED" => rev'[w][n] = rev[w][n]]_vars
  BY KeepStep DEF PublicationsKept
<1> QED
  BY <1>1, InvInit, InvStep, PTL DEF Spec, PublishedImmutable

-----------------------------------------------------------------------------
(* Applications, whatever requests overlap.  What is asserted of them      *)
(* needs two facts about the rosters they were made on: a person is in a   *)
(* slot only when the slot is ASSIGNED, and an application exists only on  *)
(* an OPEN slot of a publication.                                          *)

SoundCell == {x \in Cell : x.person # NoOne => x.status = "ASSIGNED"}
SoundCrew == [Slots -> SoundCell]
CrewsSound == \A w \in Workdays, n \in Revs : rev[w][n].crew \in SoundCrew

ApplicationsSound ==
  \A w \in Workdays, n \in Revs, s \in Slots, p \in People :
    app[w][n][s][p].status # "NONE" =>
      rev[w][n].state = "PUBLISHED" /\ rev[w][n].crew[s].status = "OPEN"

AppInv == Inv /\ CrewsSound /\ ApplicationsSound /\ AcceptedHoldsSlot

\* What a Manager's step does to the tables.
DraftStored(m) ==
  \E c \in Crew, f \in Facts :
    /\ Locked(m) /\ Store(m, c, f)
    /\ \A s \in Slots : c[s] \in CellInput \cup {Absent} \/ c[s] = DraftOf(m).crew[s]
DraftCloned == \E w \in Workdays, f \in Facts :
  Live(w) /\ CanClone(w) /\ Clone(w, f) /\ UNCHANGED app

LEMMA ManagerCases ==
  ASSUME TypeInv, NEW m \in Managers, ManagerStep(m)
  PROVE  \/ UNCHANGED <<row, rev, app>> \/ DraftCloned \/ DraftStored(m) \/ Publish(m)
         \/ \E p \in People, s \in Slots : SelectApplication(m, p, s)
<1> DEFINE Cases ==
             \/ UNCHANGED <<row, rev, app>> \/ DraftCloned \/ DraftStored(m) \/ Publish(m)
             \/ \E p \in People, s \in Slots : SelectApplication(m, p, s)
<1>1. ASSUME NEW w \in Workdays, OpenDraft(m, w) \/ OpenPreview(m, w) PROVE Cases
  BY <1>1 DEF OpenDraft, OpenPreview
<1>2. CASE RenderPage(m) \/ ClosePage(m)
  BY <1>2 DEF RenderPage, ClosePage
<1>3. ASSUME NEW w \in Workdays, Live(w), CanClone(w), UNCHANGED app,
             Clone(w, rev[w][row[w].published].facts)
      PROVE  Cases
  BY <1>3, PublishedFacts DEF DraftCloned, TypeInv
<1>4. ASSUME NEW w \in Workdays, OpenPublished(m, w) PROVE Cases
  BY <1>3, <1>4 DEF OpenPublished
<1>5. ASSUME NEW p \in People, NEW s \in Slots, SelectWithoutDraft(m, p, s) PROVE Cases
  BY <1>3, <1>5 DEF SelectWithoutDraft, TypeInv, PagesNamed
<1>6. ASSUME NEW f \in Facts, UpdateDetails(m, f) PROVE Cases
  BY <1>6, LockedDraft DEF UpdateDetails, DraftStored
<1>7. ASSUME NEW f \in Facts, NEW c \in [Slots -> CellInput \cup {Absent}], SaveDraft(m, c, f)
      PROVE  Cases
  <2>1. c \in Crew /\ \A s \in Slots : c[s] \in CellInput \cup {Absent}
    BY NullTypes, CellInputType DEF Crew
  <2> QED
    BY <1>7, <2>1 DEF SaveDraft, DraftStored
<1>8. ASSUME NEW s \in Slots, NEW cell \in CellInput \cup {Absent},
             \/ AddAssignment(m, s, cell) \/ UpdateAssignment(m, s, cell)
             \/ RemoveAssignment(m, s)
      PROVE  Cases
  <2>1. Locked(m)
    BY <1>8 DEF AddAssignment, UpdateAssignment, RemoveAssignment
  <2>2. PICK x \in CellInput \cup {Absent} :
          Store(m, [DraftOf(m).crew EXCEPT ![s] = x], DraftOf(m).facts)
    BY <1>8 DEF AddAssignment, UpdateAssignment, RemoveAssignment
  <2>3. DraftOf(m).crew \in Crew /\ DraftOf(m).facts \in Facts /\ x \in Cell
    BY <2>1, LockedDraft, NullTypes, CellInputType
  <2> DEFINE c == [DraftOf(m).crew EXCEPT ![s] = x]
  <2>4. c \in Crew /\ \A t \in Slots : c[t] = x \/ c[t] = DraftOf(m).crew[t]
    BY <2>3 DEF Crew
  <2> QED
    BY <2>1, <2>2, <2>3, <2>4 DEF DraftStored
<1>9. CASE Publish(m) \/ \E p \in People, s \in Slots : SelectApplication(m, p, s)
  BY <1>9
<1> QED
  BY <1>1, <1>2, <1>4, <1>5, <1>6, <1>7, <1>8, <1>9 DEF ManagerStep

-----------------------------------------------------------------------------
(* Crews.                                                                  *)

LEMMA SoundCells ==
  /\ CellInput \cup {Absent} \subseteq SoundCell
  /\ \A p \in People : Assigned(p) \in SoundCell
  /\ \A policy \in Policies : Vacant(DeclinedStatus(policy)) \in SoundCell
<1>1. Absent \in SoundCell
  BY NullTypes DEF Absent, SoundCell
<1>2. \A p \in People : Assigned(p) \in SoundCell
  BY DEF Assigned, SoundCell, Cell, AssignmentStatus
<1>3. \A s \in AssignmentStatus : Vacant(s) \in SoundCell
  BY DEF Vacant, SoundCell, Cell
<1> QED
  BY <1>1, <1>2, <1>3, RosterAssumption DEF CellInput, DeclinedStatus, AssignmentStatus

LEMMA CrewWritten ==
  ASSUME TypeInv, CrewsSound, NEW w \in Workdays, NEW n \in Revs, NEW r,
         r.crew \in SoundCrew, rev' = [rev EXCEPT ![w][n] = r]
  PROVE  CrewsSound'
BY DEF CrewsSound, TypeInv, TypeOK

LEMMA CloneCrews ==
  ASSUME TypeInv, CrewsSound, NEW w \in Workdays, NEW f \in Facts, CanClone(w), Clone(w, f)
  PROVE  CrewsSound'
<1>1. PICK n \in Revs : n = row[w].published /\ n + 1 \in Revs
  BY CloneEffect DEF TypeInv
<1> DEFINE r == [CloneOf(w, n) EXCEPT !.facts = f]
<1>2. rev[w][n] \in Revision /\ rev[w][n].crew \in SoundCrew
  BY DEF TypeInv, TypeOK, CrewsSound
<1>3. r.crew \in SoundCrew
  BY <1>2 DEF CloneOf, Revision
<1>4. rev' = [rev EXCEPT ![w][n + 1] = r]
  BY <1>1 DEF Clone
<1> HIDE DEF r
<1> QED
  BY <1>1, <1>3, <1>4, CrewWritten

LEMMA ManagerCrews ==
  ASSUME TypeInv, CrewsSound, NEW m \in Managers, ManagerStep(m)
  PROVE  CrewsSound'
<1>1. CASE DraftStored(m)
  <2>1. PICK c \in Crew, f \in Facts :
          /\ Locked(m) /\ Store(m, c, f)
          /\ \A s \in Slots : c[s] \in CellInput \cup {Absent} \/ c[s] = DraftOf(m).crew[s]
    BY <1>1 DEF DraftStored
  <2>2. PICK w \in Workdays, d \in Revs : w = page[m].day /\ d = row[w].draft
    BY <2>1, LockedDraft
  <2>3. rev[w][d] \in Revision /\ rev[w][d].crew \in SoundCrew /\ DraftOf(m) = rev[w][d]
    BY <2>2 DEF TypeInv, TypeOK, CrewsSound, DraftOf
  <2>4. c \in SoundCrew
    BY <2>1, <2>3, SoundCells DEF SoundCrew, Crew
  <2> DEFINE r == [rev[w][d] EXCEPT !.crew = c, !.facts = f]
  <2>5. r.crew \in SoundCrew
    BY <2>3, <2>4 DEF Revision
  <2>6. rev' = [rev EXCEPT ![w][d] = r]
    BY <2>1, <2>2 DEF Store
  <2> HIDE DEF r
  <2> QED
    BY <2>5, <2>6, CrewWritten
<1>2. ASSUME NEW p \in People, NEW s \in Slots, SelectApplication(m, p, s) PROVE CrewsSound'
  <2>1. PICK w \in Workdays, d \in Revs : w = page[m].day /\ d = row[w].draft
    BY <1>2, LockedDraft DEF SelectApplication
  <2> DEFINE r == [rev[w][d] EXCEPT !.crew[s] = Assigned(p)]
  <2>2. rev[w][d] \in Revision /\ rev[w][d].crew \in SoundCrew
    BY DEF TypeInv, TypeOK, CrewsSound
  <2>3. [rev[w][d].crew EXCEPT ![s] = Assigned(p)] \in SoundCrew
    BY <2>2, SoundCells DEF SoundCrew
  <2>4. r.crew \in SoundCrew
    BY <2>2, <2>3 DEF Revision
  <2>5. rev' = [rev EXCEPT ![w][d] = r]
    BY <1>2, <2>1 DEF SelectApplication
  <2> HIDE DEF r
  <2> QED
    BY <2>4, <2>5, CrewWritten
<1>3. CASE Publish(m)
  <2>1. PICK w \in Workdays, d \in Revs : w = page[m].day /\ d = page[m].draft
    BY <1>3, PublishEffect
  <2> DEFINE r == [rev[w][d] EXCEPT !.state = "PUBLISHED"]
  <2>2. rev[w][d] \in Revision /\ rev[w][d].crew \in SoundCrew
    BY DEF TypeInv, TypeOK, CrewsSound
  <2>3. r.crew \in SoundCrew
    BY <2>2 DEF Revision
  <2>4. rev' = [rev EXCEPT ![w][d] = r]
    BY <1>3, <2>1 DEF Publish
  <2> HIDE DEF r
  <2> QED
    BY <2>3, <2>4, CrewWritten
<1>4. CASE UNCHANGED <<row, rev, app>>
  BY <1>4 DEF CrewsSound
<1> QED
  BY <1>1, <1>2, <1>3, <1>4, CloneCrews, ManagerCases DEF DraftCloned

LEMMA RequestCrews ==
  ASSUME TypeInv, CrewsSound, NEW q \in Requests, RequestStep(q)
  PROVE  CrewsSound'
<1>1. ASSUME NEW t \in Slots, NEW policy \in Policies, NEW n \in Revs,
             DeclineCommit(q, t, policy, n)
      PROVE  CrewsSound'
  <2>1. PICK w \in Workdays, o \in Revs : w = req[q].day /\ o = req[q].row.published
    BY <1>1, DeclineEffect
  <2> DEFINE r == DeclinedRevision(w, o, t, policy)
  <2>2. rev[w][o] \in Revision /\ rev[w][o].crew \in SoundCrew
    BY DEF TypeInv, TypeOK, CrewsSound
  <2>3. [rev[w][o].crew EXCEPT ![t] = Vacant(DeclinedStatus(policy))] \in SoundCrew
    BY <2>2, SoundCells DEF SoundCrew
  <2>4. r.crew \in SoundCrew
    BY <2>2, <2>3 DEF DeclinedRevision, Revision
  <2>5. rev' = [rev EXCEPT ![w][n] = r]
    BY <1>1, <2>1 DEF DeclineCommit
  <2> HIDE DEF r
  <2> QED
    BY <2>4, <2>5, CrewWritten
<1>2. ASSUME UNCHANGED rev PROVE CrewsSound'
  BY <1>2 DEF CrewsSound
<1> QED
  BY <1>1, <1>2 DEF RequestStep, DeclineRead, StatusRead, StatusCommit, DropRequest

LEMMA WorkdayCrews ==
  ASSUME TypeInv, CrewsSound, NEW w \in Workdays, WorkdayStep(w)
  PROVE  CrewsSound'
<1>0. row[w] \in Row
  BY DEF TypeInv, TypeOK
<1>1. ASSUME NEW saved \in BOOLEAN, NEW c \in [Slots -> CellInput \cup {Absent}],
             NEW f \in Facts, CreateWorkday(w, saved, c, f)
      PROVE  CrewsSound'
  <2> DEFINE r == [NoRevision EXCEPT !.state = "DRAFT", !.crew = c, !.facts = f]
  <2>1. c \in SoundCrew
    BY SoundCells DEF SoundCrew
  <2>2. r.crew \in SoundCrew
    BY <2>1 DEF NoRevision
  <2>3. 1 \in Revs /\ rev' = [rev EXCEPT ![w][1] = r]
    BY <1>1, CreateEffect DEF CreateWorkday
  <2> HIDE DEF r
  <2> QED
    BY <2>2, <2>3, CrewWritten
<1>2. CASE DeleteWorkday(w)
  <2>1. NoRevision.crew \in SoundCrew
    BY SoundCells DEF NoRevision, EmptyCrew, SoundCrew
  <2> QED
    BY <1>2, <2>1 DEF DeleteWorkday, CrewsSound, TypeInv, TypeOK
<1>3. ASSUME NEW f \in Facts, ApplyProgramme(w, f) PROVE CrewsSound'
  <2>1. CASE CanClone(w) /\ Clone(w, f)
    BY <2>1, CloneCrews
  <2>2. CASE row[w].draft # NoRev /\ rev' = [rev EXCEPT ![w][row[w].draft].facts = f]
    <3>1. PICK d \in Revs : d = row[w].draft
      BY <1>0, <2>2, RosterAssumption DEF Row, Pointer, Revs, NoRev
    <3> DEFINE r == [rev[w][d] EXCEPT !.facts = f]
    <3>2. rev[w][d] \in Revision /\ rev[w][d].crew \in SoundCrew
      BY DEF TypeInv, TypeOK, CrewsSound
    <3>3. r.crew \in SoundCrew
      BY <3>2 DEF Revision
    <3>4. rev' = [rev EXCEPT ![w][d] = r]
      BY <2>2, <3>1
    <3> HIDE DEF r
    <3> QED
      BY <3>3, <3>4, CrewWritten
  <2> QED
    BY <1>3, <2>1, <2>2 DEF ApplyProgramme
<1>4. ASSUME NEW v \in Workdays, Reschedule(w, v) PROVE CrewsSound'
  <2>1. PICK n \in Revs : n = row[w].published /\ 1 \in Revs
    BY <1>4, RescheduleEffect
  <2> DEFINE r == ClonedPublication(w)
  <2>2. rev[w][n] \in Revision /\ rev[w][n].crew \in SoundCrew
    BY DEF TypeInv, TypeOK, CrewsSound
  <2>3. r.crew \in SoundCrew
    BY <2>1, <2>2 DEF ClonedPublication, Revision
  <2>4. rev' = [rev EXCEPT ![v][1] = r]
    BY <1>4 DEF Reschedule
  <2> HIDE DEF r
  <2> QED
    BY <2>1, <2>3, <2>4, CrewWritten
<1>5. ASSUME UNCHANGED rev PROVE CrewsSound'
  BY <1>5 DEF CrewsSound
<1> QED
  BY <1>1, <1>2, <1>3, <1>4, <1>5 DEF WorkdayStep, ApplyForPosition

-----------------------------------------------------------------------------
(* Applications.                                                           *)

\* Publications stay, so what they say of applications that stay does.
LEMMA ApplicationsStay ==
  ASSUME ApplicationsSound, AcceptedHoldsSlot, PublicationsKept, UNCHANGED app
  PROVE  ApplicationsSound' /\ AcceptedHoldsSlot'
BY DEF ApplicationsSound, AcceptedHoldsSlot, PublicationsKept

\* One application of an open slot of a publication is made or selected.
LEMMA OneApplication ==
  ASSUME TypeInv, ApplicationsSound, AcceptedHoldsSlot, PublicationsKept,
         NEW w \in Workdays, NEW n \in Revs, NEW s \in Slots, NEW p \in People, NEW a,
         a.status # "ACCEPTED", app' = [app EXCEPT ![w][n][s][p] = a],
         rev[w][n].state = "PUBLISHED", rev[w][n].crew[s].status = "OPEN"
  PROVE  ApplicationsSound' /\ AcceptedHoldsSlot'
<1>1. \A v \in Workdays, k \in Revs, t \in Slots, o \in People :
        app'[v][k][t][o] = IF v = w /\ k = n /\ t = s /\ o = p THEN a ELSE app[v][k][t][o]
  BY DEF TypeInv, TypeOK
<1>2. ApplicationsSound'
  BY <1>1 DEF ApplicationsSound, PublicationsKept
<1>3. \A v \in Workdays, k \in Revs, t \in Slots, o \in People :
        app'[v][k][t][o].status = "ACCEPTED" => app[v][k][t][o].status = "ACCEPTED"
  BY <1>1
<1>4. AcceptedHoldsSlot'
  BY <1>3 DEF AcceptedHoldsSlot, PublicationsKept
<1> QED
  BY <1>2, <1>4

LEMMA DecidedAt ==
  ASSUME TypeInv, NEW w \in Workdays, NEW d \in Revs, NEW b \in Revs,
         NEW k \in Revs, NEW s \in Slots, NEW p \in People
  PROVE  /\ k # b => Decided(w, d, b)[k][s][p] = app[w][k][s][p]
         /\ app[w][b][s][p].status = "NONE" => Decided(w, d, b)[b][s][p].status = "NONE"
         /\ app[w][b][s][p].status # "NONE" =>
              /\ Decided(w, d, b)[b][s][p].status \in {"ACCEPTED", "NOT_SELECTED"}
              /\ Decided(w, d, b)[b][s][p].status = "ACCEPTED" =>
                   rev[w][d].crew[s].person = p
<1> DEFINE a == app[w][b][s][p]
<1>1. app[w] \in Applications
  BY DEF TypeInv, TypeOK, Applications
<1>2. k # b => Decided(w, d, b)[k][s][p] = app[w][k][s][p]
  BY <1>1 DEF Decided, Applications
<1>3. Decided(w, d, b)[b][s][p] =
        IF a.status = "NONE" THEN a
        ELSE [a EXCEPT !.status =
                IF Accepts(w, d, s, p, a) THEN "ACCEPTED" ELSE "NOT_SELECTED"]
  BY <1>1 DEF Decided, Applications
<1>4. a \in Application
  BY <1>1 DEF Applications
<1> QED
  BY <1>2, <1>3, <1>4 DEF Application, Accepts

LEMMA PublishApplications ==
  ASSUME AppInv, PublicationsKept, NEW m \in Managers, Publish(m)
  PROVE  ApplicationsSound' /\ AcceptedHoldsSlot'
<1>0. TypeInv /\ Inv
  BY DEF AppInv, Inv
<1>1. PICK w \in Workdays, d \in Revs :
        w = page[m].day /\ d = page[m].draft /\ d = row[w].draft /\ rev[w][d].state = "DRAFT"
  BY <1>0, PublishEffect
<1>2. PICK b \in Pointer : b = rev[w][d].basedOn
  BY <1>0 DEF TypeInv, TypeOK, Revision
<1>3. CASE b = NoRev
  <2>1. app' = app
    BY <1>0, <1>1, <1>2, <1>3 DEF Publish, TypeInv, TypeOK
  <2> QED
    BY <2>1, ApplicationsStay DEF AppInv
<1>4. CASE b # NoRev
  <2>1. b \in Revs
    BY <1>4, RosterAssumption DEF Pointer, Revs, NoRev
  <2>2. app' = [app EXCEPT ![w] = Decided(w, d, b)]
    BY <1>1, <1>2, <1>4 DEF Publish
  <2>3. \A v \in Workdays, k \in Revs, s \in Slots, p \in People :
          /\ v # w \/ k # b => app'[v][k][s][p] = app[v][k][s][p]
          /\ app[w][b][s][p].status = "NONE" => app'[w][b][s][p].status = "NONE"
          /\ app'[w][b][s][p].status = "ACCEPTED" => rev[w][d].crew[s].person = p
    <3>1. app \in [Workdays -> Applications]
      BY <1>0 DEF TypeInv, TypeOK, Applications
    <3>2. app'[w] = Decided(w, d, b) /\ \A v \in Workdays \ {w} : app'[v] = app[v]
      BY <2>2, <3>1
    <3> QED
      BY <1>0, <2>1, <3>2, DecidedAt
  <2>4. ApplicationsSound'
    BY <2>3 DEF AppInv, ApplicationsSound, PublicationsKept
  <2>5. /\ rev[w][d].crew \in SoundCrew
        /\ rev'[w][d].state = "PUBLISHED" /\ rev'[w][d].basedOn = b
        /\ rev'[w][d].crew = rev[w][d].crew
    <3>1. rev[w][d] \in Revision /\ rev[w][d].crew \in SoundCrew
      BY <1>0 DEF TypeInv, TypeOK, AppInv, CrewsSound
    <3>2. rev' = [rev EXCEPT ![w][d].state = "PUBLISHED"]
      BY <1>1 DEF Publish
    <3>3. rev'[w][d] = [rev[w][d] EXCEPT !.state = "PUBLISHED"]
      BY <1>0, <3>2 DEF TypeInv, TypeOK
    <3> QED
      BY <1>2, <3>1, <3>3 DEF Revision
  <2>6. ASSUME NEW s \in Slots, NEW p \in People, app'[w][b][s][p].status = "ACCEPTED"
        PROVE  /\ \E n \in Revs : /\ rev'[w][n].state = "PUBLISHED" /\ rev'[w][n].basedOn = b
                                  /\ rev'[w][n].crew[s] = Assigned(p)
               /\ \A o \in People \ {p} : app'[w][b][s][o].status # "ACCEPTED"
    <3>1. rev[w][d].crew[s].person = p
      BY <2>3, <2>6
    <3>2. rev[w][d].crew[s] = Assigned(p)
      BY <2>5, <3>1, RosterAssumption DEF SoundCrew, SoundCell, Cell, Assigned
    <3>3. \A o \in People \ {p} : app'[w][b][s][o].status # "ACCEPTED"
      BY <2>3, <3>1
    <3> QED
      BY <2>5, <3>2, <3>3
  <2>7. AcceptedHoldsSlot'
    <3> SUFFICES ASSUME NEW v \in Workdays, NEW k \in Revs, NEW s \in Slots, NEW p \in People,
                        app'[v][k][s][p].status = "ACCEPTED"
                 PROVE  /\ \E n \in Revs : /\ rev'[v][n].state = "PUBLISHED" /\ rev'[v][n].basedOn = k
                                           /\ rev'[v][n].crew[s] = Assigned(p)
                        /\ \A o \in People \ {p} : app'[v][k][s][o].status # "ACCEPTED"
      BY DEF AcceptedHoldsSlot
    <3>1. CASE v = w /\ k = b
      BY <2>6, <3>1
    <3>2. CASE v # w \/ k # b
      <4>1. \A o \in People : app'[v][k][s][o] = app[v][k][s][o]
        BY <2>3, <3>2
      <4>2. PICK n \in Revs : /\ rev[v][n].state = "PUBLISHED" /\ rev[v][n].basedOn = k
                              /\ rev[v][n].crew[s] = Assigned(p)
        BY <4>1 DEF AppInv, AcceptedHoldsSlot
      <4>3. \A o \in People \ {p} : app[v][k][s][o].status # "ACCEPTED"
        BY <4>1 DEF AppInv, AcceptedHoldsSlot
      <4>4. rev'[v][n] = rev[v][n]
        BY <4>2 DEF PublicationsKept
      <4> QED
        BY <4>1, <4>2, <4>3, <4>4
    <3> QED
      BY <3>1, <3>2
  <2> QED
    BY <2>4, <2>7
<1> QED
  BY <1>3, <1>4

LEMMA CarriedAt ==
  ASSUME TypeInv, NEW w \in Workdays, NEW r \in Revs, NEW n \in Revs, r # n, NEW t \in Slots,
         NEW k \in Revs, NEW s \in Slots, NEW p \in People
  PROVE  LET moves == s # t /\ app[w][r][s][p].status \in Pending
             after == Carried(w, r, n, t)[k][s][p]
         IN  /\ after.status = IF moves /\ k = r THEN "CLOSED"
                               ELSE IF moves /\ k = n THEN "APPLIED"
                               ELSE app[w][k][s][p].status
             /\ k \notin {r, n} => after = app[w][k][s][p]
<1> DEFINE moves == s # t /\ app[w][r][s][p].status \in Pending
           after == Carried(w, r, n, t)[k][s][p]
<1>1. app[w] \in Applications
  BY DEF TypeInv, TypeOK, Applications
<1>2. app[w][r][s][p] \in Application
  BY <1>1 DEF Applications
<1>3. CASE k = r
  <2>1. after = IF moves THEN [app[w][r][s][p] EXCEPT !.status = "CLOSED"] ELSE app[w][r][s][p]
    BY <1>1, <1>3 DEF Carried, Applications
  <2> QED
    BY <1>2, <1>3, <2>1 DEF Application
<1>4. CASE k = n
  <2>1. after = IF moves THEN [status |-> "APPLIED", draft |-> NoRev] ELSE app[w][n][s][p]
    BY <1>1, <1>4 DEF Carried, Applications
  <2> QED
    BY <1>4, <2>1
<1>5. CASE k \notin {r, n}
  <2>1. after = app[w][k][s][p]
    BY <1>1, <1>5 DEF Carried, Applications
  <2> QED
    BY <1>5, <2>1
<1> QED
  BY <1>3, <1>4, <1>5

LEMMA DeclineApplications ==
  ASSUME AppInv, PublicationsKept, NEW q \in Requests, NEW t \in Slots,
         NEW policy \in Policies, NEW n \in Revs, DeclineCommit(q, t, policy, n)
  PROVE  ApplicationsSound' /\ AcceptedHoldsSlot'
<1>0. TypeInv /\ RequestsSound
  BY DEF AppInv, Inv
<1>1. PICK w \in Workdays, r \in Revs : w = req[q].day /\ r = req[q].row.published
  BY <1>0, DeclineEffect
<1>2. rev[w][r].state = "PUBLISHED" /\ rev[w][n].state = "NONE" /\ r # n
  <2>1. rev[w][n].state = "NONE" /\ req[q].kind = "DECLINE"
    BY <1>1 DEF DeclineCommit, IsNextNumber, Exists, Revs
  <2> QED
    BY <1>0, <1>1, <2>1 DEF RequestsSound
<1>3. app' = [app EXCEPT ![w] = Carried(w, r, n, t)]
  BY <1>1 DEF DeclineCommit
<1>4. \A k \in Revs, s \in Slots, p \in People :
        /\ k \in {r, n} => app'[w][k][s][p].status \in {"CLOSED", "APPLIED", app[w][k][s][p].status}
        /\ k = n /\ app'[w][n][s][p].status # app[w][n][s][p].status =>
             s # t /\ app[w][r][s][p].status \in Pending
        /\ k = r /\ app[w][r][s][p].status = "NONE" => app'[w][r][s][p].status = "NONE"
        /\ k \notin {r, n} => app'[w][k][s][p] = app[w][k][s][p]
  <2>1. app'[w] = Carried(w, r, n, t)
    BY <1>0, <1>3 DEF TypeInv, TypeOK
  <2>2. "NONE" \notin Pending
    BY DEF Pending
  <2> QED
    BY <1>0, <1>2, <2>1, <2>2, CarriedAt
<1>5. \A v \in Workdays \ {w} : app'[v] = app[v]
  BY <1>0, <1>3 DEF TypeInv, TypeOK
<1>6. /\ rev'[w][n].state = "PUBLISHED"
      /\ \A s \in Slots \ {t} : rev'[w][n].crew[s] = rev[w][r].crew[s]
  <2>1. rev[w][r] \in Revision
    BY <1>0 DEF TypeInv, TypeOK
  <2>2. rev'[w][n] = DeclinedRevision(w, r, t, policy)
    BY <1>0, <1>1 DEF DeclineCommit, TypeInv, TypeOK
  <2> QED
    BY <1>2, <2>1, <2>2 DEF DeclinedRevision, Revision, Crew
<1>7. ApplicationsSound'
  <2> SUFFICES ASSUME NEW v \in Workdays, NEW k \in Revs, NEW s \in Slots, NEW p \in People,
                      app'[v][k][s][p].status # "NONE"
               PROVE  rev'[v][k].state = "PUBLISHED" /\ rev'[v][k].crew[s].status = "OPEN"
    BY DEF ApplicationsSound
  <2>1. CASE v = w /\ k = n
    <3>1. app[w][n][s][p].status = "NONE"
      BY <1>2 DEF AppInv, ApplicationsSound
    <3>2. s # t /\ app[w][r][s][p].status \in Pending
      BY <1>4, <2>1, <3>1
    <3>3. rev[w][r].crew[s].status = "OPEN"
      BY <3>2 DEF AppInv, ApplicationsSound, Pending
    <3> QED
      BY <1>6, <2>1, <3>2, <3>3
  <2>2. CASE ~(v = w /\ k = n)
    <3>1. app[v][k][s][p].status # "NONE"
      BY <1>4, <1>5, <2>2
    <3> QED
      BY <3>1 DEF AppInv, ApplicationsSound, PublicationsKept
  <2> QED
    BY <2>1, <2>2
<1>8. \A v \in Workdays, k \in Revs, s \in Slots, p \in People :
        app'[v][k][s][p].status = "ACCEPTED" => app[v][k][s][p].status = "ACCEPTED"
  BY <1>4, <1>5
<1>9. AcceptedHoldsSlot'
  BY <1>8 DEF AppInv, AcceptedHoldsSlot, PublicationsKept
<1> QED
  BY <1>7, <1>9

LEMMA ManagerApplications ==
  ASSUME AppInv, PublicationsKept, NEW m \in Managers, ManagerStep(m)
  PROVE  ApplicationsSound' /\ AcceptedHoldsSlot'
<1>0. TypeInv
  BY DEF AppInv, Inv
<1>1. ASSUME UNCHANGED app PROVE ApplicationsSound' /\ AcceptedHoldsSlot'
  BY <1>1, ApplicationsStay DEF AppInv
<1>2. ASSUME NEW p \in People, NEW s \in Slots, SelectApplication(m, p, s)
      PROVE  ApplicationsSound' /\ AcceptedHoldsSlot'
  <2>1. PICK w \in Workdays, d \in Revs : w = page[m].day /\ d = row[w].draft
    BY <1>0, <1>2, LockedDraft DEF SelectApplication
  <2>2. row[w] \in Row
    BY <1>0 DEF TypeInv, TypeOK
  <2>3. PICK r \in Revs : r = row[w].published
    <3>1. row[w].published # NoRev
      BY <1>2, <2>1 DEF SelectApplication
    <3> QED
      BY <2>2, <3>1, RosterAssumption DEF Row, Pointer, Revs, NoRev
  <2> DEFINE a == [status |-> "SELECTED", draft |-> d]
  <2>4. /\ app[w][r][s][p].status = "APPLIED" /\ rev[w][r].crew[s].status = "OPEN"
        /\ app' = [app EXCEPT ![w][r][s][p] = a]
    BY <1>2, <2>1, <2>3 DEF SelectApplication
  <2>5. rev[w][r].state = "PUBLISHED"
    BY <2>4 DEF AppInv, ApplicationsSound
  <2>6. a.status # "ACCEPTED"
    OBVIOUS
  <2> HIDE DEF a
  <2> QED
    BY <1>0, <2>4, <2>5, <2>6, OneApplication DEF AppInv
<1> QED
  BY <1>0, <1>1, <1>2, PublishApplications, ManagerCases DEF DraftCloned, DraftStored, Store

LEMMA RequestApplications ==
  ASSUME AppInv, PublicationsKept, NEW q \in Requests, RequestStep(q)
  PROVE  ApplicationsSound' /\ AcceptedHoldsSlot'
<1>1. ASSUME UNCHANGED app PROVE ApplicationsSound' /\ AcceptedHoldsSlot'
  BY <1>1, ApplicationsStay DEF AppInv
<1> QED
  BY <1>1, DeclineApplications DEF RequestStep, DeclineRead, StatusRead, StatusCommit, DropRequest

LEMMA WorkdayApplications ==
  ASSUME AppInv, PublicationsKept, NEW w \in Workdays, WorkdayStep(w)
  PROVE  ApplicationsSound' /\ AcceptedHoldsSlot'
<1>1. ASSUME UNCHANGED app PROVE ApplicationsSound' /\ AcceptedHoldsSlot'
  BY <1>1, ApplicationsStay DEF AppInv
<1>2. ASSUME NEW p \in People, NEW s \in Slots, ApplyForPosition(p, w, s)
      PROVE  ApplicationsSound' /\ AcceptedHoldsSlot'
  <2>0. TypeInv /\ PointersSound
    BY DEF AppInv, Inv
  <2>1. row[w] \in Row
    BY <2>0 DEF TypeInv, TypeOK
  <2>2. PICK r \in Revs : r = row[w].published /\ r # NoRev
    BY <1>2, <2>1, RosterAssumption DEF ApplyForPosition, Row, Pointer, Revs, NoRev
  <2> DEFINE a == [status |-> "APPLIED", draft |-> NoRev]
  <2>3. /\ rev[w][r].crew[s].status = "OPEN" /\ rev[w][r].state = "PUBLISHED"
        /\ app' = [app EXCEPT ![w][r][s][p] = a]
    BY <1>2, <2>0, <2>2 DEF ApplyForPosition, PointersSound
  <2>4. a.status # "ACCEPTED"
    OBVIOUS
  <2> HIDE DEF a
  <2> QED
    BY <2>0, <2>3, <2>4, OneApplication DEF AppInv
<1> QED
  BY <1>1, <1>2 DEF WorkdayStep, CreateWorkday, DeleteWorkday, ApplyProgramme, Reschedule

LEMMA AppInit == Init => AppInv
<1> SUFFICES ASSUME Init PROVE AppInv
  OBVIOUS
<1>1. EmptyCrew \in SoundCrew
  BY SoundCells DEF EmptyCrew, SoundCrew
<1>2. CrewsSound
  BY <1>1 DEF Init, CrewsSound, NoRevision
<1>3. ApplicationsSound /\ AcceptedHoldsSlot
  BY DEF Init, ApplicationsSound, AcceptedHoldsSlot, NoApplication
<1> QED
  BY <1>2, <1>3, InvInit DEF AppInv

LEMMA AppStep == AppInv /\ [Next]_vars => AppInv'
<1> SUFFICES ASSUME AppInv, [Next]_vars PROVE AppInv'
  OBVIOUS
<1>0. Inv /\ TypeInv /\ CrewsSound /\ PublicationsKept
  BY KeepStep DEF AppInv, Inv
<1>1. Inv'
  BY <1>0, InvStep
<1>2. CASE Next
  <2>1. CrewsSound'
    BY <1>0, <1>2, ManagerCrews, RequestCrews, WorkdayCrews DEF Next
  <2>2. ApplicationsSound' /\ AcceptedHoldsSlot'
    BY <1>0, <1>2, ManagerApplications, RequestApplications, WorkdayApplications DEF Next
  <2> QED
    BY <1>1, <2>1, <2>2 DEF AppInv
<1>3. CASE UNCHANGED vars
  <2>1. CrewsSound' /\ ApplicationsSound' /\ AcceptedHoldsSlot'
    BY <1>0, <1>3, ApplicationsStay DEF vars, CrewsSound, AppInv
  <2> QED
    BY <1>1, <2>1 DEF AppInv
<1> QED
  BY <1>2, <1>3

\* Whoever was accepted holds the slot in the publication that superseded the one
\* applied to, and nobody else was accepted for it, whatever requests overlap:
\* decide_published_applications accepts only the person publication puts there.
THEOREM AcceptedAlwaysHolds == Spec => []AcceptedHoldsSlot
<1>1. AppInv => AcceptedHoldsSlot
  BY DEF AppInv
<1> QED
  BY <1>1, AppInit, AppStep, PTL DEF Spec
=============================================================================
