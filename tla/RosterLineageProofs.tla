------------------------- MODULE RosterLineageProofs -------------------------
(***************************************************************************)
(* What module Roster guarantees about lineage and versions.  With no      *)
(* other transaction between the read and the commit of a decline,         *)
(* and status changes and programme updates overlapping as they like: the  *)
(* shared draft is a copy of the publication that is still current, every  *)
(* publication is built on the one it replaces (LineStep), the rosters     *)
(* move as module RosterAuthority says (AuthorityStep), the next revision  *)
(* number is free (EditStep) and waiting applications are on the current   *)
(* publication (PendStep).  Whatever overlaps: the version advances with   *)
(* every change, but for those that VersionAdvances names (RowStep).  With *)
(* nothing overlapping: it tells a stale page from a fresh one             *)
(* (FreshStep).                                                            *)
(***************************************************************************)
EXTENDS RosterProofs

\* The current draft after a step is based on the publication after the step,
\* and a publication that replaces another is based on it.
LineAt(w) ==
  /\ row'[w].draft # NoRev =>
       rev'[w][row'[w].draft].basedOn = row'[w].published
  /\ row[w].published # NoRev /\ row'[w].published # row[w].published =>
       rev'[w][row'[w].published].basedOn = row[w].published

LineKept == \A w \in Workdays : LineAt(w)

LineInv == Inv /\ DraftOnCurrent

-----------------------------------------------------------------------------
(* Steps that write one Workday.                                           *)

\* A Workday that a step leaves alone.
LEMMA LineUntouched ==
  ASSUME DraftOnCurrent, NEW w \in Workdays, row'[w] = row[w], rev'[w] = rev[w]
  PROVE  LineAt(w)
BY DEF LineAt, DraftOnCurrent

\* Row x and revision n = r are written together.
LEMMA LineAfter ==
  ASSUME TypeInv, DraftOnCurrent, NEW w \in Workdays, NEW x \in Row,
         NEW n \in Revs, NEW r \in Revision,
         row' = [row EXCEPT ![w] = x], rev' = [rev EXCEPT ![w][n] = r],
         x.draft # NoRev => x.draft = n /\ r.basedOn = x.published,
         row[w].published # NoRev /\ x.published # row[w].published =>
           x.published = n /\ r.basedOn = row[w].published
  PROVE  LineKept
<1>1. row'[w] = x /\ rev'[w][n] = r
  BY DEF TypeInv, TypeOK
<1>2. \A v \in Workdays \ {w} : row'[v] = row[v] /\ rev'[v] = rev[v]
  BY DEF TypeInv, TypeOK
<1>3. LineAt(w)
  BY <1>1 DEF LineAt
<1> QED
  BY <1>2, <1>3, LineUntouched DEF LineKept

LEMMA CloneLine ==
  ASSUME Inv, DraftOnCurrent, NEW w \in Workdays, NEW f \in Facts,
         CanClone(w), Clone(w, f)
  PROVE  LineKept
<1> DEFINE n == row[w].published
           r == [CloneOf(w, n) EXCEPT !.facts = f]
           x == [row[w] EXCEPT !.draft = n + 1, !.version = @ + 1]
<1>1. /\ n + 1 \in Revs /\ r \in Revision /\ x \in Row /\ r.basedOn = n
      /\ row' = [row EXCEPT ![w] = x] /\ rev' = [rev EXCEPT ![w][n + 1] = r]
  BY CloneEffect DEF Inv, TypeInv
<1>2. row[w] \in Row
  BY DEF Inv, TypeInv, TypeOK
<1>3. x.draft = n + 1 /\ x.published = n
  BY <1>2 DEF Row
<1> HIDE DEF r, x
<1> QED
  BY <1>1, <1>3, LineAfter DEF Inv

\* A draft mutation: the pointers stay and so does what the draft is based on.
LEMMA TouchedLine ==
  ASSUME TypeInv, DraftOnCurrent, NEW w \in Workdays, NEW d \in Revs,
         d = row[w].draft, NEW r \in Revision, r.basedOn = rev[w][d].basedOn,
         row' = [row EXCEPT ![w] = Touched(w)], rev' = [rev EXCEPT ![w][d] = r]
  PROVE  LineKept
<1>1. row[w] \in Row /\ d # NoRev
  BY DEF TypeInv, TypeOK, Revs, NoRev
<1>2. /\ Touched(w) \in Row /\ Touched(w).draft = d
      /\ Touched(w).published = row[w].published
  BY <1>1 DEF Touched, Row
<1>3. r.basedOn = row[w].published
  BY <1>1 DEF DraftOnCurrent
<1> QED
  BY <1>2, <1>3, LineAfter

LEMMA StoreLine ==
  ASSUME Inv, DraftOnCurrent, NEW m \in Managers, NEW c \in Crew, NEW f \in Facts,
         Locked(m), Store(m, c, f)
  PROVE  LineKept
<1> DEFINE w == page[m].day
           d == row[w].draft
           r == [rev[w][d] EXCEPT !.crew = c, !.facts = f]
<1>1. w \in Workdays /\ d \in Revs /\ rev[w][d] \in Revision
  BY LockedDraft DEF Inv
<1>2. r \in Revision /\ r.basedOn = rev[w][d].basedOn
  BY <1>1 DEF Revision, Crew
<1>3. row' = [row EXCEPT ![w] = Touched(w)] /\ rev' = [rev EXCEPT ![w][d] = r]
  BY DEF Store
<1> HIDE DEF r, w
<1> QED
  BY <1>1, <1>2, <1>3, TouchedLine DEF Inv

LEMMA SelectLine ==
  ASSUME Inv, DraftOnCurrent, NEW m \in Managers, NEW p \in People, NEW s \in Slots,
         SelectApplication(m, p, s)
  PROVE  LineKept
<1> DEFINE w == page[m].day
           d == row[w].draft
           r == [rev[w][d] EXCEPT !.crew[s] = Assigned(p)]
<1>1. TypeInv
  BY DEF Inv
<1>2. w \in Workdays /\ d \in Revs /\ rev[w][d] \in Revision
  BY <1>1, LockedDraft DEF SelectApplication
<1>3. r \in Revision /\ r.basedOn = rev[w][d].basedOn
  <2>1. [rev[w][d].crew EXCEPT ![s] = Assigned(p)] \in Crew
    BY <1>2 DEF Revision, Crew, Cell, Assigned, AssignmentStatus
  <2> QED
    BY <1>2, <2>1 DEF Revision
<1>4. row' = [row EXCEPT ![w] = Touched(w)] /\ rev' = [rev EXCEPT ![w][d] = r]
  BY DEF SelectApplication
<1> HIDE DEF r, w
<1> QED
  BY <1>1, <1>2, <1>3, <1>4, TouchedLine

\* _publish refuses a draft that is not based on the current publication.
LEMMA PublishLine ==
  ASSUME Inv, DraftOnCurrent, NEW m \in Managers, Publish(m)
  PROVE  LineKept
<1> DEFINE w == page[m].day
           d == row[w].draft
           r == [rev[w][d] EXCEPT !.state = "PUBLISHED"]
           x == PublishedRow(w, d)
<1>0. TypeInv
  BY DEF Inv
<1>1. /\ w \in Workdays /\ d \in Revs /\ page[m].draft = d
      /\ r \in Revision /\ x \in Row /\ x.published = d /\ x.draft = NoRev
      /\ row' = [row EXCEPT ![w] = x] /\ rev' = [rev EXCEPT ![w][d] = r]
  BY <1>0, PublishEffect
<1>2. rev[w][d] \in Revision
  BY <1>1 DEF Inv, TypeInv, TypeOK
<1>3. rev[w][d].basedOn = row[w].published
  BY <1>1 DEF Publish
<1>4. r.basedOn = row[w].published
  BY <1>2, <1>3 DEF Revision
<1> HIDE DEF r, x, w, d
<1> QED
  BY <1>1, <1>4, LineAfter DEF Inv

-----------------------------------------------------------------------------
(* Steps by actor.                                                         *)

LEMMA ManagerLine ==
  ASSUME Inv, DraftOnCurrent, NEW m \in Managers, ManagerStep(m)
  PROVE  LineKept
<1>1. ASSUME UNCHANGED <<row, rev>> PROVE LineKept
  BY <1>1, LineUntouched DEF LineKept
<1>2. ASSUME NEW w \in Workdays, CanClone(w), Clone(w, rev[w][row[w].published].facts)
      PROVE  LineKept
  BY <1>2, PublishedFacts, CloneLine DEF Inv, TypeInv
<1>3. ASSUME NEW c \in Crew, NEW f \in Facts, SaveDraft(m, c, f) \/ UpdateDetails(m, f)
      PROVE  LineKept
  BY <1>3, StoreLine, LockedDraft DEF SaveDraft, UpdateDetails, Inv
<1>4. ASSUME NEW s \in Slots, NEW cell \in CellInput \cup {Absent},
             \/ AddAssignment(m, s, cell) \/ UpdateAssignment(m, s, cell)
             \/ RemoveAssignment(m, s)
      PROVE  LineKept
  <2>1. Locked(m)
    BY <1>4 DEF AddAssignment, UpdateAssignment, RemoveAssignment
  <2>2. /\ DraftOf(m).crew \in Crew /\ DraftOf(m).facts \in Facts
        /\ \A x \in Cell : [DraftOf(m).crew EXCEPT ![s] = x] \in Crew
    BY <2>1, LockedDraft DEF Crew, Inv
  <2>3. cell \in Cell /\ Absent \in Cell
    BY NullTypes, CellInputType
  <2>4. PICK c \in Crew : Store(m, c, DraftOf(m).facts)
    BY <1>4, <2>2, <2>3 DEF AddAssignment, UpdateAssignment, RemoveAssignment
  <2> QED
    BY <2>1, <2>2, <2>4, StoreLine
<1>5. ASSUME NEW p \in People, NEW s \in Slots, SelectApplication(m, p, s)
      PROVE  LineKept
  BY <1>5, SelectLine
<1>6. CASE Publish(m)
  BY <1>6, PublishLine
<1>7. \A c \in [Slots -> CellInput \cup {Absent}] : c \in Crew
  BY NullTypes, CellInputType DEF Crew
<1>8. ASSUME NEW w \in Workdays, OpenDraft(m, w) \/ OpenPreview(m, w)
      PROVE  LineKept
  BY <1>1, <1>8 DEF OpenDraft, OpenPreview
<1>9. CASE RenderPage(m) \/ ClosePage(m)
  BY <1>1, <1>9 DEF RenderPage, ClosePage
<1>10. ASSUME NEW w \in Workdays, OpenPublished(m, w) PROVE LineKept
  BY <1>2, <1>10 DEF OpenPublished
<1>11. ASSUME NEW p \in People, NEW s \in Slots, SelectWithoutDraft(m, p, s)
       PROVE  LineKept
  BY <1>2, <1>11 DEF SelectWithoutDraft, Inv, TypeInv, PagesNamed
<1> QED
  BY <1>3, <1>4, <1>5, <1>6, <1>7, <1>8, <1>9, <1>10, <1>11, NullTypes DEF ManagerStep

\* Without an overlap the row a decline has read is the current one: it
\* supersedes the current publication and detaches the draft.
LEMMA RequestLine ==
  ASSUME "DECLINE" \notin Overlaps, Inv, DraftOnCurrent,
         NEW q \in Requests, RequestStep(q)
  PROVE  LineKept
<1>1. ASSUME NEW t \in Slots, NEW policy \in Policies, NEW n \in Revs,
             DeclineCommit(q, t, policy, n)
      PROVE  LineKept
  <2> DEFINE w == req[q].day
             o == req[q].row.published
             x == DeclinedRow(req[q].row, row[w], n)
             r == DeclinedRevision(w, o, t, policy)
  <2>1. /\ w \in Workdays /\ o \in Revs /\ req[q].kind = "DECLINE"
        /\ x \in Row /\ x.published = n /\ r \in Revision
        /\ row' = [row EXCEPT ![w] = x] /\ rev' = [rev EXCEPT ![w][n] = r]
    BY <1>1, DeclineEffect DEF Inv
  <2>2. req[q].row = row[w]
    BY <1>1, <2>1 DEF DeclineCommit, Undisturbed
  <2>3. row[w] \in Row /\ rev[w][o] \in Revision
    BY <2>1 DEF Inv, TypeInv, TypeOK
  <2>4. x.draft = NoRev
    BY <2>2, <2>3 DEF DeclinedRow, Row
  <2>5. r.basedOn = row[w].published
    BY <2>2, <2>3 DEF DeclinedRevision, Revision
  <2> HIDE DEF x, r, w
  <2> QED
    BY <2>1, <2>4, <2>5, LineAfter DEF Inv
<1>2. CASE StatusCommit(q)
  <2> DEFINE w == req[q].day
  <2>1. w \in Workdays
    BY <1>2, StatusEffect DEF Inv
  <2>2. PICK x \in Row : /\ x.published = row[w].published /\ x.draft = row[w].draft
                         /\ row' = [row EXCEPT ![w] = x]
    BY <1>2, StatusEffect DEF Inv
  <2>3. rev' = rev
    BY <1>2 DEF StatusCommit
  <2>4. \A v \in Workdays : row'[v].draft = row[v].draft /\ row'[v].published = row[v].published
    BY <2>1, <2>2 DEF Inv, TypeInv, TypeOK
  <2> QED
    BY <2>3, <2>4 DEF LineKept, LineAt, DraftOnCurrent
<1>3. ASSUME UNCHANGED <<row, rev>> PROVE LineKept
  BY <1>3, LineUntouched DEF LineKept
<1> QED
  BY <1>1, <1>2, <1>3 DEF RequestStep, DeclineRead, StatusRead, DropRequest

\* A Workday that does not exist has no publication.
LEMMA AbsentUnpublished ==
  ASSUME Inv, NEW w \in Workdays, row[w].life # "LIVE"
  PROVE  row[w].published = NoRev
<1>1. row[w] \in Row
  BY DEF Inv, TypeInv, TypeOK
<1>2. row[w].published # NoRev => row[w].published \in Revs
  BY <1>1, RosterAssumption DEF Row, Pointer, Revs, NoRev
<1>3. row[w].published # NoRev => rev[w][row[w].published].state = "NONE"
  BY <1>2, AbsentHasNone DEF Inv
<1>4. row[w].published # NoRev => rev[w][row[w].published].state = "PUBLISHED"
  BY DEF Inv, PointersSound
<1> QED
  BY <1>3, <1>4

LEMMA WorkdayLine ==
  ASSUME Inv, DraftOnCurrent, NEW w \in Workdays, WorkdayStep(w)
  PROVE  LineKept
<1>1. ASSUME NEW saved \in BOOLEAN, NEW c \in [Slots -> CellInput \cup {Absent}],
             NEW f \in Facts, CreateWorkday(w, saved, c, f)
      PROVE  LineKept
  <2>1. row[w].life = "ABSENT" /\ 1 \in Revs
    BY <1>1, CreateEffect DEF Inv
  <2>2. PICK x \in Row : /\ x.published = NoRev /\ x.draft = 1
                         /\ row' = [row EXCEPT ![w] = x]
    BY <1>1, CreateEffect DEF Inv
  <2>3. PICK r \in Revision : r.basedOn = NoRev /\ rev' = [rev EXCEPT ![w][1] = r]
    BY <1>1, CreateEffect DEF Inv
  <2>4. row[w].published = NoRev
    BY <2>1, AbsentUnpublished
  <2> QED
    BY <2>1, <2>2, <2>3, <2>4, LineAfter DEF Inv
<1>2. CASE DeleteWorkday(w)
  <2>1. row'[w] = NoRow("DELETED") /\ row[w].published = NoRev
    BY <1>2 DEF DeleteWorkday, Inv, TypeInv, TypeOK
  <2>2. \A v \in Workdays \ {w} : row'[v] = row[v] /\ rev'[v] = rev[v]
    BY <1>2 DEF DeleteWorkday, Inv, TypeInv, TypeOK
  <2>3. LineAt(w)
    BY <2>1 DEF LineAt, NoRow
  <2> QED
    BY <2>2, <2>3, LineUntouched DEF LineKept
<1>3. ASSUME NEW f \in Facts, ApplyProgramme(w, f) PROVE LineKept
  <2>1. CASE CanClone(w) /\ Clone(w, f)
    BY <1>3, <2>1, CloneLine
  <2>2. CASE row[w].draft # NoRev /\ UNCHANGED row
             /\ rev' = [rev EXCEPT ![w][row[w].draft].facts = f]
    <3>1. row[w].draft \in Revs
      BY <2>2, DraftIsDraft DEF Inv
    <3>2. \A v \in Workdays, k \in Revs : rev'[v][k].basedOn = rev[v][k].basedOn
      BY <2>2, <3>1 DEF Inv, TypeInv, TypeOK, Revision
    <3>3. \A v \in Workdays : row[v].draft # NoRev => row[v].draft \in Revs
      BY DraftIsDraft DEF Inv
    <3> QED
      BY <2>2, <3>2, <3>3 DEF LineKept, LineAt, DraftOnCurrent
  <2> QED
    BY <1>3, <2>1, <2>2 DEF ApplyProgramme
<1>4. ASSUME NEW v \in Workdays, Reschedule(w, v) PROVE LineKept
  <2> DEFINE x == [row[w] EXCEPT !.draft = NoRev, !.status = "ABANDONED", !.version = @ + 1]
             y == ReplacementRow(w)
             r == ClonedPublication(w)
  <2>1. /\ v # w /\ row[v].life = "ABSENT" /\ 1 \in Revs
        /\ x.draft = NoRev /\ x.published = row[w].published
        /\ row' = [row EXCEPT ![w] = x, ![v] = y]
        /\ rev' = [rev EXCEPT ![v][1] = r]
    BY <1>4, RescheduleEffect DEF Inv
  <2>2. y.draft = NoRev
    BY DEF ReplacementRow, NoRow
  <2>3. row[v].published = NoRev
    BY <2>1, AbsentUnpublished
  <2> HIDE DEF x, y, r
  <2>4. row'[w] = x /\ row'[v] = y
    BY <2>1 DEF Inv, TypeInv, TypeOK
  <2>5. \A u \in Workdays \ {w, v} : row'[u] = row[u] /\ rev'[u] = rev[u]
    BY <2>1 DEF Inv, TypeInv, TypeOK
  <2>6. LineAt(w) /\ LineAt(v)
    BY <2>1, <2>2, <2>3, <2>4 DEF LineAt
  <2> QED
    BY <2>5, <2>6, LineUntouched DEF LineKept
<1>5. ASSUME UNCHANGED <<row, rev>> PROVE LineKept
  BY <1>5, LineUntouched DEF LineKept
<1> QED
  BY <1>1, <1>2, <1>3, <1>4, <1>5 DEF WorkdayStep, ApplyForPosition

-----------------------------------------------------------------------------
(* The theorems.                                                           *)

LEMMA LineStep ==
  ASSUME "DECLINE" \notin Overlaps, LineInv, [Next]_vars
  PROVE  LineKept
<1>1. CASE Next
  BY <1>1, ManagerLine, RequestLine, WorkdayLine DEF Next, LineInv
<1>2. CASE UNCHANGED vars
  BY <1>2, LineUntouched DEF vars, LineKept, LineInv
<1> QED
  BY <1>1, <1>2

LEMMA LineInit == Init => LineInv
BY InvInit DEF Init, LineInv, DraftOnCurrent, NoRow

LEMMA LineInvStep ==
  ASSUME "DECLINE" \notin Overlaps
  PROVE  LineInv /\ [Next]_vars => LineInv'
<1> SUFFICES ASSUME LineInv, [Next]_vars PROVE LineInv'
  OBVIOUS
<1>1. Inv'
  BY InvStep DEF LineInv
<1>2. DraftOnCurrent'
  BY LineStep DEF LineKept, LineAt, DraftOnCurrent
<1> QED
  BY <1>1, <1>2 DEF LineInv

\* When no transaction comes between a decline's read and its commit, the
\* draft Managers share is always a copy of the publication crew see, edited:
\* ensure_draft, _publish, reschedule and decline keep it so in every order.
THEOREM DraftAlwaysOnCurrent ==
  ASSUME "DECLINE" \notin Overlaps
  PROVE  Spec => []DraftOnCurrent
<1>1. LineInv => DraftOnCurrent
  BY DEF LineInv
<1> QED
  BY <1>1, LineInit, LineInvStep, PTL DEF Spec

\* When no transaction comes between a decline's read and its commit, a
\* publication is only ever replaced by one that was built on it.
THEOREM PublicationsNeverLost ==
  ASSUME "DECLINE" \notin Overlaps
  PROVE  Spec => NoPublicationLost
<1>1. LineInv /\ [Next]_vars =>
        [\A w \in Workdays :
           row[w].published # NoRev /\ row'[w].published # row[w].published
             => rev'[w][row'[w].published].basedOn = row[w].published]_vars
  BY LineStep DEF LineKept, LineAt
<1> QED
  BY <1>1, LineInit, LineInvStep, PTL DEF Spec, NoPublicationLost

-----------------------------------------------------------------------------
(* The refinement of RosterAuthority.                                      *)

\* The roster that number k of w names after a step that writes revision n = r.
RosterAfter(w, k, n, r) ==
  {IF j = n THEN r.crew ELSE rev[w][j].crew : j \in {k} \ {NoRev}}

\* What the step leaves of the rosters of w.
VisibleKept(w) == At(w, row[w].published)' = At(w, row[w].published)
ProposalKept(w) == At(w, row[w].draft)' = At(w, row[w].draft)

LEMMA RostersAfter ==
  ASSUME TypeInv, NEW w \in Workdays, NEW x \in Row, NEW n \in Revs, NEW r \in Revision,
         row' = [row EXCEPT ![w] = x], rev' = [rev EXCEPT ![w][n] = r]
  PROVE  /\ \A v \in Workdays \ {w} : VisibleKept(v) /\ ProposalKept(v)
         /\ At(w, row[w].published)' = RosterAfter(w, x.published, n, r)
         /\ At(w, row[w].draft)' = RosterAfter(w, x.draft, n, r)
<1>1. row'[w] = x /\ \A v \in Workdays \ {w} : row'[v] = row[v] /\ rev'[v] = rev[v]
  BY DEF TypeInv, TypeOK
<1>2. \A k \in Revs : rev'[w][k] = IF k = n THEN r ELSE rev[w][k]
  BY DEF TypeInv, TypeOK
<1>3. /\ x.published = NoRev \/ x.published \in Revs
      /\ x.draft = NoRev \/ x.draft \in Revs
  BY RosterAssumption DEF Row, Pointer, Revs, NoRev
<1>4. \A v \in Workdays \ {w} : VisibleKept(v) /\ ProposalKept(v)
  BY <1>1 DEF VisibleKept, ProposalKept, At
<1>5. \A k : k = NoRev \/ k \in Revs =>
        {rev'[w][j].crew : j \in {k} \ {NoRev}} = RosterAfter(w, k, n, r)
  BY <1>2 DEF RosterAfter
<1> QED
  BY <1>1, <1>3, <1>4, <1>5 DEF At

-----------------------------------------------------------------------------
(* The steps of the specification of authority, roster by roster.          *)

LEMMA AsPropose ==
  ASSUME NEW w \in Workdays, \A v \in Workdays : VisibleKept(v),
         \A v \in Workdays \ {w} : ProposalKept(v),
         \/ At(w, row[w].draft)' = {}
         \/ \E c \in Crew : At(w, row[w].draft)' = {c}
  PROVE  Authority!Propose(w)
<1>1. [v \in Workdays |-> At(v, row[v].published)]' = [v \in Workdays |-> At(v, row[v].published)]
  BY DEF VisibleKept
<1>2. ASSUME NEW c, At(w, row[w].draft)' = c
      PROVE  [v \in Workdays |-> At(v, row[v].draft)]' =
               [[v \in Workdays |-> At(v, row[v].draft)] EXCEPT ![w] = c]
  BY <1>2 DEF ProposalKept
<1> QED
  BY <1>1, <1>2 DEF Authority!Propose

LEMMA AsPublish ==
  ASSUME NEW w \in Workdays,
         \A v \in Workdays \ {w} : VisibleKept(v) /\ ProposalKept(v),
         At(w, row[w].draft) # {}, At(w, row[w].draft)' = {},
         At(w, row[w].published)' = At(w, row[w].draft)
  PROVE  Authority!Publish(w)
BY DEF Authority!Publish, VisibleKept, ProposalKept

LEMMA AsDecline ==
  ASSUME NEW w \in Workdays, NEW s \in Slots, NEW policy \in Policies,
         NEW c \in At(w, row[w].published),
         \A v \in Workdays \ {w} : VisibleKept(v) /\ ProposalKept(v),
         At(w, row[w].draft)' = {},
         At(w, row[w].published)' = {[c EXCEPT ![s] = Vacant(DeclinedStatus(policy))]}
  PROVE  Authority!Decline(w, s)
<1>1. [v \in Workdays |-> At(v, row[v].published)]' =
        [[v \in Workdays |-> At(v, row[v].published)] EXCEPT
           ![w] = {[c EXCEPT ![s] = Vacant(DeclinedStatus(policy))]}]
  BY DEF VisibleKept
<1>2. [v \in Workdays |-> At(v, row[v].draft)]' =
        [[v \in Workdays |-> At(v, row[v].draft)] EXCEPT ![w] = {}]
  BY DEF ProposalKept
<1>3. PICK cell \in {Vacant(DeclinedStatus(p)) : p \in Policies} :
        cell = Vacant(DeclinedStatus(policy))
  OBVIOUS
<1>4. c \in [v \in Workdays |-> At(v, row[v].published)][w]
  OBVIOUS
<1> QED
  BY <1>1, <1>2, <1>3, <1>4 DEF Authority!Decline

LEMMA AsMove ==
  ASSUME NEW w \in Workdays, NEW u \in Workdays, u # w,
         \A v \in Workdays \ {w, u} : VisibleKept(v) /\ ProposalKept(v),
         At(w, row[w].published) # {}, VisibleKept(w), At(w, row[w].draft)' = {},
         At(u, row[u].published) = {}, At(u, row[u].draft) = {},
         At(u, row[u].published)' = At(w, row[w].published), At(u, row[u].draft)' = {}
  PROVE  Authority!Move(w, u)
BY DEF Authority!Move, VisibleKept, ProposalKept

LEMMA AsStutter ==
  ASSUME \A v \in Workdays : VisibleKept(v) /\ ProposalKept(v)
  PROVE  UNCHANGED Authority!authorityVars
BY DEF Authority!authorityVars, VisibleKept, ProposalKept

\* Rows whose pointers stay, over revisions that stay.
LEMMA PointersKept ==
  ASSUME UNCHANGED rev,
         \A v \in Workdays : row'[v].published = row[v].published /\ row'[v].draft = row[v].draft
  PROVE  UNCHANGED Authority!authorityVars
<1>1. \A v \in Workdays : VisibleKept(v) /\ ProposalKept(v)
  BY DEF VisibleKept, ProposalKept, At
<1> QED
  BY <1>1, AsStutter

\* A write that leaves the publication alone.
LEMMA ProposeAfter ==
  ASSUME TypeInv, NEW w \in Workdays, NEW x \in Row, NEW n \in Revs, NEW r \in Revision,
         row' = [row EXCEPT ![w] = x], rev' = [rev EXCEPT ![w][n] = r],
         x.published = row[w].published, x.published # n
  PROVE  Authority!Propose(w)
<1>1. /\ \A v \in Workdays \ {w} : VisibleKept(v) /\ ProposalKept(v)
      /\ At(w, row[w].published)' = RosterAfter(w, x.published, n, r)
      /\ At(w, row[w].draft)' = RosterAfter(w, x.draft, n, r)
  BY RostersAfter
<1>2. VisibleKept(w)
  BY <1>1 DEF VisibleKept, RosterAfter, At
<1>3. \/ At(w, row[w].draft)' = {}
      \/ \E c \in Crew : At(w, row[w].draft)' = {c}
  <2>1. CASE x.draft = NoRev
    BY <1>1, <2>1 DEF RosterAfter
  <2>2. CASE x.draft # NoRev
    <3>1. x.draft \in Revs
      BY <2>2, RosterAssumption DEF Row, Pointer, Revs, NoRev
    <3>2. PICK c \in Crew : c = IF x.draft = n THEN r.crew ELSE rev[w][x.draft].crew
      BY <3>1 DEF TypeInv, TypeOK, Revision
    <3>3. RosterAfter(w, x.draft, n, r) = {c}
      BY <2>2, <3>2 DEF RosterAfter
    <3> QED
      BY <1>1, <3>3
  <2> QED
    BY <2>1, <2>2
<1> QED
  BY <1>1, <1>2, <1>3, AsPropose

-----------------------------------------------------------------------------
(* Steps by actor.                                                         *)

\* The publication of a Workday is not its draft, and an absent Workday has neither.
LEMMA PublicationNotDraft ==
  ASSUME Inv, NEW w \in Workdays
  PROVE  /\ row[w] \in Row
         /\ row[w].draft # NoRev => row[w].draft \in Revs /\ row[w].draft # row[w].published
         /\ row[w].life # "LIVE" => /\ row[w].published = NoRev /\ row[w].draft = NoRev
                                    /\ At(w, row[w].published) = {} /\ At(w, row[w].draft) = {}
<1>1. row[w] \in Row
  BY DEF Inv, TypeInv, TypeOK
<1>2. row[w].draft # NoRev => row[w].draft \in Revs /\ rev[w][row[w].draft].state = "DRAFT"
  BY DraftIsDraft DEF Inv
<1>3. row[w].published # NoRev => rev[w][row[w].published].state = "PUBLISHED"
  BY DEF Inv, PointersSound
<1>4. row[w].draft # NoRev => row[w].draft # row[w].published
  BY <1>2, <1>3
<1>5. row[w].life # "LIVE" => row[w].published = NoRev /\ row[w].draft = NoRev
  BY <1>2, AbsentUnpublished, AbsentHasNone DEF Inv
<1> QED
  BY <1>1, <1>2, <1>4, <1>5 DEF At

LEMMA RevNotNull == \A n \in Revs : n # NoRev
BY RosterAssumption DEF Revs, NoRev

LEMMA CloneAuthority ==
  ASSUME Inv, NEW w \in Workdays, NEW f \in Facts, CanClone(w), Clone(w, f)
  PROVE  Authority!Propose(w)
<1> DEFINE n == row[w].published
           r == [CloneOf(w, n) EXCEPT !.facts = f]
           x == [row[w] EXCEPT !.draft = n + 1, !.version = @ + 1]
<1>1. /\ n \in Revs /\ n + 1 \in Revs /\ r \in Revision /\ x \in Row
      /\ row' = [row EXCEPT ![w] = x] /\ rev' = [rev EXCEPT ![w][n + 1] = r]
  BY CloneEffect DEF Inv, TypeInv
<1>2. x.published = n /\ n # n + 1
  BY <1>1, PublicationNotDraft DEF Row, Revs
<1> HIDE DEF r, x
<1> QED
  BY <1>1, <1>2, ProposeAfter DEF Inv

\* A write to the draft that leaves the pointers alone.
LEMMA DraftAuthority ==
  ASSUME Inv, NEW w \in Workdays, row[w].draft # NoRev, NEW x \in Row, NEW r \in Revision,
         x.published = row[w].published,
         row' = [row EXCEPT ![w] = x], rev' = [rev EXCEPT ![w][row[w].draft] = r]
  PROVE  Authority!Propose(w)
<1>1. row[w].draft \in Revs /\ row[w].draft # row[w].published
  BY PublicationNotDraft
<1> QED
  BY <1>1, ProposeAfter DEF Inv

LEMMA StoreAuthority ==
  ASSUME Inv, NEW m \in Managers, NEW c \in Crew, NEW f \in Facts,
         Locked(m), Store(m, c, f)
  PROVE  \E w \in Workdays : Authority!Propose(w)
<1>0. TypeInv
  BY DEF Inv
<1>1. PICK w \in Workdays, d \in Revs : w = page[m].day /\ d = row[w].draft
  BY <1>0, LockedDraft
<1> DEFINE r == [rev[w][d] EXCEPT !.crew = c, !.facts = f]
<1>2. row[w] \in Row /\ rev[w][d] \in Revision
  BY <1>0 DEF TypeInv, TypeOK
<1>3. d # NoRev
  BY RevNotNull
<1>4. Touched(w) \in Row /\ Touched(w).published = row[w].published
  BY <1>2 DEF Touched, Row
<1>5. r \in Revision
  BY <1>2 DEF Revision, Crew
<1>6. row' = [row EXCEPT ![w] = Touched(w)] /\ rev' = [rev EXCEPT ![w][d] = r]
  BY <1>1 DEF Store
<1> HIDE DEF r
<1> QED
  BY <1>1, <1>3, <1>4, <1>5, <1>6, DraftAuthority

LEMMA SelectAuthority ==
  ASSUME Inv, NEW m \in Managers, NEW p \in People, NEW s \in Slots,
         SelectApplication(m, p, s)
  PROVE  \E w \in Workdays : Authority!Propose(w)
<1>0. TypeInv
  BY DEF Inv
<1>1. PICK w \in Workdays, d \in Revs : w = page[m].day /\ d = row[w].draft
  BY <1>0, SelectEffect
<1> DEFINE r == [rev[w][d] EXCEPT !.crew[s] = Assigned(p)]
<1>2. row[w] \in Row /\ rev[w][d] \in Revision
  BY <1>0 DEF TypeInv, TypeOK
<1>3. d # NoRev
  BY RevNotNull
<1>4. Touched(w) \in Row /\ Touched(w).published = row[w].published
  BY <1>2 DEF Touched, Row
<1>5. r \in Revision
  <2>1. [rev[w][d].crew EXCEPT ![s] = Assigned(p)] \in Crew
    BY <1>2 DEF Revision, Crew, Cell, Assigned, AssignmentStatus
  <2> QED
    BY <1>2, <2>1 DEF Revision
<1>6. row' = [row EXCEPT ![w] = Touched(w)] /\ rev' = [rev EXCEPT ![w][d] = r]
  BY <1>1 DEF SelectApplication
<1> HIDE DEF r
<1> QED
  BY <1>1, <1>3, <1>4, <1>5, <1>6, DraftAuthority

LEMMA PublishAuthority ==
  ASSUME Inv, NEW m \in Managers, Publish(m)
  PROVE  \E w \in Workdays : Authority!Publish(w)
<1>0. TypeInv
  BY DEF Inv
<1>1. PICK w \in Workdays, d \in Revs : w = page[m].day /\ d = row[w].draft
  BY <1>0, PublishEffect
<1> DEFINE r == [rev[w][d] EXCEPT !.state = "PUBLISHED"]
           x == PublishedRow(w, d)
<1>2. /\ r \in Revision /\ x \in Row /\ x.published = d /\ x.draft = NoRev
      /\ row' = [row EXCEPT ![w] = x] /\ rev' = [rev EXCEPT ![w][d] = r]
  BY <1>0, <1>1, PublishEffect
<1>3. rev[w][d] \in Revision
  BY <1>0 DEF TypeInv, TypeOK
<1>4. r.crew = rev[w][d].crew
  BY <1>3 DEF Revision
<1>5. d # NoRev
  BY RevNotNull
<1> HIDE DEF r, x
<1>6. /\ \A v \in Workdays \ {w} : VisibleKept(v) /\ ProposalKept(v)
      /\ At(w, row[w].published)' = RosterAfter(w, x.published, d, r)
      /\ At(w, row[w].draft)' = RosterAfter(w, x.draft, d, r)
  BY <1>0, <1>2, RostersAfter
<1>7. At(w, row[w].draft) = {rev[w][d].crew}
  BY <1>1, <1>5 DEF At
<1>8. /\ RosterAfter(w, x.published, d, r) = {rev[w][d].crew}
      /\ RosterAfter(w, x.draft, d, r) = {}
  BY <1>2, <1>4, <1>5 DEF RosterAfter
<1> QED
  BY <1>6, <1>7, <1>8, AsPublish

\* What a Manager's step is to crew and Managers.
ManagerMoves ==
  \/ UNCHANGED Authority!authorityVars
  \/ \E w \in Workdays : Authority!Propose(w) \/ Authority!Publish(w)

LEMMA ManagerAuthority ==
  ASSUME Inv, NEW m \in Managers, ManagerStep(m)
  PROVE  ManagerMoves
<1>1. ASSUME UNCHANGED <<row, rev>> PROVE ManagerMoves
  BY <1>1, PointersKept DEF ManagerMoves
<1>2. ASSUME NEW w \in Workdays, CanClone(w), Clone(w, rev[w][row[w].published].facts)
      PROVE  ManagerMoves
  BY <1>2, PublishedFacts, CloneAuthority DEF Inv, TypeInv, ManagerMoves
<1>3. ASSUME NEW c \in Crew, NEW f \in Facts, SaveDraft(m, c, f) \/ UpdateDetails(m, f)
      PROVE  ManagerMoves
  BY <1>3, StoreAuthority, LockedDraft DEF SaveDraft, UpdateDetails, Inv, ManagerMoves
<1>4. ASSUME NEW s \in Slots, NEW cell \in CellInput \cup {Absent},
             \/ AddAssignment(m, s, cell) \/ UpdateAssignment(m, s, cell)
             \/ RemoveAssignment(m, s)
      PROVE  ManagerMoves
  <2>1. Locked(m)
    BY <1>4 DEF AddAssignment, UpdateAssignment, RemoveAssignment
  <2>2. /\ DraftOf(m).crew \in Crew /\ DraftOf(m).facts \in Facts
        /\ \A x \in Cell : [DraftOf(m).crew EXCEPT ![s] = x] \in Crew
    BY <2>1, LockedDraft DEF Crew, Inv
  <2>3. cell \in Cell /\ Absent \in Cell
    BY NullTypes, CellInputType
  <2>4. PICK c \in Crew : Store(m, c, DraftOf(m).facts)
    BY <1>4, <2>2, <2>3 DEF AddAssignment, UpdateAssignment, RemoveAssignment
  <2> QED
    BY <2>1, <2>2, <2>4, StoreAuthority DEF ManagerMoves
<1>5. \A c \in [Slots -> CellInput \cup {Absent}] : c \in Crew
  BY NullTypes, CellInputType DEF Crew
<1>6. ASSUME NEW w \in Workdays, OpenDraft(m, w) \/ OpenPreview(m, w)
      PROVE  ManagerMoves
  BY <1>1, <1>6 DEF OpenDraft, OpenPreview
<1>7. CASE RenderPage(m) \/ ClosePage(m)
  BY <1>1, <1>7 DEF RenderPage, ClosePage
<1>8. ASSUME NEW w \in Workdays, OpenPublished(m, w)
      PROVE  ManagerMoves
  BY <1>2, <1>8 DEF OpenPublished
<1>9. ASSUME NEW p \in People, NEW s \in Slots, SelectWithoutDraft(m, p, s)
      PROVE  ManagerMoves
  BY <1>2, <1>9 DEF SelectWithoutDraft, Inv, TypeInv, PagesNamed
<1>10. ASSUME NEW p \in People, NEW s \in Slots, SelectApplication(m, p, s)
       PROVE  ManagerMoves
  BY <1>10, SelectAuthority DEF ManagerMoves
<1>11. CASE Publish(m)
  BY <1>11, PublishAuthority DEF ManagerMoves
<1> QED
  BY <1>3, <1>4, <1>5, <1>6, <1>7, <1>8, <1>9, <1>10, <1>11, NullTypes DEF ManagerStep

LEMMA RequestAuthority ==
  ASSUME "DECLINE" \notin Overlaps, Inv, NEW q \in Requests, RequestStep(q)
  PROVE  [Authority!Next]_Authority!authorityVars
<1>1. ASSUME NEW t \in Slots, NEW policy \in Policies, NEW n \in Revs,
             DeclineCommit(q, t, policy, n)
      PROVE  \E w \in Workdays : Authority!Decline(w, t)
  <2>0. TypeInv
    BY DEF Inv
  <2>1. PICK w \in Workdays, o \in Revs :
          w = req[q].day /\ o = req[q].row.published /\ req[q].kind = "DECLINE"
    BY <1>1, <2>0, DeclineEffect
  <2>2. req[q].row = row[w]
    BY <1>1, <2>1 DEF DeclineCommit, Undisturbed
  <2> DEFINE x == DeclinedRow(row[w], row[w], n)
             r == DeclinedRevision(w, o, t, policy)
             c == rev[w][o].crew
  <2>3. /\ x \in Row /\ x.published = n /\ r \in Revision
        /\ row' = [row EXCEPT ![w] = x] /\ rev' = [rev EXCEPT ![w][n] = r]
    BY <1>1, <2>0, <2>1, <2>2, DeclineEffect
  <2>4. row[w] \in Row /\ rev[w][o] \in Revision
    BY <2>0 DEF TypeInv, TypeOK
  <2>5. x.draft = NoRev
    BY <2>4 DEF DeclinedRow, Row
  <2>6. r.crew = [c EXCEPT ![t] = Vacant(DeclinedStatus(policy))]
    BY <2>4 DEF DeclinedRevision, Revision
  <2>7. o = row[w].published /\ o # NoRev /\ n # NoRev
    BY <2>1, <2>2, RevNotNull
  <2>8. c \in At(w, row[w].published)
    BY <2>7 DEF At
  <2> HIDE DEF x, r
  <2>9. /\ \A v \in Workdays \ {w} : VisibleKept(v) /\ ProposalKept(v)
        /\ At(w, row[w].published)' = RosterAfter(w, x.published, n, r)
        /\ At(w, row[w].draft)' = RosterAfter(w, x.draft, n, r)
    BY <2>0, <2>3, RostersAfter
  <2>10. /\ RosterAfter(w, x.published, n, r) =
               {[c EXCEPT ![t] = Vacant(DeclinedStatus(policy))]}
         /\ RosterAfter(w, x.draft, n, r) = {}
    BY <2>3, <2>5, <2>6, <2>7 DEF RosterAfter
  <2> QED
    BY <2>8, <2>9, <2>10, AsDecline
<1>2. CASE StatusCommit(q)
  <2>1. PICK w \in Workdays, x \in Row :
          /\ x.published = row[w].published /\ x.draft = row[w].draft
          /\ row' = [row EXCEPT ![w] = x]
    BY <1>2, StatusEffect DEF Inv
  <2>2. \A v \in Workdays : row'[v].published = row[v].published /\ row'[v].draft = row[v].draft
    BY <2>1 DEF Inv, TypeInv, TypeOK
  <2> QED
    BY <1>2, <2>2, PointersKept DEF StatusCommit
<1>3. ASSUME UNCHANGED <<row, rev>> PROVE UNCHANGED Authority!authorityVars
  BY <1>3, PointersKept
<1>4. ASSUME NEW t \in Slots, NEW w \in Workdays, Authority!Decline(w, t) PROVE Authority!Next
  BY <1>4 DEF Authority!Next
<1> QED
  BY <1>1, <1>2, <1>3, <1>4 DEF RequestStep, DeclineRead, StatusRead, DropRequest

LEMMA WorkdayAuthority ==
  ASSUME Inv, NEW w \in Workdays, WorkdayStep(w)
  PROVE  [Authority!Next]_Authority!authorityVars
<1>0. TypeInv /\ row[w] \in Row
  BY PublicationNotDraft DEF Inv
<1>1. ASSUME NEW saved \in BOOLEAN, NEW c \in [Slots -> CellInput \cup {Absent}],
             NEW f \in Facts, CreateWorkday(w, saved, c, f)
      PROVE  Authority!Propose(w)
  <2>1. row[w].life = "ABSENT" /\ 1 \in Revs
    BY <1>0, <1>1, CreateEffect
  <2>2. PICK x \in Row : x.published = NoRev /\ row' = [row EXCEPT ![w] = x]
    BY <1>0, <1>1, CreateEffect
  <2>3. PICK r \in Revision : rev' = [rev EXCEPT ![w][1] = r]
    BY <1>0, <1>1, CreateEffect
  <2>4. row[w].published = NoRev /\ NoRev # 1
    BY <2>1, PublicationNotDraft DEF NoRev
  <2> QED
    BY <1>0, <2>1, <2>2, <2>3, <2>4, ProposeAfter
<1>2. CASE DeleteWorkday(w)
  <2>1. row'[w] = NoRow("DELETED") /\ row[w].published = NoRev
    BY <1>0, <1>2 DEF DeleteWorkday, TypeInv, TypeOK
  <2>2. \A v \in Workdays \ {w} : row'[v] = row[v] /\ rev'[v] = rev[v]
    BY <1>0, <1>2 DEF DeleteWorkday, TypeInv, TypeOK
  <2>3. \A v \in Workdays \ {w} : VisibleKept(v) /\ ProposalKept(v)
    BY <2>2 DEF VisibleKept, ProposalKept, At
  <2>4. row'[w].published = NoRev /\ row'[w].draft = NoRev
    BY <2>1 DEF NoRow
  <2>5. VisibleKept(w) /\ At(w, row[w].draft)' = {}
    BY <2>1, <2>4 DEF VisibleKept, At
  <2>6. \A v \in Workdays : VisibleKept(v)
    BY <2>3, <2>5
  <2>7. Authority!Propose(w)
    BY <2>3, <2>5, <2>6, AsPropose
  <2> QED
    BY <2>7 DEF Authority!Next
<1>3. ASSUME NEW f \in Facts, ApplyProgramme(w, f) PROVE Authority!Propose(w)
  <2>1. CASE CanClone(w) /\ Clone(w, f)
    BY <2>1, CloneAuthority
  <2>2. CASE row[w].draft # NoRev /\ UNCHANGED row
             /\ rev' = [rev EXCEPT ![w][row[w].draft].facts = f]
    <3> DEFINE d == row[w].draft
               r == [rev[w][d] EXCEPT !.facts = f]
    <3>1. d \in Revs
      BY <2>2, PublicationNotDraft
    <3>2. rev[w][d] \in Revision
      BY <1>0, <3>1 DEF TypeInv, TypeOK
    <3>3. r \in Revision
      BY <3>2 DEF Revision
    <3>4. rev' = [rev EXCEPT ![w][d] = r]
      BY <2>2
    <3>5. row' = [row EXCEPT ![w] = row[w]]
      BY <1>0, <2>2 DEF TypeInv, TypeOK
    <3> HIDE DEF r
    <3> QED
      BY <1>0, <2>2, <3>3, <3>4, <3>5, DraftAuthority
  <2> QED
    BY <1>3, <2>1, <2>2 DEF ApplyProgramme
<1>4. ASSUME NEW v \in Workdays, Reschedule(w, v) PROVE Authority!Move(w, v)
  <2> DEFINE n == row[w].published
             x == [row[w] EXCEPT !.draft = NoRev, !.status = "ABANDONED", !.version = @ + 1]
             y == ReplacementRow(w)
             r == ClonedPublication(w)
  <2>1. /\ v # w /\ row[v].life = "ABSENT" /\ n \in Revs /\ 1 \in Revs
        /\ x.draft = NoRev /\ x.published = n
        /\ row' = [row EXCEPT ![w] = x, ![v] = y] /\ rev' = [rev EXCEPT ![v][1] = r]
    BY <1>0, <1>4, RescheduleEffect
  <2>2. y.draft = NoRev /\ y.published = 1
    BY DEF ReplacementRow, NoRow
  <2>3. r.crew = rev[w][n].crew
    <3>1. rev[w][n] \in Revision
      BY <1>0, <2>1 DEF TypeInv, TypeOK
    <3> QED
      BY <3>1 DEF ClonedPublication, Revision
  <2>4. n # NoRev /\ 1 # NoRev
    BY <2>1 DEF Revs, NoRev
  <2> HIDE DEF x, y, r
  <2>5. row'[w] = x /\ row'[v] = y /\ rev'[w] = rev[w] /\ rev'[v][1] = r
    BY <1>0, <2>1 DEF TypeInv, TypeOK
  <2>6. \A u \in Workdays \ {w, v} : row'[u] = row[u] /\ rev'[u] = rev[u]
    BY <1>0, <2>1 DEF TypeInv, TypeOK
  <2>7. \A u \in Workdays \ {w, v} : VisibleKept(u) /\ ProposalKept(u)
    BY <2>6 DEF VisibleKept, ProposalKept, At
  <2>8. VisibleKept(w) /\ At(w, row[w].draft)' = {} /\ At(w, row[w].published) = {rev[w][n].crew}
    BY <2>1, <2>4, <2>5 DEF VisibleKept, At
  <2>9. At(v, row[v].published)' = {r.crew} /\ At(v, row[v].draft)' = {}
    BY <2>2, <2>4, <2>5 DEF At
  <2>10. At(v, row[v].published) = {} /\ At(v, row[v].draft) = {}
    BY <2>1, PublicationNotDraft
  <2> QED
    BY <2>1, <2>3, <2>7, <2>8, <2>9, <2>10, AsMove
<1>5. ASSUME NEW p \in People, NEW s \in Slots, ApplyForPosition(p, w, s)
      PROVE  UNCHANGED Authority!authorityVars
  BY <1>5, PointersKept DEF ApplyForPosition
<1>6. ASSUME NEW v \in Workdays, Authority!Propose(w) \/ Authority!Move(w, v)
      PROVE  Authority!Next
  BY <1>6 DEF Authority!Next
<1> QED
  BY <1>1, <1>2, <1>3, <1>4, <1>5, <1>6 DEF WorkdayStep

LEMMA AuthorityInit == Init => Authority!Init
<1> SUFFICES ASSUME Init PROVE Authority!Init
  OBVIOUS
<1>1. \A w \in Workdays : row[w].published = NoRev /\ row[w].draft = NoRev
  BY DEF Init, NoRow
<1> QED
  BY <1>1 DEF Authority!Init, At

LEMMA AuthorityStep ==
  ASSUME "DECLINE" \notin Overlaps, Inv, [Next]_vars
  PROVE  [Authority!Next]_Authority!authorityVars
<1>1. CASE Next
  <2>1. ManagerMoves => [Authority!Next]_Authority!authorityVars
    BY DEF ManagerMoves, Authority!Next
  <2> QED
    BY <1>1, <2>1, ManagerAuthority, RequestAuthority, WorkdayAuthority DEF Next
<1>2. CASE UNCHANGED vars
  BY <1>2, PointersKept DEF vars
<1> QED
  BY <1>1, <1>2

\* When no transaction comes between a decline's read and its commit, every step of
\* the routes is a proposal, a publication, a decline or a move of RosterAuthority on
\* the roster crew see and the draft behind it, or changes neither.
THEOREM RosteringImplementsAuthority ==
  ASSUME "DECLINE" \notin Overlaps
  PROVE  Spec => ImplementsAuthority
<1>1. Inv /\ [Next]_vars => [Authority!Next]_Authority!authorityVars
  BY AuthorityStep
<1> QED
  BY <1>1, AuthorityInit, InvInit, InvStep, PTL DEF Spec, ImplementsAuthority, Authority!Spec

-----------------------------------------------------------------------------
(* Replacements.  A Workday that replaces another is published for good,   *)
(* so a predecessor is never without its replacement again.                *)

LinksSound ==
  \A v \in Workdays : Live(v) /\ row[v].replaces # NoDay =>
    row[v].published # NoRev /\ row[row[v].replaces].life # "ABSENT"

\* What a step does to the life and the links of a row.
Abandoned(u) == row'[u].status = "ABANDONED" /\ row'[u].version > row[u].version
LinkKept(w) ==
  /\ row[w].life # "ABSENT" => row'[w].life # "ABSENT"
  /\ Live(w) => IF Live(w)' THEN /\ row'[w].replaces = row[w].replaces
                                 /\ row[w].published # NoRev => row'[w].published # NoRev
                ELSE row[w].published = NoRev
  /\ ~Live(w) /\ Live(w)' =>
       /\ row[w].life = "ABSENT"
       /\ row'[w].replaces # NoDay =>
            /\ row'[w].published # NoRev
            /\ row[row'[w].replaces].life # "ABSENT" /\ Abandoned(row'[w].replaces)
LinksKept == \A w \in Workdays : LinkKept(w)

\* A live row is written.
LEMMA LinkAfter ==
  ASSUME TypeInv, NEW w \in Workdays, Live(w), NEW x \in Row, row' = [row EXCEPT ![w] = x],
         x.life = "LIVE", x.replaces = row[w].replaces,
         row[w].published # NoRev => x.published # NoRev
  PROVE  LinksKept
BY DEF LinksKept, LinkKept, Live, TypeInv, TypeOK

LEMMA LinkSame ==
  ASSUME UNCHANGED row
  PROVE  LinksKept
BY DEF LinksKept, LinkKept, Live

LEMMA CloneLinks ==
  ASSUME TypeInv, NEW w \in Workdays, NEW f \in Facts, Live(w), CanClone(w), Clone(w, f)
  PROVE  LinksKept
<1>1. PICK n \in Revs : n = row[w].published /\ n + 1 \in Revs
  BY CloneEffect DEF TypeInv
<1> DEFINE x == [row[w] EXCEPT !.draft = n + 1, !.version = @ + 1]
<1>2. row[w] \in Row
  BY DEF TypeInv, TypeOK
<1>3. row' = [row EXCEPT ![w] = x]
  BY <1>1 DEF Clone
<1>4. n + 1 \in Pointer /\ row[w].version + 1 \in Nat
  BY <1>1, <1>2, RosterAssumption DEF Pointer, Revs, Row
<1>5. x.life = row[w].life /\ x.published = n /\ x.replaces = row[w].replaces
  BY <1>1, <1>2 DEF Row
<1>6. x \in Row
  BY <1>2, <1>4, RowFields, RosterAssumption DEF WorkdayStatus
<1> HIDE DEF x
<1> QED
  BY <1>1, <1>3, <1>5, <1>6, LinkAfter DEF Live

LEMMA TouchedLinks ==
  ASSUME TypeInv, NEW w \in Workdays, Live(w), row' = [row EXCEPT ![w] = Touched(w)]
  PROVE  LinksKept
<1>1. row[w] \in Row
  BY DEF TypeInv, TypeOK
<1>2. /\ Touched(w) \in Row /\ Touched(w).life = row[w].life
      /\ Touched(w).published = row[w].published /\ Touched(w).replaces = row[w].replaces
  BY <1>1 DEF Touched, Row
<1> QED
  BY <1>2, LinkAfter DEF Live

LEMMA ManagerLinks ==
  ASSUME TypeInv, NEW m \in Managers, ManagerStep(m)
  PROVE  LinksKept
<1>1. CASE DraftStored(m)
  BY <1>1, LockedDraft, TouchedLinks DEF DraftStored, Store
<1>2. ASSUME NEW p \in People, NEW s \in Slots, SelectApplication(m, p, s) PROVE LinksKept
  BY <1>2, LockedDraft, TouchedLinks DEF SelectApplication
<1>3. CASE Publish(m)
  <2>1. PICK w \in Workdays, d \in Revs : w = page[m].day /\ d = page[m].draft /\ Live(w)
    BY <1>3, PublishEffect
  <2>2. row[w] \in Row
    BY DEF TypeInv, TypeOK
  <2>3. d # NoRev
    BY RevNotNull
  <2>4. /\ PublishedRow(w, d).life = row[w].life
        /\ PublishedRow(w, d).published = d /\ PublishedRow(w, d).replaces = row[w].replaces
    BY <2>2 DEF PublishedRow, Row
  <2>6. PublishedRow(w, d) \in Row
    BY <1>3, <2>1, PublishEffect
  <2>5. row' = [row EXCEPT ![w] = PublishedRow(w, d)]
    BY <1>3, <2>1 DEF Publish
  <2> QED
    BY <2>1, <2>3, <2>4, <2>5, <2>6, LinkAfter DEF Live
<1> QED
  BY <1>1, <1>2, <1>3, ManagerCases, CloneLinks, LinkSame DEF DraftCloned

LEMMA DeclinedRowType ==
  ASSUME NEW old \in Row, NEW current \in Row, NEW n \in Revs
  PROVE  LET x == DeclinedRow(old, current, n)
         IN  /\ x \in Row /\ x.published = n /\ x.version = old.version + 1
             /\ x.life = current.life /\ x.replaces = current.replaces
             /\ x.status = current.status
             /\ old.draft = current.draft => x.draft = NoRev
<1>1. /\ old.version + 1 \in Nat /\ n \in Pointer /\ NoRev \in Pointer
      /\ current.draft \in Pointer
  BY RosterAssumption DEF Row, Revs, Pointer, NoRev
<1>2. PICK e \in Pointer : e = IF old.draft # NoRev THEN NoRev ELSE current.draft
  BY <1>1
<1>3. PICK k \in Nat : k = old.version + 1
  BY <1>1
<1> DEFINE x == [current EXCEPT !.published = n, !.draft = e, !.version = k]
<1>4. DeclinedRow(old, current, n) = x
  BY <1>2, <1>3 DEF DeclinedRow, Row
<1>5. x \in Row
  BY <1>1 DEF Row
<1>6. /\ x.published = n /\ x.draft = e /\ x.version = k /\ x.life = current.life
      /\ x.replaces = current.replaces /\ x.status = current.status
  BY DEF Row
<1> HIDE DEF x
<1> QED
  BY <1>2, <1>3, <1>4, <1>5, <1>6

LEMMA RequestLinks ==
  ASSUME TypeInv, NEW q \in Requests, RequestStep(q)
  PROVE  LinksKept
<1>1. ASSUME NEW t \in Slots, NEW policy \in Policies, NEW n \in Revs,
             DeclineCommit(q, t, policy, n)
      PROVE  LinksKept
  <2>1. PICK w \in Workdays, old \in Row : w = req[q].day /\ old = req[q].row /\ Live(w)
    BY <1>1, DeclineEffect DEF DeclineCommit, TypeInv, TypeOK, Request
  <2>3. row[w] \in Row
    BY DEF TypeInv, TypeOK
  <2>2. PICK x \in Row : /\ x = DeclinedRow(old, row[w], n) /\ x.published = n
                         /\ x.life = row[w].life /\ x.replaces = row[w].replaces
    BY <2>3, DeclinedRowType
  <2>4. row' = [row EXCEPT ![w] = x]
    BY <1>1, <2>1, <2>2 DEF DeclineCommit
  <2>5. x.life = "LIVE" /\ x.published # NoRev
    BY <2>1, <2>2, RevNotNull DEF Live
  <2> QED
    BY <2>1, <2>2, <2>4, <2>5, LinkAfter
<1>2. CASE StatusCommit(q)
  <2>1. PICK w \in Workdays : w = req[q].day /\ Live(w)
    BY <1>2, StatusEffect
  <2>2. row[w] \in Row /\ req[q] \in Request
    BY DEF TypeInv, TypeOK
  <2>3. PICK s \in WorkdayStatus, k \in Nat :
          /\ s = IF req[q].status # req[q].row.status THEN req[q].status ELSE row[w].status
          /\ k = req[q].row.version + 1
    BY <2>2 DEF Request, Row
  <2> DEFINE x == [row[w] EXCEPT !.status = s, !.version = k]
  <2>4. row' = [row EXCEPT ![w] = x]
    BY <1>2, <2>1, <2>3 DEF StatusCommit, TypeInv, TypeOK
  <2>5. /\ x \in Row /\ x.life = row[w].life /\ x.published = row[w].published
        /\ x.replaces = row[w].replaces
    BY <2>2 DEF Row
  <2> HIDE DEF x
  <2> QED
    BY <2>1, <2>4, <2>5, LinkAfter DEF Live
<1> QED
  BY <1>1, <1>2, LinkSame DEF RequestStep, DeclineRead, StatusRead, DropRequest

LEMMA WorkdayLinks ==
  ASSUME TypeInv, NEW w \in Workdays, WorkdayStep(w)
  PROVE  LinksKept
<1>0. row[w] \in Row
  BY DEF TypeInv, TypeOK
<1>1. ASSUME NEW saved \in BOOLEAN, NEW c \in [Slots -> CellInput \cup {Absent}],
             NEW f \in Facts, CreateWorkday(w, saved, c, f)
      PROVE  LinksKept
  <2>1. row[w].life = "ABSENT"
    BY <1>1 DEF CreateWorkday
  <2>2. row'[w].replaces = NoDay /\ row'[w].life = "LIVE"
    BY <1>1 DEF CreateWorkday, NoRow, TypeInv, TypeOK
  <2>3. \A v \in Workdays \ {w} : row'[v] = row[v]
    BY <1>1 DEF CreateWorkday, TypeInv, TypeOK
  <2> QED
    BY <2>1, <2>2, <2>3 DEF LinksKept, LinkKept, Live
<1>2. CASE DeleteWorkday(w)
  <2>1. row'[w].life = "DELETED" /\ row[w].published = NoRev /\ Live(w)
    BY <1>2 DEF DeleteWorkday, NoRow, TypeInv, TypeOK
  <2>2. \A v \in Workdays \ {w} : row'[v] = row[v]
    BY <1>2 DEF DeleteWorkday, TypeInv, TypeOK
  <2> QED
    BY <2>1, <2>2 DEF LinksKept, LinkKept, Live
<1>3. ASSUME NEW f \in Facts, ApplyProgramme(w, f) PROVE LinksKept
  BY <1>3, CloneLinks, LinkSame DEF ApplyProgramme
<1>4. ASSUME NEW v \in Workdays, Reschedule(w, v) PROVE LinksKept
  <2> DEFINE x == [row[w] EXCEPT !.draft = NoRev, !.status = "ABANDONED", !.version = @ + 1]
             y == ReplacementRow(w)
  <2>1. /\ v # w /\ Live(w) /\ row[v].life = "ABSENT" /\ row[w].published # NoRev
        /\ row' = [row EXCEPT ![w] = x, ![v] = y]
    BY <1>4, RescheduleEffect DEF Reschedule
  <2>2. /\ x.life = row[w].life /\ x.published = row[w].published
        /\ x.replaces = row[w].replaces /\ x.status = "ABANDONED"
        /\ x.version > row[w].version
    BY <1>0 DEF Row
  <2>3. y.life = "LIVE" /\ y.published = 1 /\ y.replaces = w
    BY DEF ReplacementRow, NoRow
  <2> HIDE DEF x, y
  <2>4. row'[w] = x /\ row'[v] = y /\ \A u \in Workdays \ {w, v} : row'[u] = row[u]
    BY <2>1 DEF TypeInv, TypeOK
  <2>5. Abandoned(w)
    BY <2>2, <2>4 DEF Abandoned
  <2>6. LinkKept(v)
    BY <2>1, <2>3, <2>4, <2>5 DEF LinkKept, Live, NoRev
  <2>7. LinkKept(w)
    BY <2>1, <2>2, <2>4 DEF LinkKept, Live
  <2> QED
    BY <2>4, <2>6, <2>7 DEF LinksKept, LinkKept, Live
<1>5. ASSUME NEW p \in People, NEW s \in Slots, ApplyForPosition(p, w, s) PROVE LinksKept
  BY <1>5, LinkSame DEF ApplyForPosition
<1> QED
  BY <1>1, <1>2, <1>3, <1>4, <1>5 DEF WorkdayStep

LEMMA LinkStep ==
  ASSUME TypeInv, [Next]_vars
  PROVE  LinksKept
BY ManagerLinks, RequestLinks, WorkdayLinks, LinkSame DEF Next, vars

LEMMA LinksStay ==
  ASSUME TypeInv, TypeInv', LinksSound, LinksKept
  PROVE  /\ LinksSound'
         /\ \A w \in Workdays : Replaced(w) => Replaced(w)'
<1>1. \A v \in Workdays : row[v].replaces \in Workdays \cup {NoDay}
  BY DEF TypeInv, TypeOK, Row
<1>2. ASSUME NEW v \in Workdays, Live(v)', row'[v].replaces # NoDay
      PROVE  row'[v].published # NoRev /\ row'[row'[v].replaces].life # "ABSENT"
  <2>1. row'[v].replaces \in Workdays
    BY <1>2 DEF TypeInv, TypeOK, Row
  <2> QED
    BY <1>2, <2>1 DEF LinksKept, LinkKept, LinksSound
<1>3. ASSUME NEW w \in Workdays, Replaced(w) PROVE Replaced(w)'
  <2>1. PICK v \in Workdays : Live(v) /\ row[v].replaces = w
    BY <1>3 DEF Replaced
  <2>2. row[v].published # NoRev
    BY <2>1, RosterAssumption DEF LinksSound
  <2>3. Live(v)' /\ row'[v].replaces = w
    BY <2>1, <2>2 DEF LinksKept, LinkKept
  <2> QED
    BY <2>3 DEF Replaced
<1> QED
  BY <1>2, <1>3 DEF LinksSound

-----------------------------------------------------------------------------
(* The numbers of revisions.  Unless the Workday was replaced, its draft,  *)
(* or its publication when it has no draft, has the highest number: the    *)
(* number ensure_draft takes next is free.                                 *)

Newest(x) == IF x.draft # NoRev THEN x.draft ELSE x.published
NewestOnTop ==
  \A w \in Workdays : Live(w) /\ ~Replaced(w) =>
    \A n \in Revs : Exists(w, n) => n <= Newest(row[w])

EditInv == Inv /\ LinksSound /\ NewestOnTop

ReplacedStays == \A w \in Workdays : Replaced(w) => Replaced(w)'

LEMMA TopKept ==
  ASSUME TypeInv, NewestOnTop, ReplacedStays,
         NEW w \in Workdays, Live(w)' => Live(w), rev'[w] = rev[w],
         Live(w)' => row'[w].published = row[w].published /\ row'[w].draft = row[w].draft
  PROVE  Live(w)' /\ ~Replaced(w)' => \A n \in Revs : Exists(w, n)' => n <= Newest(row'[w])
BY DEF NewestOnTop, ReplacedStays, Exists, Newest

LEMMA TopAfter ==
  ASSUME TypeInv, NewestOnTop, ReplacedStays,
         NEW w \in Workdays, NEW x \in Row, NEW n \in Revs, NEW r,
         row' = [row EXCEPT ![w] = x], rev' = [rev EXCEPT ![w][n] = r],
         n <= Newest(x), Live(w) \/ \A k \in Revs : ~Exists(w, k),
         Live(w) => \A k \in Revs : k <= Newest(row[w]) => k <= Newest(x)
  PROVE  NewestOnTop'
<1>1. row'[w] = x /\ \A v \in Workdays \ {w} : row'[v] = row[v] /\ rev'[v] = rev[v]
  BY DEF TypeInv, TypeOK
<1>2. \A k \in Revs \ {n} : rev'[w][k] = rev[w][k]
  BY DEF TypeInv, TypeOK
<1>3. ASSUME ~Replaced(w)', NEW k \in Revs, Exists(w, k)' PROVE k <= Newest(x)
  <2>1. CASE k = n
    BY <2>1
  <2>2. CASE k # n
    <3>1. Exists(w, k)
      BY <1>2, <1>3, <2>2 DEF Exists
    <3>2. ~Replaced(w)
      BY <1>3 DEF ReplacedStays
    <3> QED
      BY <3>1, <3>2 DEF NewestOnTop
  <2> QED
    BY <2>1, <2>2
<1>4. ASSUME NEW v \in Workdays \ {w}, Live(v)', ~Replaced(v)', NEW k \in Revs, Exists(v, k)'
      PROVE  k <= Newest(row'[v])
  BY <1>1, <1>4, TopKept DEF Live
<1> QED
  BY <1>1, <1>3, <1>4 DEF NewestOnTop

\* Revisions and pointers that stay.
LEMMA TopSame ==
  ASSUME TypeInv, NewestOnTop, ReplacedStays,
         \A w \in Workdays, n \in Revs : Exists(w, n)' => Exists(w, n),
         \A w \in Workdays : /\ Live(w)' => Live(w)
                             /\ row'[w].published = row[w].published
                             /\ row'[w].draft = row[w].draft
  PROVE  NewestOnTop'
BY DEF NewestOnTop, ReplacedStays, Newest

LEMMA CloneTop ==
  ASSUME TypeInv, NewestOnTop, ReplacedStays, NEW w \in Workdays, NEW f \in Facts,
         Live(w), CanClone(w), Clone(w, f)
  PROVE  NewestOnTop'
<1>1. PICK n \in Revs : n = row[w].published /\ n + 1 \in Revs
  BY CloneEffect DEF TypeInv
<1> DEFINE x == [row[w] EXCEPT !.draft = n + 1, !.version = @ + 1]
           r == [CloneOf(w, n) EXCEPT !.facts = f]
<1>2. row[w] \in Row
  BY DEF TypeInv, TypeOK
<1>3. row' = [row EXCEPT ![w] = x] /\ rev' = [rev EXCEPT ![w][n + 1] = r]
  BY <1>1 DEF Clone
<1>4. n + 1 \in Pointer /\ row[w].version + 1 \in Nat
  BY <1>1, <1>2, RosterAssumption DEF Pointer, Revs, Row
<1>5. x.draft = n + 1
  BY <1>2 DEF Row
<1>6. x \in Row
  BY <1>2, <1>4, RowFields, RosterAssumption DEF WorkdayStatus
<1>7. Newest(row[w]) = n /\ Newest(x) = n + 1
  BY <1>1, <1>5, RevNotNull DEF Newest, CanClone
<1> HIDE DEF x, r
<1>8. PICK d \in Revs : d = n + 1
  BY <1>1
<1>9. rev' = [rev EXCEPT ![w][d] = r]
  BY <1>3, <1>8
<1>10. d <= Newest(x)
  BY <1>7, <1>8 DEF Revs
<1>11. \A k \in Revs : k <= Newest(row[w]) => k <= Newest(x)
  BY <1>1, <1>7 DEF Revs
<1> QED
  BY <1>3, <1>6, <1>9, <1>10, <1>11, TopAfter

LEMMA ManagerTop ==
  ASSUME Inv, NewestOnTop, ReplacedStays, NEW m \in Managers, ManagerStep(m)
  PROVE  NewestOnTop'
<1>0. TypeInv
  BY DEF Inv
<1>1. ASSUME NEW w \in Workdays, NEW d \in Revs, NEW r, Live(w), d = row[w].draft,
             row' = [row EXCEPT ![w] = Touched(w)], rev' = [rev EXCEPT ![w][d] = r]
      PROVE  NewestOnTop'
  <2>1. row[w] \in Row
    BY <1>0 DEF TypeInv, TypeOK
  <2>2. Touched(w) \in Row /\ Touched(w).draft = d
    BY <1>1, <2>1 DEF Touched, Row
  <2>3. Newest(row[w]) = d /\ Newest(Touched(w)) = d /\ d <= d
    BY <1>1, <2>2, RevNotNull DEF Newest, Revs
  <2> QED
    BY <1>0, <1>1, <2>2, <2>3, TopAfter
<1>2. CASE DraftStored(m)
  <2>1. PICK c \in Crew, f \in Facts : Locked(m) /\ Store(m, c, f)
    BY <1>2 DEF DraftStored
  <2>2. PICK w \in Workdays, d \in Revs : w = page[m].day /\ d = row[w].draft /\ Live(w)
    BY <1>0, <2>1, LockedDraft
  <2>3. rev' = [rev EXCEPT ![w][d] = [rev[w][d] EXCEPT !.crew = c, !.facts = f]]
    BY <2>1, <2>2 DEF Store
  <2>4. row' = [row EXCEPT ![w] = Touched(w)]
    BY <2>1, <2>2 DEF Store
  <2> QED
    BY <1>1, <2>2, <2>3, <2>4
<1>3. ASSUME NEW p \in People, NEW s \in Slots, SelectApplication(m, p, s) PROVE NewestOnTop'
  <2>1. PICK w \in Workdays, d \in Revs : w = page[m].day /\ d = row[w].draft /\ Live(w)
    BY <1>0, <1>3, LockedDraft DEF SelectApplication
  <2>2. rev' = [rev EXCEPT ![w][d] = [rev[w][d] EXCEPT !.crew[s] = Assigned(p)]]
    BY <1>3, <2>1 DEF SelectApplication
  <2>3. row' = [row EXCEPT ![w] = Touched(w)]
    BY <1>3, <2>1 DEF SelectApplication
  <2> QED
    BY <1>1, <2>1, <2>2, <2>3
<1>4. CASE Publish(m)
  <2>1. PICK w \in Workdays, d \in Revs :
          w = page[m].day /\ d = page[m].draft /\ d = row[w].draft /\ Live(w)
    BY <1>0, <1>4, PublishEffect
  <2>2. PICK x \in Row : x = PublishedRow(w, d) /\ x.draft = NoRev /\ x.published = d
    BY <1>0, <1>4, <2>1, PublishEffect
  <2>3. Newest(row[w]) = d /\ Newest(x) = d /\ d <= d
    BY <2>1, <2>2, RevNotNull DEF Newest, Revs
  <2>4. row' = [row EXCEPT ![w] = x]
    BY <1>4, <2>1, <2>2 DEF Publish
  <2> DEFINE r == [rev[w][d] EXCEPT !.state = "PUBLISHED"]
  <2>5. rev' = [rev EXCEPT ![w][d] = r]
    BY <1>4, <2>1 DEF Publish
  <2> HIDE DEF r
  <2>6. d <= Newest(x) /\ \A k \in Revs : k <= Newest(row[w]) => k <= Newest(x)
    BY <2>3
  <2> QED
    BY <1>0, <2>1, <2>4, <2>5, <2>6, TopAfter
<1>5. CASE UNCHANGED <<row, rev, app>>
  BY <1>0, <1>5, TopSame DEF Live, Exists
<1> QED
  BY <1>0, <1>2, <1>3, <1>4, <1>5, ManagerCases, CloneTop DEF DraftCloned

LEMMA RequestTop ==
  ASSUME "DECLINE" \notin Overlaps, Inv, NewestOnTop, ReplacedStays,
         NEW q \in Requests, RequestStep(q)
  PROVE  NewestOnTop'
<1>0. TypeInv
  BY DEF Inv
<1>1. ASSUME NEW t \in Slots, NEW policy \in Policies, NEW n \in Revs,
             DeclineCommit(q, t, policy, n)
      PROVE  NewestOnTop'
  <2>1. PICK w \in Workdays, o \in Revs :
          w = req[q].day /\ o = req[q].row.published /\ Live(w) /\ req[q].kind = "DECLINE"
    BY <1>0, <1>1, DeclineEffect
  <2>2. req[q].row = row[w]
    BY <1>1, <2>1 DEF DeclineCommit, Undisturbed
  <2>3. row[w] \in Row
    BY <1>0 DEF TypeInv, TypeOK
  <2>4. PICK x \in Row : x = DeclinedRow(row[w], row[w], n) /\ x.draft = NoRev /\ x.published = n
    BY <2>3, DeclinedRowType
  <2>5. row' = [row EXCEPT ![w] = x]
    BY <1>1, <2>1, <2>2, <2>4 DEF DeclineCommit
  <2>6. rev' = [rev EXCEPT ![w][n] = DeclinedRevision(w, o, t, policy)]
    BY <1>1, <2>1 DEF DeclineCommit
  <2>7. rev[w][o].state = "PUBLISHED" /\ IsNextNumber(w, n)
    BY <1>1, <2>1 DEF DeclineCommit, Inv, RequestsSound
  <2>8. \A k \in Revs : Exists(w, k) => k <= n
    BY <2>7 DEF IsNextNumber, Revs
  <2>9. Exists(w, Newest(row[w])) /\ Newest(row[w]) \in Revs
    <3>1. o = row[w].published /\ Exists(w, o)
      BY <2>1, <2>2, <2>7 DEF Exists
    <3>2. row[w].draft # NoRev => row[w].draft \in Revs /\ Exists(w, row[w].draft)
      BY <1>0, DraftIsDraft DEF Exists, Inv
    <3> QED
      BY <3>1, <3>2 DEF Newest
  <2>10. Newest(row[w]) <= n /\ n <= n /\ Newest(x) = n
    BY <2>4, <2>8, <2>9 DEF Newest, Revs
  <2>11. \A k \in Revs : k <= Newest(row[w]) => k <= n
    <3>1. PICK h \in Revs : h = Newest(row[w])
      BY <2>9
    <3> QED
      BY <2>10, <3>1 DEF Revs
  <2> QED
    BY <1>0, <2>1, <2>5, <2>6, <2>10, <2>11, TopAfter
<1>2. CASE StatusCommit(q)
  <2>1. PICK w \in Workdays, x \in Row :
          /\ x.published = row[w].published /\ x.draft = row[w].draft /\ Live(w)
          /\ row' = [row EXCEPT ![w] = x]
    BY <1>0, <1>2, StatusEffect
  <2>2. \A v \in Workdays : /\ row'[v].published = row[v].published
                            /\ row'[v].draft = row[v].draft
                            /\ Live(v)' => Live(v)
    BY <1>0, <2>1 DEF TypeInv, TypeOK, Live
  <2> QED
    BY <1>0, <1>2, <2>2, TopSame DEF StatusCommit, Exists
<1>3. ASSUME UNCHANGED <<row, rev>> PROVE NewestOnTop'
  BY <1>0, <1>3, TopSame DEF Live, Exists
<1> QED
  BY <1>1, <1>2, <1>3 DEF RequestStep, DeclineRead, StatusRead, DropRequest

LEMMA WorkdayTop ==
  ASSUME Inv, NewestOnTop, ReplacedStays, NEW w \in Workdays, WorkdayStep(w)
  PROVE  NewestOnTop'
<1>0. TypeInv /\ row[w] \in Row
  BY DEF Inv, TypeInv, TypeOK
<1>1. ASSUME NEW saved \in BOOLEAN, NEW c \in [Slots -> CellInput \cup {Absent}],
             NEW f \in Facts, CreateWorkday(w, saved, c, f)
      PROVE  NewestOnTop'
  <2>1. row[w].life = "ABSENT" /\ 1 \in Revs
    BY <1>0, <1>1, CreateEffect
  <2>2. PICK x \in Row : x.draft = 1 /\ row' = [row EXCEPT ![w] = x]
    BY <1>0, <1>1, CreateEffect
  <2>3. PICK r \in Revision : rev' = [rev EXCEPT ![w][1] = r]
    BY <1>0, <1>1, CreateEffect
  <2>4. \A k \in Revs : ~Exists(w, k)
    BY <2>1, AbsentHasNone DEF Exists, Inv
  <2>5. 1 <= Newest(x)
    BY <2>2 DEF Newest, NoRev
  <2> QED
    BY <1>0, <2>1, <2>2, <2>3, <2>4, <2>5, TopAfter DEF Live
<1>2. CASE DeleteWorkday(w)
  <2>1. ~Live(w)'
    BY <1>0, <1>2 DEF DeleteWorkday, NoRow, TypeInv, TypeOK, Live
  <2>2. \A v \in Workdays \ {w} : row'[v] = row[v] /\ rev'[v] = rev[v]
    BY <1>0, <1>2 DEF DeleteWorkday, TypeInv, TypeOK
  <2> QED
    BY <1>0, <2>1, <2>2, TopKept DEF NewestOnTop, Live
<1>3. ASSUME NEW f \in Facts, ApplyProgramme(w, f) PROVE NewestOnTop'
  <2>1. CASE CanClone(w) /\ Clone(w, f)
    BY <1>0, <1>3, <2>1, CloneTop DEF ApplyProgramme
  <2>2. CASE row[w].draft # NoRev /\ UNCHANGED row
             /\ rev' = [rev EXCEPT ![w][row[w].draft].facts = f]
    <3>1. PICK d \in Revs : d = row[w].draft /\ rev[w][d].state = "DRAFT"
      BY <2>2, DraftIsDraft DEF Inv
    <3>2. \A v \in Workdays, n \in Revs : rev'[v][n].state = rev[v][n].state
      BY <1>0, <2>2, <3>1 DEF TypeInv, TypeOK, Revision
    <3> QED
      BY <1>0, <2>2, <3>2, TopSame DEF Live, Exists
  <2> QED
    BY <1>3, <2>1, <2>2 DEF ApplyProgramme
<1>4. ASSUME NEW v \in Workdays, Reschedule(w, v) PROVE NewestOnTop'
  <2>1. v # w /\ row[v].life = "ABSENT" /\ 1 \in Revs
    BY <1>0, <1>4, RescheduleEffect
  <2>2. /\ row'[v] = ReplacementRow(w)
        /\ \A u \in Workdays \ {w, v} : row'[u] = row[u] /\ rev'[u] = rev[u]
        /\ \A k \in Revs \ {1} : rev'[v][k] = rev[v][k]
    BY <1>0, <1>4, <2>1 DEF Reschedule, TypeInv, TypeOK
  <2>3. Replaced(w)'
    BY <2>2 DEF Replaced, ReplacementRow, NoRow, Live
  <2>4. Newest(row'[v]) = 1
    BY <2>2 DEF ReplacementRow, NoRow, Newest, NoRev
  <2>5. \A k \in Revs : Exists(v, k)' => k = 1
    BY <2>1, <2>2, AbsentHasNone DEF Exists, Inv
  <2>6. ASSUME NEW u \in Workdays \ {w, v}, Live(u)', ~Replaced(u)', NEW k \in Revs, Exists(u, k)'
        PROVE  k <= Newest(row'[u])
    BY <1>0, <2>2, <2>6, TopKept DEF Live
  <2> QED
    BY <2>3, <2>4, <2>5, <2>6 DEF NewestOnTop
<1>5. ASSUME NEW p \in People, NEW s \in Slots, ApplyForPosition(p, w, s) PROVE NewestOnTop'
  BY <1>0, <1>5, TopSame DEF ApplyForPosition, Live, Exists
<1> QED
  BY <1>1, <1>2, <1>3, <1>4, <1>5 DEF WorkdayStep

LEMMA EditInit == Init => EditInv
BY InvInit DEF Init, EditInv, LinksSound, NewestOnTop, Live, NoRow

LEMMA EditStep ==
  ASSUME "DECLINE" \notin Overlaps
  PROVE  EditInv /\ [Next]_vars => EditInv'
<1> SUFFICES ASSUME EditInv, [Next]_vars PROVE EditInv'
  OBVIOUS
<1>0. Inv /\ TypeInv /\ LinksSound /\ NewestOnTop
  BY DEF EditInv, Inv
<1>1. Inv' /\ TypeInv'
  BY <1>0, InvStep, TypeStep
<1>2. LinksSound' /\ ReplacedStays
  BY <1>0, <1>1, LinkStep, LinksStay DEF ReplacedStays
<1>3. CASE Next
  <2>1. NewestOnTop'
    BY <1>0, <1>2, <1>3, ManagerTop, RequestTop, WorkdayTop DEF Next
  <2> QED
    BY <1>1, <1>2, <2>1 DEF EditInv
<1>4. CASE UNCHANGED vars
  <2>1. NewestOnTop'
    BY <1>0, <1>2, <1>4, TopSame DEF vars, Live, Exists
  <2> QED
    BY <1>1, <1>2, <2>1 DEF EditInv
<1> QED
  BY <1>3, <1>4

\* When no transaction comes between a decline's read and its commit, the editor of
\* every Workday that was not replaced opens: the number ensure_draft gives the next
\* draft is free, whoever declines, publishes or discards what in between.
THEOREM EditorAlwaysOpens ==
  ASSUME "DECLINE" \notin Overlaps
  PROVE  Spec => []EditableUnlessReplaced
<1>1. EditInv => EditableUnlessReplaced
  <2> SUFFICES ASSUME EditInv, NEW w \in Workdays, ~Replaced(w), Live(w),
                      row[w].draft = NoRev, row[w].published < MaxRevision
               PROVE  ~Exists(w, row[w].published + 1)
    BY DEF EditableUnlessReplaced, EditorOpens
  <2>1. PICK n \in Pointer : n = row[w].published
    BY DEF EditInv, Inv, TypeInv, TypeOK, Row
  <2>2. n + 1 \in Revs /\ ~(n + 1 <= n)
    BY <2>1, RosterAssumption DEF Pointer, Revs
  <2>3. Newest(row[w]) = n
    BY <2>1 DEF Newest
  <2> QED
    BY <2>1, <2>2, <2>3 DEF EditInv, NewestOnTop
<1> QED
  BY <1>1, EditInit, EditStep, PTL DEF Spec

-----------------------------------------------------------------------------
(* Applications that wait for a decision.                                  *)

PendInv == AppInv /\ DraftOnCurrent /\ PendingOnCurrent

\* The publication of w stays, or w has none to apply to.
PublishedKept ==
  \A w \in Workdays : \/ row'[w].published = row[w].published
                      \/ \A n \in Revs : rev[w][n].state # "PUBLISHED"

LEMMA PendingStays ==
  ASSUME ApplicationsSound, PendingOnCurrent, PublishedKept, UNCHANGED app
  PROVE  PendingOnCurrent'
BY DEF ApplicationsSound, PendingOnCurrent, PublishedKept, Pending

LEMMA OnePending ==
  ASSUME TypeInv, ApplicationsSound, PendingOnCurrent, PublishedKept,
         NEW w \in Workdays, NEW n \in Revs, NEW s \in Slots, NEW p \in People, NEW a,
         n = row[w].published, row'[w].published = n, app' = [app EXCEPT ![w][n][s][p] = a]
  PROVE  PendingOnCurrent'
<1>1. \A v \in Workdays, k \in Revs, z \in Slots, o \in People :
        ~(v = w /\ k = n /\ z = s /\ o = p) => app'[v][k][z][o] = app[v][k][z][o]
  BY DEF TypeInv, TypeOK
<1> QED
  BY <1>1 DEF ApplicationsSound, PendingOnCurrent, PublishedKept, Pending

LEMMA SameRow ==
  ASSUME TypeInv, NEW w \in Workdays, NEW x \in Row, row' = [row EXCEPT ![w] = x],
         x.published = row[w].published
  PROVE  PublishedKept
BY DEF TypeInv, TypeOK, PublishedKept

LEMMA ClonedKept ==
  ASSUME TypeInv, NEW w \in Workdays, NEW f \in Facts, CanClone(w), Clone(w, f)
  PROVE  PublishedKept
<1>1. PICK n \in Revs : n = row[w].published /\ n + 1 \in Revs
  BY CloneEffect DEF TypeInv
<1> DEFINE x == [row[w] EXCEPT !.draft = n + 1, !.version = @ + 1]
<1>2. row[w] \in Row
  BY DEF TypeInv, TypeOK
<1>3. row' = [row EXCEPT ![w] = x]
  BY <1>1 DEF Clone
<1>4. x.published = row[w].published
  BY <1>2 DEF Row
<1> HIDE DEF x
<1> QED
  BY <1>3, <1>4 DEF PublishedKept, TypeInv, TypeOK

LEMMA TouchedKept ==
  ASSUME TypeInv, NEW w \in Workdays, row' = [row EXCEPT ![w] = Touched(w)]
  PROVE  PublishedKept /\ row'[w].published = row[w].published
<1>1. row[w] \in Row
  BY DEF TypeInv, TypeOK
<1>2. Touched(w) \in Row /\ Touched(w).published = row[w].published
  BY <1>1 DEF Touched, Row
<1> QED
  BY <1>2 DEF PublishedKept, TypeInv, TypeOK

LEMMA PublishPending ==
  ASSUME PendInv, NEW m \in Managers, Publish(m)
  PROVE  PendingOnCurrent'
<1>0. TypeInv /\ PendingOnCurrent
  BY DEF PendInv, AppInv, Inv
<1>1. PICK w \in Workdays, d \in Revs :
        w = page[m].day /\ d = page[m].draft /\ d = row[w].draft
  BY <1>0, PublishEffect
<1>2. PICK b \in Pointer : b = rev[w][d].basedOn
  BY <1>0 DEF TypeInv, TypeOK, Revision
<1>3. b = row[w].published
  BY <1>1, <1>2 DEF Publish
<1>4. \A v \in Workdays \ {w} : row'[v] = row[v] /\ app'[v] = app[v]
  BY <1>0, <1>1 DEF Publish, TypeInv, TypeOK
<1>5. ASSUME NEW k \in Revs, NEW s \in Slots, NEW p \in People,
             app'[w][k][s][p].status \in Pending
      PROVE  FALSE
  <2>1. CASE b = NoRev
    <3>1. app' = app
      BY <1>0, <1>1, <1>2, <2>1 DEF Publish, TypeInv, TypeOK
    <3>2. k = b
      BY <1>0, <1>3, <1>5, <3>1 DEF PendingOnCurrent
    <3> QED
      BY <2>1, <3>2, RevNotNull
  <2>2. CASE b # NoRev
    <3>1. b \in Revs
      BY <2>2, RosterAssumption DEF Pointer, Revs, NoRev
    <3>2. app' = [app EXCEPT ![w] = Decided(w, d, b)]
      BY <1>1, <1>2, <2>2 DEF Publish
    <3>3. app'[w] = Decided(w, d, b)
      BY <1>0, <3>2 DEF TypeInv, TypeOK
    <3>4. CASE k = b
      <4>1. /\ app[w][b][s][p].status = "NONE" => Decided(w, d, b)[b][s][p].status = "NONE"
            /\ app[w][b][s][p].status # "NONE" =>
                 Decided(w, d, b)[b][s][p].status \in {"ACCEPTED", "NOT_SELECTED"}
        BY <1>0, <3>1, DecidedAt
      <4> QED
        BY <1>5, <3>3, <3>4, <4>1 DEF Pending
    <3>5. CASE k # b
      <4>1. Decided(w, d, b)[k][s][p] = app[w][k][s][p]
        BY <1>0, <3>1, <3>5, DecidedAt
      <4>2. k = row[w].published
        BY <1>0, <1>5, <3>3, <4>1 DEF PendingOnCurrent
      <4> QED
        BY <1>3, <3>5, <4>2
    <3> QED
      BY <3>4, <3>5
  <2> QED
    BY <2>1, <2>2
<1> QED
  BY <1>0, <1>4, <1>5 DEF PendingOnCurrent

LEMMA DeclinePending ==
  ASSUME "DECLINE" \notin Overlaps, PendInv, NEW q \in Requests, NEW t \in Slots,
         NEW policy \in Policies, NEW n \in Revs, DeclineCommit(q, t, policy, n)
  PROVE  PendingOnCurrent'
<1>0. TypeInv /\ RequestsSound /\ PendingOnCurrent /\ ApplicationsSound
  BY DEF PendInv, AppInv, Inv
<1>1. PICK w \in Workdays, r \in Revs :
        w = req[q].day /\ r = req[q].row.published /\ req[q].kind = "DECLINE"
  BY <1>0, DeclineEffect
<1>2. req[q].row = row[w] /\ r = row[w].published
  BY <1>1 DEF DeclineCommit, Undisturbed
<1>3. r # n
  <2>1. rev[w][n].state = "NONE"
    BY <1>1 DEF DeclineCommit, IsNextNumber, Exists, Revs
  <2> QED
    BY <1>0, <1>1, <2>1 DEF RequestsSound
<1>4. row'[w].published = n
  <2>1. row[w] \in Row
    BY <1>0 DEF TypeInv, TypeOK
  <2>2. PICK x \in Row : x = DeclinedRow(row[w], row[w], n) /\ x.published = n
    BY <2>1, DeclinedRowType
  <2>3. row' = [row EXCEPT ![w] = x]
    BY <1>1, <1>2, <2>2 DEF DeclineCommit
  <2> QED
    BY <1>0, <2>2, <2>3 DEF TypeInv, TypeOK
<1>5. app'[w] = Carried(w, r, n, t)
  BY <1>0, <1>1 DEF DeclineCommit, TypeInv, TypeOK
<1>6. \A v \in Workdays \ {w} : row'[v] = row[v] /\ app'[v] = app[v]
  BY <1>0, <1>1 DEF DeclineCommit, TypeInv, TypeOK
<1>7. ASSUME NEW k \in Revs, NEW s \in Slots, NEW p \in People,
             app'[w][k][s][p].status \in Pending, k # n
      PROVE  FALSE
  <2> DEFINE moves == s # t /\ app[w][r][s][p].status \in Pending
  <2>1. app'[w][k][s][p].status = IF moves /\ k = r THEN "CLOSED" ELSE app[w][k][s][p].status
    BY <1>0, <1>3, <1>5, <1>7, CarriedAt
  <2>2. ~(moves /\ k = r) /\ app[w][k][s][p].status \in Pending
    BY <1>7, <2>1 DEF Pending
  <2>3. k = r
    BY <1>0, <1>2, <2>2 DEF PendingOnCurrent
  <2>4. s = t
    BY <2>2, <2>3
  <2>5. rev[w][r].crew[t].status = "OPEN"
    BY <1>0, <2>2, <2>3, <2>4 DEF ApplicationsSound, Pending
  <2>6. rev[w][r].crew[t].status = "ASSIGNED"
    BY <1>1 DEF DeclineCommit, Assigned
  <2> QED
    BY <2>5, <2>6
<1> QED
  BY <1>0, <1>4, <1>6, <1>7 DEF PendingOnCurrent

LEMMA ManagerPending ==
  ASSUME PendInv, NEW m \in Managers, ManagerStep(m)
  PROVE  PendingOnCurrent'
<1>0. TypeInv /\ PendingOnCurrent /\ ApplicationsSound
  BY DEF PendInv, AppInv, Inv
<1>1. ASSUME NEW p \in People, NEW s \in Slots, SelectApplication(m, p, s)
      PROVE  PendingOnCurrent'
  <2>1. PICK w \in Workdays, d \in Revs : w = page[m].day /\ d = row[w].draft
    BY <1>0, <1>1, LockedDraft DEF SelectApplication
  <2>2. row[w] \in Row
    BY <1>0 DEF TypeInv, TypeOK
  <2>3. PICK r \in Revs : r = row[w].published
    <3>1. row[w].published # NoRev
      BY <1>1, <2>1 DEF SelectApplication
    <3> QED
      BY <2>2, <3>1, RosterAssumption DEF Row, Pointer, Revs, NoRev
  <2> DEFINE a == [status |-> "SELECTED", draft |-> d]
  <2>4. app' = [app EXCEPT ![w][r][s][p] = a]
    BY <1>1, <2>1, <2>3 DEF SelectApplication
  <2>5. PublishedKept /\ row'[w].published = r
    BY <1>0, <1>1, <2>1, <2>3, TouchedKept DEF SelectApplication
  <2> HIDE DEF a
  <2> QED
    BY <1>0, <2>3, <2>4, <2>5, OnePending
<1>2. CASE DraftStored(m)
  <2>1. PICK w \in Workdays : w = page[m].day
    BY <1>0, <1>2, LockedDraft DEF DraftStored
  <2>2. row' = [row EXCEPT ![w] = Touched(w)] /\ app' = app
    BY <1>2, <2>1 DEF DraftStored, Store
  <2> QED
    BY <1>0, <2>2, TouchedKept, PendingStays
<1>3. CASE DraftCloned
  BY <1>0, <1>3, ClonedKept, PendingStays DEF DraftCloned
<1>4. CASE UNCHANGED <<row, rev, app>>
  BY <1>0, <1>4, PendingStays DEF PublishedKept
<1> QED
  BY <1>0, <1>1, <1>2, <1>3, <1>4, PublishPending, ManagerCases

LEMMA RequestPending ==
  ASSUME "DECLINE" \notin Overlaps, PendInv, NEW q \in Requests, RequestStep(q)
  PROVE  PendingOnCurrent'
<1>0. TypeInv /\ PendingOnCurrent /\ ApplicationsSound
  BY DEF PendInv, AppInv, Inv
<1>1. CASE StatusCommit(q)
  <2>1. PICK w \in Workdays, x \in Row :
          x.published = row[w].published /\ row' = [row EXCEPT ![w] = x]
    BY <1>0, <1>1, StatusEffect
  <2> QED
    BY <1>0, <1>1, <2>1, SameRow, PendingStays DEF StatusCommit
<1>2. CASE UNCHANGED <<row, app>>
  BY <1>0, <1>2, PendingStays DEF PublishedKept
<1> QED
  BY <1>1, <1>2, DeclinePending DEF RequestStep, DeclineRead, StatusRead, DropRequest

LEMMA WorkdayPending ==
  ASSUME PendInv, NEW w \in Workdays, WorkdayStep(w)
  PROVE  PendingOnCurrent'
<1>0. TypeInv /\ PointersSound /\ PendingOnCurrent /\ ApplicationsSound
  BY DEF PendInv, AppInv, Inv
<1>1. ASSUME NEW saved \in BOOLEAN, NEW c \in [Slots -> CellInput \cup {Absent}],
             NEW f \in Facts, CreateWorkday(w, saved, c, f)
      PROVE  PendingOnCurrent'
  <2>1. row[w].life = "ABSENT" /\ \A v \in Workdays \ {w} : row'[v] = row[v]
    BY <1>0, <1>1 DEF CreateWorkday, TypeInv, TypeOK
  <2>2. \A n \in Revs : rev[w][n].state # "PUBLISHED"
    BY <1>0, <2>1, AbsentHasNone
  <2> QED
    BY <1>0, <1>1, <2>1, <2>2, PendingStays DEF CreateWorkday, PublishedKept
<1>2. CASE DeleteWorkday(w)
  BY <1>0, <1>2, PendingStays DEF DeleteWorkday, PublishedKept, TypeInv, TypeOK
<1>3. ASSUME NEW f \in Facts, ApplyProgramme(w, f) PROVE PendingOnCurrent'
  <2>1. CASE CanClone(w) /\ Clone(w, f)
    BY <1>0, <1>3, <2>1, ClonedKept, PendingStays DEF ApplyProgramme
  <2>2. CASE UNCHANGED row
    BY <1>0, <1>3, <2>2, PendingStays DEF ApplyProgramme, PublishedKept
  <2> QED
    BY <1>3, <2>1, <2>2 DEF ApplyProgramme
<1>4. ASSUME NEW v \in Workdays, Reschedule(w, v) PROVE PendingOnCurrent'
  <2> DEFINE x == [row[w] EXCEPT !.draft = NoRev, !.status = "ABANDONED", !.version = @ + 1]
             y == ReplacementRow(w)
  <2>1. v # w /\ row[v].life = "ABSENT" /\ row' = [row EXCEPT ![w] = x, ![v] = y]
    BY <1>0, <1>4, RescheduleEffect DEF Reschedule
  <2>2. x.published = row[w].published
    <3>1. row[w] \in Row
      BY <1>0 DEF TypeInv, TypeOK
    <3> QED
      BY <3>1 DEF Row
  <2> HIDE DEF x, y
  <2>3. /\ row'[w].published = row[w].published
        /\ \A u \in Workdays \ {w, v} : row'[u] = row[u]
    BY <1>0, <2>1, <2>2 DEF TypeInv, TypeOK
  <2>4. \A n \in Revs : rev[v][n].state # "PUBLISHED"
    BY <1>0, <2>1, AbsentHasNone
  <2> QED
    BY <1>0, <1>4, <2>3, <2>4, PendingStays DEF Reschedule, PublishedKept
<1>5. ASSUME NEW p \in People, NEW s \in Slots, ApplyForPosition(p, w, s)
      PROVE  PendingOnCurrent'
  <2>1. row[w] \in Row
    BY <1>0 DEF TypeInv, TypeOK
  <2>2. PICK r \in Revs : r = row[w].published
    BY <1>5, <2>1, RosterAssumption DEF ApplyForPosition, Row, Pointer, Revs, NoRev
  <2> DEFINE a == [status |-> "APPLIED", draft |-> NoRev]
  <2>3. app' = [app EXCEPT ![w][r][s][p] = a] /\ UNCHANGED row
    BY <1>5, <2>2 DEF ApplyForPosition
  <2> HIDE DEF a
  <2> QED
    BY <1>0, <2>2, <2>3, OnePending DEF PublishedKept
<1> QED
  BY <1>1, <1>2, <1>3, <1>4, <1>5 DEF WorkdayStep

LEMMA PendInit == Init => PendInv
BY AppInit, LineInit DEF PendInv, LineInv, Init, PendingOnCurrent, NoApplication, Pending

LEMMA PendStep ==
  ASSUME "DECLINE" \notin Overlaps
  PROVE  PendInv /\ [Next]_vars => PendInv'
<1> SUFFICES ASSUME PendInv, [Next]_vars PROVE PendInv'
  OBVIOUS
<1>1. AppInv' /\ DraftOnCurrent'
  BY AppStep, LineInvStep DEF PendInv, LineInv, AppInv
<1>2. CASE Next
  <2>1. PendingOnCurrent'
    BY <1>2, ManagerPending, RequestPending, WorkdayPending DEF Next
  <2> QED
    BY <1>1, <2>1 DEF PendInv
<1>3. CASE UNCHANGED vars
  <2>1. PendingOnCurrent'
    BY <1>3 DEF vars, PendInv, PendingOnCurrent
  <2> QED
    BY <1>1, <2>1 DEF PendInv
<1> QED
  BY <1>2, <1>3

\* When no transaction comes between a decline's read and its commit, every
\* application that waits for a decision is on the current publication: publication
\* decides those of the one it supersedes and a decline carries them to its own.
THEOREM PendingAlwaysOnCurrent ==
  ASSUME "DECLINE" \notin Overlaps
  PROVE  Spec => []PendingOnCurrent
<1>1. PendInv => PendingOnCurrent
  BY DEF PendInv
<1> QED
  BY <1>1, PendInit, PendStep, PTL DEF Spec

-----------------------------------------------------------------------------
(* Versions.  A step that writes the row of a Workday, or its revisions,   *)
(* advances its version, but for programme facts that are copied and for   *)
(* requests that commit over a row they had not read.  When nothing        *)
(* overlaps, neither happens to a Workday that a page has open, and an     *)
(* open page shows the draft its version stands for.                       *)

PageCurrent(m, w) ==
  page[m].stage # "IDLE" /\ page[m].day = w =>
    /\ row[w].life # "ABSENT"
    /\ Live(w) =>
         /\ page[m].version <= row[w].version
         /\ page[m].version = row[w].version /\ row[w].draft # NoRev =>
              /\ page[m].draft = row[w].draft
              /\ page[m].stage = "SHOWN" =>
                   /\ page[m].crew = rev[w][row[w].draft].crew
                   /\ page[m].facts = rev[w][row[w].draft].facts
PagesCurrent == \A m \in Managers, w \in Workdays : PageCurrent(m, w)

FreshInv == Inv /\ LinksSound /\ PagesCurrent

\* What a step does to a Workday that stays: its version tells a change ...
RowKept(w) ==
  Live(w) /\ Live(w)' =>
    /\ row'[w].version >= row[w].version
    /\ row'[w] # row[w] \/ rev'[w] # rev[w] => row'[w].version > row[w].version

\* ... unless programme facts are copied, or a request overlapped.
FactsCopied(w) ==
  /\ row'[w] = row[w]
  /\ page' = page
  /\ Lineage(w)' = Lineage(w)
  /\ "PROGRAMME" \in Overlaps \/ \A m \in Managers : page[m].day # w
Overtaken(w) == OvertakenCommit(w) /\ Overlaps # {}

RowsKept == \A w \in Workdays : RowKept(w) \/ FactsCopied(w) \/ Overtaken(w)

LEMMA OthersKept ==
  ASSUME TypeInv, NEW w \in Workdays,
         \A v \in Workdays \ {w} : row'[v] = row[v] /\ rev'[v] = rev[v],
         RowKept(w) \/ FactsCopied(w) \/ Overtaken(w)
  PROVE  RowsKept
<1>1. \A v \in Workdays : row[v].version \in Nat
  BY DEF TypeInv, TypeOK, Row
<1>2. \A v \in Workdays \ {w} : RowKept(v)
  BY <1>1 DEF RowKept
<1> QED
  BY <1>2 DEF RowsKept

LEMMA RowsSame ==
  ASSUME TypeInv, UNCHANGED <<row, rev>>
  PROVE  RowsKept
<1>1. \A w \in Workdays : row[w].version \in Nat
  BY DEF TypeInv, TypeOK, Row
<1> QED
  BY <1>1 DEF RowsKept, RowKept

LEMMA RowAfter ==
  ASSUME TypeInv, NEW w \in Workdays, NEW x \in Row, row' = [row EXCEPT ![w] = x],
         \A v \in Workdays \ {w} : rev'[v] = rev[v],
         x.version > row[w].version
  PROVE  RowsKept
<1>1. row[w].version \in Nat /\ x.version \in Nat
  BY DEF TypeInv, TypeOK, Row
<1>2. row'[w] = x /\ \A v \in Workdays \ {w} : row'[v] = row[v]
  BY DEF TypeInv, TypeOK
<1>3. RowKept(w)
  BY <1>1, <1>2 DEF RowKept
<1> QED
  BY <1>2, <1>3, OthersKept

LEMMA CloneRows ==
  ASSUME TypeInv, NEW w \in Workdays, NEW f \in Facts, CanClone(w), Clone(w, f)
  PROVE  RowsKept
<1>1. PICK n \in Revs : n = row[w].published /\ n + 1 \in Revs
  BY CloneEffect DEF TypeInv
<1> DEFINE x == [row[w] EXCEPT !.draft = n + 1, !.version = @ + 1]
<1>2. row[w] \in Row
  BY DEF TypeInv, TypeOK
<1>3. row' = [row EXCEPT ![w] = x] /\ \A v \in Workdays \ {w} : rev'[v] = rev[v]
  BY <1>1 DEF Clone, TypeInv, TypeOK
<1>4. n + 1 \in Pointer /\ row[w].version + 1 \in Nat
  BY <1>1, <1>2, RosterAssumption DEF Pointer, Revs, Row
<1>5. x.version > row[w].version
  BY <1>2 DEF Row
<1>6. x \in Row
  BY <1>2, <1>4, RowFields, RosterAssumption DEF WorkdayStatus
<1> HIDE DEF x
<1> QED
  BY <1>3, <1>5, <1>6, RowAfter

LEMMA TouchedRows ==
  ASSUME TypeInv, NEW w \in Workdays, row' = [row EXCEPT ![w] = Touched(w)],
         \A v \in Workdays \ {w} : rev'[v] = rev[v]
  PROVE  RowsKept
<1>1. row[w] \in Row
  BY DEF TypeInv, TypeOK
<1>4. Touched(w) \in Row
  BY <1>1 DEF Touched, Row
<1>2. PICK x \in Row : x = Touched(w)
  BY <1>4
<1>3. x.version > row[w].version
  BY <1>1, <1>2 DEF Touched, Row
<1> QED
  BY <1>2, <1>3, RowAfter

LEMMA ManagerRows ==
  ASSUME TypeInv, NEW m \in Managers, ManagerStep(m)
  PROVE  RowsKept
<1>1. ASSUME NEW p \in People, NEW s \in Slots, SelectApplication(m, p, s)
      PROVE  RowsKept
  <2>1. PICK w \in Workdays : w = page[m].day
    BY <1>1, LockedDraft DEF SelectApplication
  <2>2. row' = [row EXCEPT ![w] = Touched(w)] /\ \A v \in Workdays \ {w} : rev'[v] = rev[v]
    BY <1>1, <2>1 DEF SelectApplication, TypeInv, TypeOK
  <2> QED
    BY <2>2, TouchedRows
<1>2. CASE DraftStored(m)
  <2>1. PICK w \in Workdays : w = page[m].day
    BY <1>2, LockedDraft DEF DraftStored
  <2>2. row' = [row EXCEPT ![w] = Touched(w)] /\ \A v \in Workdays \ {w} : rev'[v] = rev[v]
    BY <1>2, <2>1 DEF DraftStored, Store, TypeInv, TypeOK
  <2> QED
    BY <2>2, TouchedRows
<1>3. CASE Publish(m)
  <2>1. PICK w \in Workdays, d \in Revs : w = page[m].day /\ d = page[m].draft
    BY <1>3, PublishEffect
  <2>2. row[w] \in Row /\ PublishedRow(w, d) \in Row
    BY <1>3, <2>1, PublishEffect DEF TypeInv, TypeOK
  <2>3. PICK x \in Row : x = PublishedRow(w, d)
    BY <2>2
  <2>4. x.version > row[w].version
    BY <2>2, <2>3 DEF PublishedRow, Row
  <2>5. row' = [row EXCEPT ![w] = x] /\ \A v \in Workdays \ {w} : rev'[v] = rev[v]
    BY <1>3, <2>1, <2>3 DEF Publish, TypeInv, TypeOK
  <2> QED
    BY <2>4, <2>5, RowAfter
<1> QED
  BY <1>1, <1>2, <1>3, ManagerCases, CloneRows, RowsSame DEF DraftCloned

LEMMA RequestRows ==
  ASSUME TypeInv, NEW q \in Requests, RequestStep(q)
  PROVE  RowsKept
<1>1. ASSUME NEW w \in Workdays, w = req[q].day, req[q].kind # "NONE", Undisturbed(q),
             req[q].row # row[w], req' = [req EXCEPT ![q] = NoRequest],
             \A v \in Workdays \ {w} : row'[v] = row[v] /\ rev'[v] = rev[v]
      PROVE  RowsKept
  <2>1. req'[q] = NoRequest
    BY <1>1 DEF TypeInv, TypeOK
  <2>2. Overtaken(w)
    BY <1>1, <2>1 DEF Overtaken, OvertakenCommit, Undisturbed
  <2> QED
    BY <1>1, <2>2, OthersKept
<1>2. ASSUME NEW t \in Slots, NEW policy \in Policies, NEW n \in Revs,
             DeclineCommit(q, t, policy, n)
      PROVE  RowsKept
  <2>1. PICK w \in Workdays : w = req[q].day
    BY <1>2, DeclineEffect
  <2>2. req[q].row \in Row /\ row[w] \in Row
    BY DEF TypeInv, TypeOK, Request
  <2>3. CASE req[q].row = row[w]
    <3>1. PICK x \in Row : x = DeclinedRow(row[w], row[w], n) /\ x.version = row[w].version + 1
      BY <2>2, DeclinedRowType
    <3>2. row' = [row EXCEPT ![w] = x] /\ \A v \in Workdays \ {w} : rev'[v] = rev[v]
      BY <1>2, <2>1, <2>3, <3>1 DEF DeclineCommit, TypeInv, TypeOK
    <3>3. x.version > row[w].version
      BY <2>2, <3>1 DEF Row
    <3> QED
      BY <3>2, <3>3, RowAfter
  <2>4. CASE req[q].row # row[w]
    <3>1. \A v \in Workdays \ {w} : row'[v] = row[v] /\ rev'[v] = rev[v]
      BY <1>2, <2>1 DEF DeclineCommit, TypeInv, TypeOK
    <3> QED
      BY <1>1, <1>2, <2>1, <2>4, <3>1 DEF DeclineCommit
  <2> QED
    BY <2>3, <2>4
<1>3. CASE StatusCommit(q)
  <2>1. PICK w \in Workdays : w = req[q].day /\ Live(w)
    BY <1>3, StatusEffect
  <2>2. row[w] \in Row /\ req[q] \in Request
    BY <2>1 DEF TypeInv, TypeOK
  <2>3. CASE req[q].row = row[w]
    <3>1. PICK s \in WorkdayStatus, k \in Nat :
            /\ s = IF req[q].status # req[q].row.status THEN req[q].status ELSE row[w].status
            /\ k = row[w].version + 1
      BY <2>2 DEF Request, Row
    <3> DEFINE x == [row[w] EXCEPT !.status = s, !.version = k]
    <3>2. row' = [row EXCEPT ![w] = x] /\ \A v \in Workdays \ {w} : rev'[v] = rev[v]
      BY <1>3, <2>1, <2>3, <3>1 DEF StatusCommit, TypeInv, TypeOK
    <3>3. x \in Row /\ x.version = k
      BY <2>2 DEF Row
    <3>4. k > row[w].version
      BY <2>2, <3>1 DEF Row
    <3> HIDE DEF x
    <3> QED
      BY <3>2, <3>3, <3>4, RowAfter
  <2>4. CASE req[q].row # row[w]
    <3>1. \A v \in Workdays \ {w} : row'[v] = row[v] /\ rev'[v] = rev[v]
      BY <1>3, <2>1 DEF StatusCommit, TypeInv, TypeOK
    <3> QED
      BY <1>1, <1>3, <2>1, <2>4, <3>1 DEF StatusCommit
  <2> QED
    BY <2>3, <2>4
<1> QED
  BY <1>2, <1>3, RowsSame DEF RequestStep, DeclineRead, StatusRead, DropRequest

LEMMA ProgrammeRows ==
  ASSUME TypeInv, NEW w \in Workdays, NEW f \in Facts, ApplyProgramme(w, f)
  PROVE  RowsKept
<1>1. CASE CanClone(w) /\ Clone(w, f)
  BY <1>1, CloneRows
<1>2. CASE row[w].draft # NoRev /\ UNCHANGED row /\ rev' = [rev EXCEPT ![w][row[w].draft].facts = f]
  <2>1. PICK d \in Revs : d = row[w].draft
    BY <1>2 DEF TypeInv, TypeOK, Row, Pointer, Revs, NoRev
  <2>2. rev[w][d] \in Revision /\ rev' = [rev EXCEPT ![w][d] = [rev[w][d] EXCEPT !.facts = f]]
    BY <1>2, <2>1 DEF TypeInv, TypeOK
  <2>3. PICK x \in Revision : /\ rev' = [rev EXCEPT ![w][d] = x] /\ x.state = rev[w][d].state
                             /\ x.basedOn = rev[w][d].basedOn /\ x.crew = rev[w][d].crew
    <3> DEFINE r == rev[w][d]
               x == [r EXCEPT !.facts = f]
    <3>1. r \in Revision
      BY <2>2
    <3>2. /\ x \in Revision /\ x.state = r.state
          /\ x.basedOn = r.basedOn /\ x.crew = r.crew
      BY <3>1 DEF Revision
    <3>3. rev' = [rev EXCEPT ![w][d] = x]
      BY <2>2
    <3> HIDE DEF x, r
    <3>4. r = rev[w][d]
      BY DEF r
    <3> QED
      BY <3>2, <3>3, <3>4
  <2>4. /\ rev'[w][d] = x /\ \A n \in Revs \ {d} : rev'[w][n] = rev[w][n]
        /\ \A v \in Workdays \ {w} : rev'[v] = rev[v]
    BY <2>3 DEF TypeInv, TypeOK
  <2>5. Lineage(w)' = Lineage(w)
    BY <2>3, <2>4 DEF Lineage
  <2>6. FactsCopied(w)
    BY <1>2, <2>5 DEF FactsCopied, ApplyProgramme
  <2> QED
    BY <1>2, <2>4, <2>6, OthersKept
<1> QED
  BY <1>1, <1>2 DEF ApplyProgramme

LEMMA WorkdayRows ==
  ASSUME TypeInv, NEW w \in Workdays, WorkdayStep(w)
  PROVE  RowsKept
<1>1. ASSUME NEW saved \in BOOLEAN, NEW c \in [Slots -> CellInput \cup {Absent}],
             NEW f \in Facts, CreateWorkday(w, saved, c, f)
      PROVE  RowsKept
  <2>1. /\ ~Live(w)
        /\ \A v \in Workdays \ {w} : row'[v] = row[v] /\ rev'[v] = rev[v]
    BY <1>1 DEF CreateWorkday, Live, TypeInv, TypeOK
  <2> QED
    BY <2>1, OthersKept DEF RowKept
<1>2. CASE DeleteWorkday(w)
  <2>1. /\ ~Live(w)'
        /\ \A v \in Workdays \ {w} : row'[v] = row[v] /\ rev'[v] = rev[v]
    BY <1>2 DEF DeleteWorkday, NoRow, Live, TypeInv, TypeOK
  <2> QED
    BY <2>1, OthersKept DEF RowKept
<1>3. ASSUME NEW v \in Workdays, Reschedule(w, v) PROVE RowsKept
  <2> DEFINE x == [row[w] EXCEPT !.draft = NoRev, !.status = "ABANDONED", !.version = @ + 1]
             y == ReplacementRow(w)
  <2>0. \A u \in Workdays : row[u].version \in Nat
    BY DEF TypeInv, TypeOK, Row
  <2>1. v # w /\ row[v].life = "ABSENT" /\ row' = [row EXCEPT ![w] = x, ![v] = y]
    BY <1>3, RescheduleEffect DEF Reschedule
  <2>2. x.version > row[w].version /\ x.version \in Nat
    <3>1. row[w] \in Row
      BY DEF TypeInv, TypeOK
    <3> QED
      BY <3>1 DEF Row
  <2> HIDE DEF x, y
  <2>3. row'[w] = x /\ \A u \in Workdays \ {w, v} : row'[u] = row[u] /\ rev'[u] = rev[u]
    BY <1>3, <2>1 DEF Reschedule, TypeInv, TypeOK
  <2>4. RowKept(v)
    BY <2>1 DEF RowKept, Live
  <2>5. RowKept(w)
    BY <2>0, <2>2, <2>3 DEF RowKept
  <2>6. \A u \in Workdays \ {w, v} : RowKept(u)
    BY <2>0, <2>3 DEF RowKept
  <2> QED
    BY <2>4, <2>5, <2>6 DEF RowsKept
<1>4. ASSUME NEW p \in People, NEW s \in Slots, ApplyForPosition(p, w, s) PROVE RowsKept
  BY <1>4, RowsSame DEF ApplyForPosition
<1> QED
  BY <1>1, <1>2, <1>3, <1>4, ProgrammeRows DEF WorkdayStep

LEMMA RowStep ==
  ASSUME TypeInv, [Next]_vars
  PROVE  RowsKept
BY ManagerRows, RequestRows, WorkdayRows, RowsSame DEF Next, vars

\* lock_version never falls, and every step that writes a Workday's row, its revisions
\* or their crews, or stores a Manager's facts, advances it: whatever overlaps, the
\* only steps that do not are requests that commit over a row they had not read.
THEOREM VersionAlwaysAdvances == Spec => VersionAdvances
<1>1. ASSUME TypeInv, [Next]_vars
      PROVE  [\A w \in Workdays : Live(w) /\ Live(w)' /\ ~OvertakenCommit(w) =>
                /\ row'[w].version >= row[w].version
                /\ \/ row'[w] # row[w]
                   \/ Lineage(w)' # Lineage(w)
                   \/ rev'[w] # rev[w] /\ page' # page
                   => row'[w].version > row[w].version]_vars
  <2>1. ASSUME NEW w \in Workdays, Live(w), Live(w)', ~OvertakenCommit(w)
        PROVE  /\ row'[w].version >= row[w].version
               /\ \/ row'[w] # row[w]
                  \/ Lineage(w)' # Lineage(w)
                  \/ rev'[w] # rev[w] /\ page' # page
                  => row'[w].version > row[w].version
    <3>1. RowKept(w) \/ FactsCopied(w)
      BY <1>1, <2>1, RowStep DEF RowsKept, Overtaken
    <3>2. row[w].version \in Nat
      BY <1>1 DEF TypeInv, TypeOK, Row
    <3>3. rev'[w] = rev[w] => Lineage(w)' = Lineage(w)
      BY DEF Lineage
    <3> QED
      BY <2>1, <3>1, <3>2, <3>3 DEF RowKept, FactsCopied
  <2> QED
    BY <2>1
<1> QED
  BY <1>1, TypeInit, TypeStep, PTL DEF Spec, VersionAdvances

-----------------------------------------------------------------------------
(* Pages, after the step, when nothing overlaps.                           *)

\* A Workday that is live after a step was live before it, if it was known.
LEMMA KnownLive ==
  ASSUME LinksKept, NEW w \in Workdays, row[w].life # "ABSENT"
  PROVE  row'[w].life # "ABSENT" /\ (Live(w)' => Live(w))
BY DEF LinksKept, LinkKept

LEMMA PageStays ==
  ASSUME Overlaps = {}, TypeInv, TypeInv', PagesCurrent, LinksKept, RowsKept,
         NEW m \in Managers, page'[m] = page[m]
  PROVE  \A w \in Workdays : PageCurrent(m, w)'
<1> SUFFICES ASSUME NEW w \in Workdays, page[m].stage # "IDLE", page[m].day = w
             PROVE  PageCurrent(m, w)'
  BY DEF PageCurrent
<1>1. PageCurrent(m, w) /\ RowKept(w)
  BY DEF PagesCurrent, RowsKept, FactsCopied, Overtaken
<1>2. row[w].version \in Nat /\ row'[w].version \in Nat /\ page[m].version \in Nat
  BY DEF TypeInv, TypeOK, Row, Page
<1>3. row'[w].life # "ABSENT" /\ (Live(w)' => Live(w))
  BY <1>1, KnownLive DEF PageCurrent
<1>4. ASSUME Live(w)' PROVE row'[w].version > page[m].version \/ (row'[w] = row[w] /\ rev'[w] = rev[w])
  BY <1>1, <1>2, <1>3, <1>4 DEF PageCurrent, RowKept
<1>5. CASE Live(w)' /\ row'[w].version > page[m].version
  BY <1>2, <1>3, <1>5 DEF PageCurrent
<1>6. CASE Live(w)' /\ row'[w] = row[w] /\ rev'[w] = rev[w]
  BY <1>1, <1>3, <1>6 DEF PageCurrent
<1>7. CASE ~Live(w)'
  BY <1>3, <1>7 DEF PageCurrent
<1> QED
  BY <1>4, <1>5, <1>6, <1>7

LEMMA PagesAfter ==
  ASSUME Overlaps = {}, TypeInv, TypeInv', PagesCurrent, LinksKept, RowsKept,
         \A m \in Managers : \/ page'[m] = page[m] \/ page'[m].stage = "IDLE"
                             \/ \A w \in Workdays : PageCurrent(m, w)'
  PROVE  PagesCurrent'
<1>1. ASSUME NEW m \in Managers PROVE \A w \in Workdays : PageCurrent(m, w)'
  <2>1. CASE page'[m] = page[m]
    BY <2>1, PageStays
  <2>2. CASE page'[m].stage = "IDLE"
    BY <2>2 DEF PageCurrent
  <2> QED
    BY <2>1, <2>2
<1> QED
  BY <1>1 DEF PagesCurrent

LEMMA ManagerPages ==
  ASSUME Overlaps = {}, TypeInv, TypeInv', PagesCurrent, LinksKept, RowsKept,
         NEW m \in Managers, ManagerStep(m)
  PROVE  PagesCurrent'
<1>1. ASSUME NEW p, page' = [page EXCEPT ![m] = p],
             p.stage = "IDLE" \/ \A w \in Workdays : PageCurrent(m, w)'
      PROVE  PagesCurrent'
  <2>1. page'[m] = p /\ \A k \in Managers \ {m} : page'[k] = page[k]
    BY <1>1 DEF TypeInv, TypeOK
  <2> QED
    BY <1>1, <2>1, PagesAfter
<1>2. ASSUME page' = [page EXCEPT ![m] = NoPage] PROVE PagesCurrent'
  BY <1>1, <1>2 DEF NoPage
<1>3. ASSUME NEW w \in Workdays, OpenDraft(m, w) PROVE PagesCurrent'
  <2>1. page' = [page EXCEPT ![m] = Showing(w)] /\ Live(w) /\ row' = row /\ rev' = rev
    BY <1>3 DEF OpenDraft
  <2>2. page'[m] = Showing(w) /\ row[w].version \in Nat
    BY <2>1 DEF TypeInv, TypeOK, Row
  <2>3. \A v \in Workdays : PageCurrent(m, v)'
    BY <2>1, <2>2 DEF PageCurrent, Showing, Live
  <2> QED
    BY <1>1, <2>1, <2>3
<1>4. ASSUME NEW w \in Workdays, NEW d, NEW k \in Nat, page' = [page EXCEPT ![m] = Loading(w, d, k)],
             row'[w].life = "LIVE", row'[w].version = k, row'[w].draft = d
      PROVE  PagesCurrent'
  <2>1. page'[m] = Loading(w, d, k)
    BY <1>4 DEF TypeInv, TypeOK
  <2>2. /\ Loading(w, d, k).stage = "LOADING" /\ Loading(w, d, k).day = w
        /\ Loading(w, d, k).draft = d /\ Loading(w, d, k).version = k
    BY DEF Loading, NoPage
  <2>3. \A v \in Workdays : PageCurrent(m, v)'
    BY <1>4, <2>1, <2>2 DEF PageCurrent, Live
  <2> QED
    BY <1>1, <1>4, <2>3
<1>5. ASSUME NEW w \in Workdays, OpenPublished(m, w) PROVE PagesCurrent'
  <2>1. PICK n \in Revs : n = row[w].published /\ n + 1 \in Revs
    BY <1>5, CloneEffect, PublishedFacts DEF OpenPublished, TypeInv
  <2>2. row[w] \in Row
    BY DEF TypeInv, TypeOK
  <2>3. PICK k \in Nat, d \in Revs : k = row[w].version + 1 /\ d = n + 1
    BY <2>1, <2>2 DEF Row
  <2>4. row' = [row EXCEPT ![w] = [row[w] EXCEPT !.draft = d, !.version = k]]
    BY <1>5, <2>1, <2>3 DEF OpenPublished, Clone, TypeInv, TypeOK
  <2>5. row'[w].life = "LIVE" /\ row'[w].version = k /\ row'[w].draft = d
    BY <1>5, <2>2, <2>4 DEF OpenPublished, Live, TypeInv, TypeOK, Row
  <2>6. page' = [page EXCEPT ![m] = Loading(w, d, k)]
    BY <1>5, <2>1, <2>3 DEF OpenPublished
  <2> QED
    BY <1>4, <2>5, <2>6
<1>6. ASSUME NEW w \in Workdays, OpenPreview(m, w) PROVE PagesCurrent'
  <2>1. PICK k \in Nat, d \in Pointer : k = row[w].version /\ d = row[w].draft
    BY DEF TypeInv, TypeOK, Row
  <2> QED
    BY <1>4, <1>6, <2>1 DEF OpenPreview, Live
<1>7. CASE RenderPage(m)
  <2>1. PICK w \in Workdays, d \in Revs : w = page[m].day /\ d = page[m].draft
    BY <1>7 DEF RenderPage, TypeInv, PagesNamed
  <2> DEFINE p == [page[m] EXCEPT !.stage = "SHOWN", !.crew = rev[w][d].crew,
                                  !.facts = rev[w][d].facts]
  <2>2. page' = [page EXCEPT ![m] = p] /\ row' = row /\ rev' = rev
    BY <1>7, <2>1 DEF RenderPage, TypeInv, TypeOK
  <2>3. page[m] \in Page
    BY DEF TypeInv, TypeOK
  <2>4. /\ p.day = w /\ p.draft = d /\ p.version = page[m].version
        /\ p.crew = rev[w][d].crew /\ p.facts = rev[w][d].facts
    BY <2>1, <2>3 DEF Page
  <2>5. PageCurrent(m, w) /\ page[m].stage # "IDLE"
    BY <1>7 DEF PagesCurrent, RenderPage
  <2> HIDE DEF p
  <2>6. page'[m] = p
    BY <2>2 DEF TypeInv, TypeOK
  <2>7. \A v \in Workdays : PageCurrent(m, v)'
    BY <2>1, <2>2, <2>4, <2>5, <2>6 DEF PageCurrent, Live
  <2> QED
    BY <1>1, <2>2, <2>7
<1> QED
  BY <1>2, <1>3, <1>5, <1>6, <1>7
     DEF ManagerStep, ClosePage, UpdateDetails, SaveDraft, AddAssignment, UpdateAssignment,
         RemoveAssignment, Store, SelectApplication, SelectWithoutDraft, Publish

LEMMA PagesStep ==
  ASSUME Overlaps = {}, TypeInv, TypeInv', PagesCurrent, LinksKept, RowsKept, [Next]_vars
  PROVE  PagesCurrent'
<1>1. ASSUME UNCHANGED page PROVE PagesCurrent'
  BY <1>1, PagesAfter
<1>2. ASSUME NEW q \in Requests, RequestStep(q) PROVE UNCHANGED page
  BY <1>2 DEF RequestStep, DeclineRead, DeclineCommit, StatusRead, StatusCommit, DropRequest
<1>3. ASSUME NEW w \in Workdays, WorkdayStep(w) PROVE UNCHANGED page
  BY <1>3 DEF WorkdayStep, CreateWorkday, DeleteWorkday, ApplyProgramme, Reschedule,
              ApplyForPosition
<1> QED
  BY <1>1, <1>2, <1>3, ManagerPages DEF Next, vars

-----------------------------------------------------------------------------
LEMMA FreshInit == Init => FreshInv
BY InvInit DEF Init, FreshInv, LinksSound, PagesCurrent, PageCurrent, Live, NoRow, NoPage

LEMMA FreshStep ==
  ASSUME Overlaps = {}
  PROVE  FreshInv /\ [Next]_vars => FreshInv'
<1> SUFFICES ASSUME FreshInv, [Next]_vars PROVE FreshInv'
  OBVIOUS
<1>0. Inv /\ TypeInv /\ LinksSound /\ PagesCurrent
  BY DEF FreshInv, Inv
<1>1. Inv' /\ TypeInv'
  BY <1>0, InvStep, TypeStep
<1>2. LinksKept /\ RowsKept
  BY <1>0, LinkStep, RowStep
<1>3. LinksSound'
  BY <1>0, <1>1, <1>2, LinksStay
<1>4. PagesCurrent'
  BY <1>0, <1>1, <1>2, PagesStep
<1> QED
  BY <1>1, <1>3, <1>4 DEF FreshInv

\* When no transaction comes between an unlocked read and its commit, a page whose form
\* would still be accepted shows exactly the draft it would overwrite: nobody's work is
\* lost by saving it.
THEOREM PagesAlwaysFresh ==
  ASSUME Overlaps = {}
  PROVE  Spec => []PageFresh
<1>1. FreshInv => PageFresh
  <2> SUFFICES ASSUME FreshInv, NEW m \in Managers, page[m].stage = "SHOWN",
                      row[page[m].day].version = page[m].version,
                      row[page[m].day].draft # NoRev
               PROVE  /\ page[m].draft = row[page[m].day].draft
                      /\ page[m].crew = DraftOf(m).crew
                      /\ page[m].facts = DraftOf(m).facts
    BY DEF PageFresh
  <2>1. PICK w \in Workdays : w = page[m].day
    BY DEF FreshInv, Inv, TypeInv, PagesNamed
  <2>2. Live(w)
    BY <2>1, PublicationNotDraft DEF FreshInv, Live
  <2>3. PageCurrent(m, w)
    BY DEF FreshInv, PagesCurrent
  <2> QED
    BY <2>1, <2>2, <2>3 DEF PageCurrent, DraftOf
<1> QED
  BY <1>1, FreshInit, FreshStep, PTL DEF Spec
=============================================================================
