--------------------------- MODULE GeneratedTravel ---------------------------
(* A Race or Trials Day with the standard overnight plan, the Travel Day     *)
(* that is generated from it for the evening before, and another Workday     *)
(* that the same People may be rostered on.                                  *)
(*                                                                           *)
(* Sessions do not flush before a query: `_sync_standard_travel` reads rows  *)
(* as the last flush left them, and says which flush that was.               *)
EXTENDS WorkdayTiming

CONSTANTS
  People, NoOne, NoRev,
  Sheets,                \* what the Manager typed for the day
  OtherSpan, OtherDate,  \* when the other Workday is worked
  MaxSteps               \* bound on the edits, publications and declines

VARIABLES
  sheet,
  status,                \* of the race day, and of the Travel Day once there is one
  draft, published,      \* of the race day: its plan and its crew row
  travelDraft, travelPublished, \* of the Travel Day: the People of its rows
  optOut,                \* who makes their own way
  replaced,              \* the day has been rescheduled
  other,                 \* the other Workday: who is on it, and its status
  request,               \* a status change that has read and not yet committed
  stale,    \* history: the Travel Day's draft was not written from the rows saved
  missed,   \* history: such a draft was published, or none was
  raced,    \* history: a status change overwrote what it had not read
  accepted, \* history: a Manager confirmed a conflict, or brought back a day,
            \* for which conflicts are not looked up
  declined, \* history: who declined the Travel Day since it was published
  steps     \* a bound

vars == <<sheet, status, draft, published, travelDraft, travelPublished, optOut,
          replaced, other, request, stale, missed, raced, accepted, declined, steps>>
day == <<sheet, draft, published>>
travel == <<travelDraft, travelPublished, declined>>
lists == <<stale, missed>>
around == <<optOut, replaced, other, request, raced, accepted>>

Scheduled == "SCHEDULED"
Off == {"CANCELLED", "ABANDONED"}

\* A crew row: a Person who follows the plan or not, an open row, or no row.  Whether
\* an open row follows the plan says nothing until someone is on it.
Row == [person : People \cup {NoOne}, standard : BOOLEAN]
Rows == {row \in Row : row.person = NoOne => row.standard}
NoRow == [person |-> NoOne, standard |-> FALSE]
DayRev == [plan : BOOLEAN, row : Rows \cup {NoRow}]
Statuses == [race : {Scheduled} \cup Off, travel : {"NONE", Scheduled} \cup Off]
Request == [from : Statuses, plan : BOOLEAN, to : Statuses]

\* A null is no Person, revision or time; the Manager types what is accepted.
ASSUME TravelAssumption ==
  /\ NoOne \notin People /\ NoTime \notin Int
  /\ NoRev \notin DayRev \cup Request /\ \A listed \in SUBSET People : NoRev # listed
  /\ Sheets \subseteq Sheet
  /\ OtherDate \in Int /\ Placed(OtherSpan, OtherDate)

TravelExists == status.travel # "NONE"
Travels(rev, p) == rev # NoRev /\ rev.plan /\ rev.row = [person |-> p, standard |-> TRUE]

Init ==
  /\ sheet \in Sheets
  /\ status = [race |-> Scheduled, travel |-> "NONE"]
  /\ draft = [plan |-> FALSE, row |-> NoRow]
  /\ published = NoRev /\ travelDraft = NoRev /\ travelPublished = NoRev
  /\ optOut = {} /\ replaced = FALSE
  /\ other = [who |-> NoOne, status |-> Scheduled]
  /\ request = NoRev /\ declined = {} /\ steps = 0
  /\ stale = FALSE /\ missed = FALSE /\ raced = FALSE /\ accepted = FALSE

Step == steps < MaxSteps /\ steps' = steps + 1

(***************************************************************************)
(* When People work.                                                       *)
(***************************************************************************)
PlainRow(standard) ==
  [mode |-> "UNASSIGNED", truck |-> FALSE, standard |-> standard, start |-> NoTime,
   finish |-> NoTime, hotel |-> NoTime, return |-> NoTime]

RaceSpan(rev) ==
  [span |-> EffectiveInterval(Revision(sheet, rev.plan), PlainRow(rev.row.standard)), date |-> 0]
TravelSpan ==
  LET times == StandardTravel(sheet, Revision(sheet, TRUE).onTrack)
      late  == IF times.travelFinish > times.travelStart THEN 0 ELSE Day
  IN  [span |-> [from |-> times.travelStart - Day, to |-> times.travelFinish + late - Day],
       date |-> -1]
OtherWork == [span |-> OtherSpan, date |-> OtherDate]

RaceWork(rev, p) == IF rev # NoRev /\ rev.row.person = p THEN {RaceSpan(rev)} ELSE {}
TravelWork(rev, p) == IF rev # NoRev /\ p \in rev THEN {TravelSpan} ELSE {}
Clashes(left, right) == Overlap(left.span, left.date, right.span, right.date)

\* A conflict is searched for on the nearby dates only.
Conflict(work, with) == InWindow(work.span, with.date) /\ Clashes(work, with)

PublicationConflictsScheduled ==
  {p \in People :
     /\ other.who = p /\ other.status = Scheduled
     /\ \E work \in (IF status.race = Scheduled THEN RaceWork(draft, p) ELSE {})
                    \cup (IF draft.plan /\ status.travel = Scheduled
                          THEN TravelWork(travelDraft, p) ELSE {}) :
          Conflict(work, OtherWork)}

\* A day that is not scheduled conflicts with nothing; the Travel Day of a draft
\* is compared whatever its status, as its publication will schedule it.
PublicationConflicts ==
  {p \in People :
     /\ other.who = p /\ other.status = Scheduled
     /\ \E work \in (IF status.race = Scheduled THEN RaceWork(draft, p) ELSE {})
                    \cup (IF draft.plan THEN TravelWork(travelDraft, p) ELSE {}) :
          Conflict(work, OtherWork)}

OtherConflicts(p) ==
  \E work \in (IF status.race = Scheduled
               THEN RaceWork(draft, p) \cup RaceWork(published, p) ELSE {})
              \cup (IF status.travel = Scheduled
                    THEN TravelWork(travelDraft, p) \cup TravelWork(travelPublished, p)
                    ELSE {}) :
     Conflict(OtherWork, work)

(***************************************************************************)
(* The Manager's draft.                                                    *)
(***************************************************************************)
OpenDraft ==
  /\ draft = NoRev /\ published # NoRev /\ ~replaced
  /\ draft' = published
  /\ UNCHANGED <<sheet, published, status, travel, lists, around, steps>>

\* The rows of the race draft are selected as the database has them and copied
\* as the session has them: one that is deleted keeps its Person, and one that
\* is added is not seen.
RowsRead(stored, edited) ==
  IF stored.person = NoOne \/ ~stored.standard THEN {}
  ELSE {(IF edited = NoRow THEN stored ELSE edited).person} \ {NoOne}
RowsFlushed(row) == IF row.standard THEN {row.person} \ {NoOne} ELSE {}

\* Nothing flushes once the Operation, the Travel Day and its draft all exist.
Flushes == ~TravelExists \/ travelDraft = NoRev

SyncPublishedRows(row) ==
  /\ travelDraft' = IF TravelExists /\ Flushes THEN travelPublished ELSE RowsFlushed(row)
  /\ status' = [status EXCEPT !.travel = IF TravelExists THEN @ ELSE Scheduled]
  /\ stale' = ~Flushes

\* A draft that is made from the Travel Day's publication keeps the copied rows,
\* which are not flushed when its rows are deleted.
SyncStandardTravel(row) ==
  /\ travelDraft' =
       IF ~TravelExists THEN RowsFlushed(row)
       ELSE IF Flushes THEN travelPublished \cup RowsFlushed(row)
       ELSE RowsRead(draft.row, row)
  /\ status' = [status EXCEPT !.travel = IF TravelExists THEN @ ELSE Scheduled]
  /\ stale' = ~Flushes

SaveDraft(plan, row) ==
  /\ Step /\ draft # NoRev
  /\ draft' = [plan |-> plan, row |-> row]
  /\ IF plan THEN SyncStandardTravel(row)
             ELSE UNCHANGED <<status, travelDraft, stale>>
  /\ UNCHANGED <<sheet, published, travelPublished, declined, missed, around>>

\* A row is added, changed or removed by itself, or filled by an applicant: the
\* Travel Day is not projected again.
EditRow(row) ==
  /\ Step /\ draft # NoRev /\ row # draft.row
  /\ draft' = [draft EXCEPT !.row = row]
  /\ stale' = (stale \/ draft.plan)
  /\ UNCHANGED <<sheet, published, status, travel, missed, around>>

(***************************************************************************)
(* Publication of the race day, and of the Travel Day with it.             *)
(***************************************************************************)
CancelTravel ==
  /\ ~draft.plan /\ TravelExists
  /\ status' = [status EXCEPT !.travel = "CANCELLED"]
  /\ UNCHANGED <<travel, lists>>

PromoteTravel ==
  /\ draft.plan /\ travelDraft # NoRev
  /\ status' = [status EXCEPT !.travel = Scheduled]
  /\ travelPublished' = travelDraft /\ travelDraft' = NoRev /\ declined' = {}
  /\ missed' = stale /\ stale' = FALSE

\* No draft to promote: the Travel Day stays as it was published.
LeaveTravel ==
  /\ IF draft.plan THEN travelDraft = NoRev ELSE ~TravelExists
  /\ missed' = (missed \/ stale) /\ stale' = FALSE
  /\ UNCHANGED <<status, travel>>

Publish(confirmed) ==
  /\ Step /\ draft # NoRev
  /\ PublicationConflicts = {} \/ confirmed
  /\ published' = draft /\ draft' = NoRev
  /\ CancelTravel \/ PromoteTravel \/ LeaveTravel
  /\ accepted' = (accepted \/ PublicationConflicts # {})
  /\ UNCHANGED <<sheet, optOut, replaced, other, request, raced>>

\* The day is abandoned for a replacement, which is a day of its own.
Reschedule ==
  /\ published # NoRev /\ ~replaced
  /\ replaced' = TRUE
  /\ status' = [race |-> "ABANDONED", travel |-> IF TravelExists THEN "ABANDONED" ELSE "NONE"]
  /\ draft' = NoRev /\ travelDraft' = NoRev
  /\ UNCHANGED <<sheet, published, travelPublished, declined, lists, optOut, other,
                 request, raced, accepted, steps>>

(***************************************************************************)
(* The status route reads without a lock; other requests may commit before *)
(* it does.  Only the attributes it changes are written.                   *)
(***************************************************************************)
GeneratedStatusSame(to) == to

GeneratedStatus(to) ==
  IF to \in Off THEN to
  ELSE IF published # NoRev /\ published.plan THEN Scheduled ELSE "CANCELLED"

StatusRead(to) ==
  /\ request = NoRev /\ published # NoRev
  /\ IF status.race = Scheduled THEN to \in Off ELSE to = Scheduled /\ ~replaced
  /\ request' = [from |-> status, plan |-> published.plan,
                 to |-> [race   |-> to,
                         travel |-> IF TravelExists THEN GeneratedStatus(to) ELSE "NONE"]]
  /\ UNCHANGED <<day, status, travel, lists, optOut, replaced, other, raced, accepted, steps>>

StatusCommit ==
  /\ request # NoRev
  /\ status' = [d \in DOMAIN status |->
                  IF request.to[d] = request.from[d] THEN status[d] ELSE request.to[d]]
  /\ raced' = (raced \/ status # request.from \/ published.plan # request.plan)
  /\ accepted' = (accepted \/ request.to.race = Scheduled)
  /\ request' = NoRev
  /\ UNCHANGED <<day, travel, lists, optOut, replaced, other, steps>>

StatusAbandoned ==
  /\ request # NoRev /\ request' = NoRev
  /\ UNCHANGED <<day, status, travel, lists, optOut, replaced, other, raced, accepted, steps>>

(***************************************************************************)
(* Employees.                                                              *)
(***************************************************************************)
DeclineRace ==
  /\ Step /\ published # NoRev /\ published.row.person # NoOne /\ status.race = Scheduled
  /\ published' = [published EXCEPT !.row = [person |-> NoOne, standard |-> TRUE]]
  /\ draft' = NoRev
  /\ stale' = (stale \/ travelDraft # NoRev)
  /\ UNCHANGED <<sheet, status, travel, missed, around>>

DeclineTravel(p) ==
  /\ Step /\ travelPublished # NoRev /\ p \in travelPublished /\ status.travel = Scheduled
  /\ travelPublished' = travelPublished \ {p} /\ declined' = declined \cup {p}
  /\ stale' = (stale \/ travelDraft # NoRev)
  /\ travelDraft' = NoRev
  /\ UNCHANGED <<day, status, missed, around>>

\* Saving one's notes keeps or drops "making own way".
SavePersonalEntry(p, own) ==
  /\ published # NoRev /\ published.row.person = p
  /\ own => Travels(published, p)
  /\ optOut' = IF own THEN optOut \cup {p} ELSE optOut \ {p}
  /\ UNCHANGED <<day, status, travel, lists, replaced, other, request, raced, accepted, steps>>

\* Who the Travel Day counts for: in calendars, hours and reminders.
ActivePublished ==
  IF travelPublished = NoRev \/ status # [race |-> Scheduled, travel |-> Scheduled] THEN {}
  ELSE {p \in travelPublished : published.row = [person |-> p, standard |-> TRUE]} \ optOut

(***************************************************************************)
(* The other Workday.                                                      *)
(***************************************************************************)
OtherPublish(p, confirmed) ==
  /\ other.who = NoOne
  /\ OtherConflicts(p) => confirmed
  /\ other' = [other EXCEPT !.who = p]
  /\ accepted' = (accepted \/ OtherConflicts(p))
  /\ UNCHANGED <<day, status, travel, lists, optOut, replaced, request, raced, steps>>

OtherCancel ==
  /\ other.who # NoOne /\ other.status = Scheduled
  /\ other' = [other EXCEPT !.status = "CANCELLED"]
  /\ UNCHANGED <<day, status, travel, lists, optOut, replaced, request, raced, accepted, steps>>

Next ==
  \/ OpenDraft \/ Reschedule \/ StatusCommit \/ StatusAbandoned \/ DeclineRace \/ OtherCancel
  \/ \E plan \in BOOLEAN, row \in Rows \cup {NoRow} : SaveDraft(plan, row)
  \/ \E row \in Rows \cup {NoRow} : EditRow(row)
  \/ \E confirmed \in BOOLEAN : Publish(confirmed)
  \/ \E to \in Off \cup {Scheduled} : StatusRead(to)
  \/ \E p \in People : DeclineTravel(p)
  \/ \E p \in People, yes \in BOOLEAN : SavePersonalEntry(p, yes) \/ OtherPublish(p, yes)

Spec == Init /\ [][Next]_vars

(***************************************************************************)
(* Properties.                                                             *)
(***************************************************************************)
\* A Person who travels with a scheduled race day is on the Travel Day that was
\* published with it, unless they declined it, or it was projected from rows that
\* were not flushed, edited afterwards, or detached by a decline.
TravellersListed ==
  published # NoRev /\ status.race = Scheduled /\ ~missed /\ ~raced =>
    \A p \in People : Travels(published, p) =>
      status.travel = Scheduled /\ p \in travelPublished \cup declined

\* What FUNCTIONAL_AUDIT says of it: one plan updates all participating People,
\* and publication includes the parent and the generated Travel.
TravelCrewComplete ==
  published # NoRev /\ status.race = Scheduled /\ ~raced =>
    \A p \in People : Travels(published, p) => p \in travelPublished \cup declined

\* Two scheduled days that overlap for a Person are two days that a Manager
\* confirmed, or brought back: whichever of the three was published last, and
\* whether or not the Travel Day was scheduled when it was compared.
ClashesConfirmed ==
  other.status = Scheduled /\ other.who # NoOne =>
    \/ accepted \/ raced
    \/ \A work \in (IF status.race = Scheduled THEN RaceWork(published, other.who) ELSE {})
                   \cup (IF status.travel = Scheduled
                         THEN TravelWork(travelPublished, other.who) ELSE {}) :
         ~Clashes(work, OtherWork)
=============================================================================
