----------------------------- MODULE RosterPages -----------------------------
(* What the pages show of a published Race or Trials Day and of the Travel    *)
(* Day generated from it: the month, the day, its offline copy, the crew page,*)
(* the hours, the reminders and the digest each query the database and filter *)
(* it for themselves; the preview and the history list what a publication     *)
(* changes.  A position that nobody fills is taken to be an open one.         *)
EXTENDS GeneratedTravel

CONSTANTS
  TimedSheets,  \* the sheets whose times are compared
  RowKinds      \* the personal travel a row may carry

\* ELSEWHERE is an Employee of another Region; a login may have no Person.
Viewers ==
  [person : People, role : {"EMPLOYEE", "CONTRACTOR", "MANAGER", "ELSEWHERE"}]
    \cup [person : {NoOne}, role : {"VIEWER", "MANAGER"}]
Days == {"race", "travel"}

(***************************************************************************)
(* Participation: the rows of the current publication that still count.    *)
(***************************************************************************)
IsPublished(d) == NoRev # (IF d = "race" THEN published ELSE travelPublished)
RowsOf(d) ==
  IF ~IsPublished(d) \/ (d = "race" /\ published.row = NoRow) THEN {}
  ELSE IF d = "race" THEN {published.row.person} ELSE travelPublished
ActiveOn(d) == IF d = "race" THEN RowsOf(d) ELSE ActivePublished
OwnOn(p, d) == (ActiveOn(d) \cap {p}) \ {NoOne}
AssignedOn(v, d) == v.person \in RowsOf(d) \ {NoOne}

(***************************************************************************)
(* Authority over the Region of the day.                                   *)
(***************************************************************************)
CrewView(v) == v.role \in {"EMPLOYEE", "VIEWER", "MANAGER"}
Management(v) == v.role = "MANAGER"
MayApply(v) == v.person # NoOne /\ v.role = "EMPLOYEE"
MayView(v, d) == IsPublished(d) /\ (CrewView(v) \/ AssignedOn(v, d))

(***************************************************************************)
(* The pages.                                                              *)
(***************************************************************************)
MonthOwn(p) == {d \in Days : OwnOn(p, d) # {}}

\* The positions that are open: only race rows have one.
MonthOpen(v) ==
  {d \in {"race"} \ MonthOwn(v.person) :
     NoOne \in RowsOf(d) /\ status[d] = Scheduled /\ MayApply(v)}

Upcoming(p) == {d \in MonthOwn(p) : status[d] = Scheduled}

\* The days that the arrows of the day page lead to.
Adjacent(v) ==
  IF MonthOwn(v.person) # {} \/ ~Management(v) THEN MonthOwn(v.person)
  ELSE {d \in Days : IsPublished(d) /\ (d = "travel" => ActiveOn(d) # {})}

DayOpens(v, d) ==
  /\ MayView(v, d)
  /\ d = "travel" /\ v.person # NoOne /\ ~Management(v) => OwnOn(v.person, d) # {}
DayShows(v, d) ==
  IF CrewView(v) \/ (v.role = "CONTRACTOR" /\ OwnOn(v.person, d) # {}) THEN ActiveOn(d) ELSE OwnOn(v.person, d)

\* The copy that is kept offline is personal; a Contractor's has the whole crew.
ApiShows(v, d) ==
  IF v.role = "CONTRACTOR" /\ AssignedOn(v, d) THEN ActiveOn(d) ELSE OwnOn(v.person, d)
ApiOpens(v, d) ==
  /\ MayView(v, d)
  /\ d = "travel" /\ v.person # NoOne /\ ~Management(v) => ApiShows(v, d) # {}

CrewShows(v, d) == IF CrewView(v) THEN ActiveOn(d) ELSE {}

HoursOfRows(p) == {d \in Days : status[d] = Scheduled /\ p \in RowsOf(d)}
HoursDays(p) == {d \in Days : status[d] = Scheduled /\ p \in ActiveOn(d)}
Reminded(p) == {d \in Days : status[d] = Scheduled /\ p \in RowsOf(d) \cap ActiveOn(d)}
ReminderStands(p, d) == status[d] = Scheduled /\ p \in ActiveOn(d)

\* The openings that are announced once a month.
OpenDigest(v) ==
  {d \in {"race"} : NoOne \in RowsOf(d) /\ status[d] = Scheduled /\ MayApply(v)}

\* The digest has the work in the Regions that one acts in.
Digest(v) ==
  IF v.role = "ELSEWHERE" THEN {} ELSE {d \in Days : status[d] = Scheduled /\ OwnOn(v.person, d) # {}}

(***************************************************************************)
(* The times of a row.                                                     *)
(***************************************************************************)
ParticipationStart(revision, row) == Clock(EffectiveInterval(revision, row).from)
ParticipationEnd(revision, row) == Clock(EffectiveInterval(revision, row).to)

\* What one's own times, typed on the day page, are counted as.
WorkedMinutes(start, finish) == finish - start + (IF finish < start THEN Day ELSE 0)
PersonalMinutes(revision, row, own) ==
  IF own = [start |-> NoTime, finish |-> NoTime] THEN Minutes(revision, {row})
  ELSE WorkedMinutes(Coalesce(own.start, ParticipationStart(revision, row)),
                     Coalesce(own.finish, ParticipationEnd(revision, row)))

DayStartReminder(revision, row) == ClockOnWorkday(revision, revision.start) - 60

\* A reminder and the end of self-decline look at the clock of the start.
ReminderAt(revision, row) == ClockOnWorkday(revision, ParticipationStart(revision, row)) - 60
DeclineUntil(revision, row) == ClockOnWorkday(revision, ParticipationStart(revision, row))

\* The steps of a day that the hours page lists; NoTime is a step left out.
Timeline(typed, revision, row) ==
  LET clear == EventClear(revision.trials, revision.last, revision.onTrack)
  IN  [start    |-> ParticipationStart(revision, row),
       outbound |-> IF UsesStandard(revision, row) THEN HotelMinutes(revision, row)
                    ELSE IF /\ row.start = NoTime /\ ~revision.trials
                            /\ EffectiveStart(revision, row) = revision.start
                    THEN typed.trackTravel ELSE NoTime,
       onTrack  |-> revision.onTrack,
       setup    |-> ClockAfter(typed.first, revision.onTrack) - revision.onTrack,
       clear    |-> Clock(clear),
       packedUp |-> Clock(clear + revision.packUp),
       back     |-> Coalesce(row.return, typed.returnTravel),
       finish   |-> ParticipationEnd(revision, row)]

(***************************************************************************)
(* What a publication changes.  A version of the day is its sheet, whether *)
(* it has the plan, and a row.                                             *)
(***************************************************************************)
Versions == {[sheet |-> typed, plan |-> plan, row |-> row] :
               typed \in TimedSheets, plan \in BOOLEAN, row \in RowKinds}
RevisionOf(version) == Revision(version.sheet, version.plan)

\* Validation accepts what is typed.
ASSUME PagesAssumption == TimedSheets \subseteq Sheet /\ RowKinds \subseteq PersonalRow

DayFields(version) ==
  LET typed    == version.sheet
      revision == RevisionOf(version)
  IN  [onTrack |-> revision.onTrack, start |-> revision.start, finish |-> revision.finish,
       trackTravel |-> IF typed.trials THEN NoTime ELSE typed.trackTravel,
       first |-> <<typed.trials, typed.first>>, last |-> <<typed.trials, typed.last>>,
       standardTravel |-> version.plan, departure |-> typed.departure,
       toHotel |-> typed.toHotel, hotelToTrack |-> typed.hotelToTrack,
       returnTravel |-> typed.returnTravel, packUp |-> typed.packUp]

RowFieldsOfCrew(version) ==
  [start |-> version.row.start, finish |-> version.row.finish, mode |-> version.row.mode,
   vehicle |-> version.row.truck, standardTravel |-> version.row.standard]

\* The name of a Vehicle stands for what kind it is.
RowFields(version) ==
  [start |-> version.row.start, finish |-> version.row.finish, mode |-> version.row.mode,
   vehicle |-> version.row.truck, standardTravel |-> version.row.standard,
   hotelOverride |-> version.row.hotel, returnOverride |-> version.row.return]

Changed(before, after) == {field \in DOMAIN before : before[field] # after[field]}
PublicationDiff(before, after) ==
  Changed(DayFields(before), DayFields(after)) \cup Changed(RowFields(before), RowFields(after))

(***************************************************************************)
(* Properties.                                                             *)
(***************************************************************************)
\* Every page counts the same days for a Person: those that the month shows and
\* that are scheduled are in the hours, reminded of, and in the digest of who acts
\* in the Region; the openings announced are those of the month.  What a page links
\* to opens, with the Person on it, online and offline, and what does not open is
\* not kept offline, but for a Contractor who no longer travels.  And no page shows
\* a traveller who does not travel with the race day's current publication, unless
\* a status change was committed over what it had not read.
PagesAgree ==
  /\ \A p \in People :
       /\ HoursDays(p) = Upcoming(p) /\ HoursDays(p) = Reminded(p)
       /\ \A d \in HoursDays(p) : ReminderStands(p, d)
  /\ \A v \in Viewers :
       /\ MonthOwn(v.person) \cup MonthOpen(v) \cup Adjacent(v)
            \subseteq {d \in Days : DayOpens(v, d) /\ ApiOpens(v, d)}
       /\ \A d \in MonthOwn(v.person) : v.person \in DayShows(v, d) \cap ApiShows(v, d)
       /\ \A d \in Days :
            /\ DayOpens(v, d) => ApiOpens(v, d)
            /\ ApiOpens(v, d) => DayOpens(v, d) \/ v.role = "CONTRACTOR"
       /\ OpenDigest(v) \ MonthOwn(v.person) = MonthOpen(v)
       /\ v.person # NoOne =>
            Digest(v) = IF v.role = "ELSEWHERE" THEN {} ELSE HoursDays(v.person)
       /\ \A p \in DayShows(v, "travel") \cup ApiShows(v, "travel") \cup CrewShows(v, "travel") :
            raced \/ (Travels(published, p) /\ status.race = Scheduled)

\* The interval that minutes add up to, from the programme and the durations.
QuarterFrom(moment) == CHOOSE quarter \in moment .. (moment + 14) : quarter % 15 = 0
TrueInterval(version) ==
  LET typed    == version.sheet
      row      == version.row
      standard == version.plan /\ row.standard
      onTrack  == Coalesce(typed.onTrack, (typed.first - (typed.first % 15)) - typed.lead)
      last     == IF typed.last < onTrack THEN typed.last + Day ELSE typed.last
      cleared  == QuarterFrom(IF typed.trials THEN last ELSE last + 10)
      back     == IF standard THEN Coalesce(row.return, typed.returnTravel)
                              ELSE typed.returnTravel
      usual    == IF row.mode \in {"SELF_TRAVEL", "NOT_REQUIRED"} /\ ~typed.trials
                  THEN onTrack ELSE Coalesce(typed.start, onTrack - typed.trackTravel)
      early    == IF row.mode = "VEHICLE" /\ row.truck THEN typed.truckOffset ELSE 0
  IN  [from |-> IF standard THEN onTrack - Coalesce(row.hotel, typed.hotelToTrack)
                ELSE usual - early,
       to   |-> Coalesce(row.finish, Coalesce(typed.finish, cleared + typed.packUp + back))]

FinishKnown(version) ==
  ~version.sheet.trials \/ version.plan \/ {version.sheet.finish, version.row.finish} # {NoTime}

AsAdded(version) ==
  LET typed    == version.sheet
      revision == RevisionOf(version)
      expected == TrueInterval(version)
      legs     == StandardTravel(typed, revision.onTrack)
  IN  InTruck(revision, version.row) \/
      /\ EffectiveInterval(revision, version.row) = expected
      /\ EffectiveStart(revision, version.row) = Clock(expected.from)
      /\ Minutes(revision, {version.row}) = expected.to - expected.from
      /\ version.plan /\ version.row = PlainRow(TRUE) =>
           <<legs.raceStart, legs.raceFinish>> = <<Clock(expected.from), Clock(expected.to)>>

\* Storing clocks loses no date, whatever is typed for a day that is published,
\* with the plan or without: what is conflicting, counted and reminded of is
\* the interval that the programme and the durations add up to, past midnight or
\* not, and the legs of the plan agree with it.  Trucks are apart, see below.
Misadded == {version \in Versions : FinishKnown(version) /\ ~AsAdded(version)}
TimesAgree ==
  published # NoRev => \A version \in Misadded : version.plan # published.plan

\* DOMAIN_RULES: a truck leaves the one offset earlier than the day starts.
TruckLeavesOnce ==
  \A version \in Versions :
    InTruck(RevisionOf(version), version.row) /\ FinishKnown(version) =>
      EffectiveInterval(RevisionOf(version), version.row) = TrueInterval(version)

\* The steps of the timeline lead from one to the next: the way out to the
\* track, the setup to the first event, pack-up and the way home to the finish.
TimelineAdds(version) ==
  LET typed    == version.sheet
      row      == version.row
      revision == RevisionOf(version)
      legs     == Timeline(typed, revision, row)
      standard == UsesStandard(revision, row)
  IN  /\ legs.outbound # NoTime /\ (standard \/ typed.start = NoTime) =>
           Clock(legs.start + legs.outbound) = legs.onTrack
      /\ Clock(legs.onTrack + legs.setup) = typed.first
      /\ {typed.finish, row.finish} = {NoTime} /\ (row.return # NoTime => standard) =>
           Clock(legs.packedUp + legs.back) = legs.finish

\* The hotel is left before the clock of the day's start, or before midnight.
LeavesEarly(revision, row) ==
  /\ UsesStandard(revision, row)
  /\ \/ revision.onTrack < HotelMinutes(revision, row)
     \/ Overnight(revision) /\ revision.onTrack - HotelMinutes(revision, row) < revision.start

OneHour(version) ==
  LET revision == RevisionOf(version)
      starts   == EffectiveInterval(revision, version.row).from
  IN  ReminderAt(revision, version.row) = starts - 60 /\ DeclineUntil(revision, version.row) = starts

\* "Roster starts in one hour" is said an hour before the Person starts, and
\* self-decline ends when they do.
OneHourBefore == \A version \in Versions : FinishKnown(version) => OneHour(version)

\* Typing the times that the day page shows changes no minutes.
OwnTimesCount(version) ==
  LET revision == RevisionOf(version)
      span     == EffectiveInterval(revision, version.row)
      shown    == [start |-> {NoTime, ParticipationStart(revision, version.row)},
                   finish |-> {NoTime, ParticipationEnd(revision, version.row)}]
  IN  span.to - span.from < Day =>
        \A start \in shown.start, finish \in shown.finish :
          PersonalMinutes(revision, version.row, [start |-> start, finish |-> finish])
            = span.to - span.from

\* The times that are shown are those that are counted: the timeline of the hours
\* page adds up to them, a Person's own times replace them, and reminders and the
\* end of self-decline go by them, but for those who leave the hotel early.
Misshown ==
  {version \in Versions :
     FinishKnown(version) /\
     ~ /\ TimelineAdds(version)
       /\ LeavesEarly(RevisionOf(version), version.row) \/ OneHour(version)
       /\ OwnTimesCount(version)}
TimesShown ==
  published # NoRev => \A version \in Misshown : version.plan # published.plan

OwnFinishTyped(before, after) ==
  NoTime # after.row.return /\ (before.sheet.finish = NoTime) # (after.sheet.finish = NoTime)

\* A draft whose preview lists no change leaves everybody's times as they were,
\* unless trucks leave early or no longer do, or a finish that was calculated
\* becomes one that is typed.
Untold ==
  {change \in {<<before, after>> : before \in Versions, after \in Versions} :
     LET before == change[1]
         after  == change[2]
     IN  /\ EffectiveInterval(RevisionOf(before), before.row)
              # EffectiveInterval(RevisionOf(after), after.row)
         /\ PublicationDiff(before, after) = {}
         /\ ~ /\ InTruck(RevisionOf(after), after.row)
              /\ before.sheet.truckOffset # after.sheet.truckOffset
         /\ ~OwnFinishTyped(before, after)}
ChangesTold ==
  published # NoRev /\ draft # NoRev =>
    \A change \in Untold : <<published.plan, draft.plan>> # <<change[1].plan, change[2].plan>>

(***************************************************************************)
(* Days and rows that lose no date: the day starts on its date, then is on *)
(* track on its date, and finishes within 24 hours; a row has no start of  *)
(* its own, no finish of its own past midnight, and ends after it starts.  *)
(***************************************************************************)
OnTrackAt(typed) == Coalesce(typed.onTrack, FloorToQuarter(typed.first) - typed.lead)
StartAt(typed) == Coalesce(typed.start, OnTrackAt(typed) - typed.trackTravel)
ClearAt(typed) == EventClear(typed.trials, typed.last, OnTrackAt(typed))
FinishAt(typed) == Coalesce(typed.finish, ClearAt(typed) + typed.packUp + typed.returnTravel)

OrdinaryDay(typed) ==
  /\ 0 <= StartAt(typed) /\ StartAt(typed) <= OnTrackAt(typed)
  /\ StartAt(typed) < FinishAt(typed) /\ FinishAt(typed) < StartAt(typed) + Day
Ordinary(version) ==
  /\ OrdinaryDay(version.sheet) /\ version.row.start = NoTime
  /\ version.row.finish # NoTime => FinishAt(version.sheet) < Day
  /\ TrueInterval(version).from < TrueInterval(version).to

\* A truck whose offset is taken off twice still leaves on the date of the day.
LeavesOnDate(version) ==
  /\ OrdinaryDay(version.sheet) /\ version.row.start = NoTime
  /\ InTruck(RevisionOf(version), version.row) =>
       2 * version.sheet.truckOffset <= StartAt(version.sheet)
=============================================================================
