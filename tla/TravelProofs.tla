---------------------------- MODULE TravelProofs ----------------------------
(***************************************************************************)
(* What modules GeneratedTravel and RosterPages guarantee, for any number  *)
(* of People and any sheet that validation accepts: who travels is on the  *)
(* Travel Day, the pages agree on who that is, and two scheduled days that *)
(* overlap for a Person were confirmed. The invariant ties each draft to   *)
(* what its publication will make of it (Listed), the two days' states to  *)
(* the plan (Agreed), a status change to what it read (Asked), and what is *)
(* scheduled to the comparison that was made before (Compared). The last   *)
(* parts are about clocks: a preview lists whatever changes an interval,   *)
(* and on ordinary days the stored clocks give the interval that the       *)
(* programme and the durations add up to.                                  *)
(***************************************************************************)
EXTENDS RosterPages, TLAPS

TravelTypeOK ==
  /\ sheet \in Sheets /\ status \in Statuses
  /\ draft \in DayRev \cup {NoRev} /\ published \in DayRev \cup {NoRev}
  /\ travelDraft \in (SUBSET People) \cup {NoRev}
  /\ travelPublished \in (SUBSET People) \cup {NoRev}
  /\ optOut \subseteq People /\ declined \subseteq People
  /\ other \in [who : People \cup {NoOne}, status : {Scheduled, "CANCELLED"}]
  /\ request \in Request \cup {NoRev}
  /\ replaced \in BOOLEAN /\ stale \in BOOLEAN /\ missed \in BOOLEAN
  /\ raced \in BOOLEAN /\ accepted \in BOOLEAN

\* The Travel Day is made with the first draft that has the plan, and has a
\* publication unless a draft of it waits.
Made ==
  /\ ~TravelExists => /\ travelDraft = NoRev /\ travelPublished = NoRev
                      /\ draft # NoRev => ~draft.plan
                      /\ published # NoRev => ~published.plan
  /\ TravelExists /\ travelDraft = NoRev /\ ~replaced => travelPublished # NoRev
  /\ replaced => draft = NoRev

OnTravel(rev, p) ==
  Travels(rev, p) => travelPublished # NoRev /\ p \in travelPublished \cup declined

\* Who travels by a draft is on the Travel Day that its publication leaves.
Listed ==
  /\ ~missed => \A p \in People : OnTravel(published, p)
  /\ draft # NoRev /\ draft.plan /\ ~stale =>
       IF travelDraft = NoRev THEN ~missed => \A p \in People : OnTravel(draft, p)
       ELSE RowsFlushed(draft.row) \subseteq travelDraft
  /\ draft = NoRev /\ travelDraft # NoRev => stale \/ published = NoRev \/ ~published.plan

\* The Travel Day is scheduled while the plan is published.
Agreed ==
  ~raced =>
    /\ published # NoRev /\ published.plan /\ status.race = Scheduled =>
         status.travel = Scheduled
    /\ travelPublished # NoRev /\ status.travel = Scheduled =>
         published # NoRev /\ published.plan
    /\ draft # NoRev /\ draft.plan /\ travelDraft = NoRev =>
         published # NoRev /\ published.plan

\* What a status change has read, and will write.
Asked ==
  request # NoRev =>
    /\ published # NoRev
    /\ request.to.race = Scheduled /\ request.from.travel # "NONE" =>
         (request.to.travel = Scheduled <=> request.plan)
    /\ request.to.race # Scheduled =>
         request.to.travel # Scheduled /\ request.from.race = Scheduled
    /\ request.from.travel = "NONE" <=> request.to.travel = "NONE"
    /\ request.from.travel = "NONE" => ~request.plan
    /\ request.from.travel # "NONE" => TravelExists

\* What is scheduled has been compared with the other Workday.
Compared ==
  other.who # NoOne /\ other.status = Scheduled /\ ~accepted /\ ~raced =>
    /\ status.race = Scheduled /\ published # NoRev /\ published.row.person = other.who =>
         ~Clashes(RaceSpan(published), OtherWork)
    /\ status.travel = Scheduled /\ travelPublished # NoRev /\ other.who \in travelPublished =>
         ~Clashes(TravelSpan, OtherWork)

TravelInv == TravelTypeOK /\ Made /\ Listed /\ Agreed /\ Asked /\ Compared

-----------------------------------------------------------------------------
(* Values.                                                                 *)

LEMMA Absent ==
  /\ NoOne \notin People /\ NoRev \notin DayRev /\ NoRev \notin Request
  /\ NoRev \notin SUBSET People /\ NoTime \notin Int
BY TravelAssumption

LEMMA RowTypes ==
  /\ NoRow \in Row /\ Rows \subseteq Row
  /\ [plan |-> FALSE, row |-> NoRow] \in DayRev
  /\ \A row \in Rows \cup {NoRow} : RowsFlushed(row) \subseteq People
  /\ \A row \in Rows \cup {NoRow}, edited \in Rows \cup {NoRow} : RowsRead(row, edited) \subseteq People
BY DEF NoRow, Row, Rows, DayRev, RowsFlushed, RowsRead

LEMMA TravellersFlushed ==
  ASSUME NEW rev \in DayRev, NEW p \in People, Travels(rev, p)
  PROVE  p \in RowsFlushed(rev.row) /\ rev.plan
BY Absent DEF Travels, RowsFlushed

LEMMA SpansKept ==
  ASSUME sheet' = sheet
  PROVE  /\ TravelSpan' = TravelSpan
         /\ published' = published => RaceSpan(published)' = RaceSpan(published)
BY DEF TravelSpan, RaceSpan

LEMMA TravelInvInit == Init => TravelInv
<1> SUFFICES ASSUME Init PROVE TravelInv
  OBVIOUS
<1> USE DEF Init
<1>1. TravelTypeOK
  BY RowTypes DEF TravelTypeOK, Statuses, Scheduled
<1>2. Made
  BY DEF Made, TravelExists
<1>3. Listed
  BY DEF Listed, OnTravel, Travels
<1>4. Agreed
  BY Absent, RowTypes DEF Agreed
<1>5. Asked /\ Compared
  BY DEF Asked, Compared
<1> QED
  BY <1>1, <1>2, <1>3, <1>4, <1>5 DEF TravelInv

-----------------------------------------------------------------------------
(* The Manager's draft.                                                    *)

LEMMA DraftOpened ==
  ASSUME TravelInv, OpenDraft
  PROVE  TravelInv'
<1> USE DEF TravelInv, OpenDraft, travel, lists, around
<1>1. TravelTypeOK'
  BY DEF TravelTypeOK
<1>2. Made'
  BY DEF Made, TravelExists
<1>3. Listed'
  BY DEF Listed, OnTravel, Travels
<1>4. Agreed'
  BY DEF Agreed
<1>5. Asked'
  BY DEF Asked, TravelExists
<1>6. Compared'
  BY SpansKept DEF Compared
<1> QED
  BY <1>1, <1>2, <1>3, <1>4, <1>5, <1>6

LEMMA DraftSaved ==
  ASSUME TravelInv, NEW plan \in BOOLEAN, NEW row \in Rows \cup {NoRow}, SaveDraft(plan, row)
  PROVE  TravelInv'
<1> USE DEF TravelInv
<1>1. /\ draft # NoRev /\ draft \in DayRev /\ draft' = [plan |-> plan, row |-> row]
      /\ draft' \in DayRev /\ draft' # NoRev /\ draft'.plan = plan /\ draft'.row = row
      /\ UNCHANGED <<sheet, published, travelPublished, declined, missed, optOut, replaced, other,
                     request, raced, accepted>>
      /\ ~replaced /\ draft.row \in Rows \cup {NoRow}
  BY Absent DEF SaveDraft, TravelTypeOK, DayRev, around, Made
<1>2. CASE ~plan
  <2>1. UNCHANGED <<status, travelDraft, stale>>
    BY <1>2 DEF SaveDraft
  <2>2. TravelTypeOK'
    BY <1>1, <2>1 DEF TravelTypeOK
  <2>3. Made'
    BY <1>1, <1>2, <2>1 DEF Made, TravelExists
  <2>4. Listed'
    BY <1>1, <1>2, <2>1 DEF Listed, OnTravel, Travels
  <2>5. Agreed'
    BY <1>1, <1>2, <2>1 DEF Agreed
  <2>6. Asked'
    BY <1>1, <2>1 DEF Asked, TravelExists
  <2>7. Compared'
    BY <1>1, <2>1, SpansKept DEF Compared
  <2> QED
    BY <2>2, <2>3, <2>4, <2>5, <2>6, <2>7
<1>3. CASE plan
  <2>1. /\ status' = [status EXCEPT !.travel = IF TravelExists THEN status.travel ELSE Scheduled]
        /\ stale' = ~Flushes /\ stale' \in BOOLEAN
        /\ travelDraft' = IF ~TravelExists THEN RowsFlushed(row)
                          ELSE IF Flushes THEN travelPublished \cup RowsFlushed(row)
                          ELSE RowsRead(draft.row, row)
    BY <1>3 DEF SaveDraft, SyncStandardTravel, Flushes
  <2>2. TravelExists /\ Flushes => travelPublished \in SUBSET People
    BY <1>1 DEF Flushes, Made, TravelTypeOK
  <2>3. travelDraft' \in SUBSET People /\ travelDraft' # NoRev
    BY <1>1, <2>1, <2>2, RowTypes, Absent
  <2>4. /\ status' \in Statuses /\ status'.race = status.race /\ status'.travel # "NONE"
        /\ TravelExists => status'.travel = status.travel
        /\ ~TravelExists => status'.travel = Scheduled
    BY <2>1 DEF TravelTypeOK, Statuses, Scheduled, TravelExists
  <2>5. ~stale' => RowsFlushed(row) \subseteq travelDraft'
    BY <2>1
  <2>6. TravelTypeOK'
    BY <1>1, <2>1, <2>3, <2>4 DEF TravelTypeOK
  <2>7. Made'
    BY <1>1, <2>3, <2>4 DEF Made, TravelExists
  <2>8. Listed'
    <3>1. \A p \in People : OnTravel(published, p)' <=> OnTravel(published, p)
      BY <1>1 DEF OnTravel, Travels
    <3>2. RowsFlushed(draft.row)' = RowsFlushed(row)
      BY <1>1 DEF RowsFlushed
    <3> QED
      BY <1>1, <2>3, <2>5, <3>1, <3>2 DEF Listed
  <2>9. Agreed'
    BY <1>1, <2>3, <2>4 DEF Agreed, Made
  <2>10. Asked'
    BY <1>1, <2>4 DEF Asked, TravelExists
  <2>11. Compared'
    BY <1>1, <2>4, SpansKept DEF Compared, Made
  <2> QED
    BY <2>6, <2>7, <2>8, <2>9, <2>10, <2>11
<1> QED
  BY <1>2, <1>3

LEMMA RowEdited ==
  ASSUME TravelInv, NEW row \in Rows \cup {NoRow}, EditRow(row)
  PROVE  TravelInv'
<1> USE DEF TravelInv
<1>1. /\ draft # NoRev /\ draft \in DayRev /\ draft' = [draft EXCEPT !.row = row]
      /\ stale' = (stale \/ draft.plan)
      /\ UNCHANGED <<sheet, published, status, travelDraft, travelPublished, declined, missed, optOut,
                     replaced, other, request, raced, accepted>>
  BY DEF EditRow, TravelTypeOK, travel, around
<1>2. draft' \in DayRev /\ draft' # NoRev /\ draft'.plan = draft.plan
  BY <1>1, Absent DEF DayRev
<1>3. stale' \in BOOLEAN
  BY <1>1
<1>4. TravelTypeOK'
  BY <1>1, <1>2, <1>3 DEF TravelTypeOK
<1>5. Made'
  BY <1>1, <1>2 DEF Made, TravelExists
<1>6. Listed'
  BY <1>1, <1>2 DEF Listed, OnTravel, Travels
<1>7. Agreed'
  BY <1>1, <1>2 DEF Agreed
<1>8. Asked'
  BY <1>1 DEF Asked, TravelExists
<1>9. Compared'
  BY <1>1, SpansKept DEF Compared
<1> QED
  BY <1>4, <1>5, <1>6, <1>7, <1>8, <1>9

-----------------------------------------------------------------------------
(* The window of dates that is searched for conflicts.                     *)

LEMMA DateBounds ==
  ASSUME NEW m \in Int, NEW k \in Int
  PROVE  /\ DateOf(m) \in Int
         /\ m < k * Day => DateOf(m) < k
         /\ m >= k * Day => DateOf(m) >= k
BY DEF DateOf, Day

\* Two spans that overlap are found from either of them.
LEMMA WindowSees ==
  ASSUME NEW left, NEW right, NEW leftDate \in Int, NEW rightDate \in Int,
         Placed(left, leftDate), Placed(right, rightDate),
         Overlap(left, leftDate, right, rightDate)
  PROVE  InWindow(left, rightDate)
<1> USE Absent
<1>1. /\ left.from \in Int /\ left.from >= (leftDate - 1) * Day /\ left.from < (leftDate + 4) * Day
      /\ left.to # NoTime => left.to \in Int /\ left.to >= left.from
      /\ right.from \in Int /\ right.from >= (rightDate - 1) * Day
      /\ right.to # NoTime => right.to \in Int /\ right.to < (rightDate + 4) * Day
  BY DEF Placed, MaxStartDaysBefore, MaxFinishDaysAfter, Day
<1> DEFINE end == Coalesce(left.to, left.from)
<1>2. end \in Int /\ end >= left.from
  BY <1>1 DEF Coalesce
<1>3. left.from < (rightDate + 4) * Day /\ end >= (rightDate - 1) * Day
  <2>1. CASE NoTime \in {left.to, right.to}
    <3>1. leftDate = rightDate
      BY <2>1 DEF Overlap
    <3>2. end >= (leftDate - 1) * Day
      BY <1>1, <1>2 DEF Day
    <3> QED
      BY <1>1, <3>1, <3>2
  <2>2. CASE NoTime \notin {left.to, right.to}
    <3>1. left.from < right.to /\ right.from < left.to /\ end = left.to
      BY <2>2 DEF Overlap, Coalesce
    <3> QED
      BY <1>1, <2>2, <3>1 DEF Day
  <2> QED
    BY <2>1, <2>2
<1>4. DateOf(left.from) \in Int /\ DateOf(left.from) < rightDate + 4
  BY <1>1, <1>3, DateBounds
<1>5. DateOf(end) \in Int /\ DateOf(end) >= rightDate - 1
  BY <1>2, <1>3, DateBounds
<1> HIDE DEF end
<1> QED
  BY <1>4, <1>5 DEF InWindow, MaxStartDaysBefore, MaxFinishDaysAfter, end

LEMMA OverlapSymmetric ==
  ASSUME NEW left, NEW right, NEW leftDate, NEW rightDate
  PROVE  Overlap(left, leftDate, right, rightDate) <=> Overlap(right, rightDate, left, leftDate)
BY DEF Overlap

-----------------------------------------------------------------------------
(* What a sheet and a row of a validated day derive.                       *)

LEMMA Clocks ==
  ASSUME NEW m \in Int
  PROVE  Clock(m) \in ClockTimes
BY DEF Clock, ClockTimes, Day

LEMMA Quarters ==
  ASSUME NEW m \in Int
  PROVE  /\ FloorToQuarter(m) \in Int /\ FloorToQuarter(m) <= m /\ FloorToQuarter(m) >= m - 14
         /\ CeilToQuarter(m) \in Int /\ CeilToQuarter(m) >= m /\ CeilToQuarter(m) <= m + 14
BY DEF FloorToQuarter, CeilToQuarter

LEMMA ClearTypes ==
  ASSUME NEW trials \in BOOLEAN, NEW last \in ClockTimes, NEW reference \in Int
  PROVE  EventClear(trials, last, reference) \in Int
<1>1. ClockAfter(last, reference) \in Int
  BY DEF ClockAfter, DateOf, Day, ClockTimes
<1>2. ClockAfter(last, reference) + LastRaceClearance \in Int
  BY <1>1 DEF LastRaceClearance
<1> QED
  BY <1>1, <1>2, Quarters DEF EventClear, RaceClearAt

\* The clocks of a revision, as far as the sheet gives them.
LEMMA RevisionClocks ==
  ASSUME NEW typed \in Sheet, NEW plan \in BOOLEAN
  PROVE  LET revision == Revision(typed, plan)
         IN  /\ revision.plan = plan /\ revision.trials = typed.trials
             /\ revision.onTrack \in ClockTimes /\ revision.start \in ClockTimes
             /\ revision.finish \in ClockTimes \cup {NoTime}
             /\ revision.hotelToTrack = typed.hotelToTrack
             /\ revision.packUp = typed.packUp /\ revision.truckOffset = typed.truckOffset
             /\ revision.last = typed.last
<1> USE Absent
<1> DEFINE revision == Revision(typed, plan)
           derived == DeriveRaceDayTiming(typed)
<1>1. /\ typed.trials \in BOOLEAN /\ typed.first \in ClockTimes /\ typed.last \in ClockTimes
      /\ typed.onTrack \in ClockTimes \cup {NoTime} /\ typed.start \in ClockTimes \cup {NoTime}
      /\ typed.finish \in ClockTimes \cup {NoTime} /\ typed.lead \in Durations
      /\ typed.trackTravel \in Durations /\ typed.packUp \in Durations
      /\ typed.returnTravel \in Durations
      /\ typed.trials => typed.onTrack # NoTime /\ typed.start # NoTime
  BY DEF Sheet
<1>2. /\ typed.first \in Int /\ typed.lead \in Int /\ typed.trackTravel \in Int
      /\ typed.packUp \in Int /\ typed.returnTravel \in Int
      /\ typed.onTrack # NoTime => typed.onTrack \in Int
      /\ typed.finish # NoTime => typed.finish \in Int
      /\ ClockTimes \subseteq Int
  <2>1. ClockTimes \subseteq Int /\ Durations \subseteq Int
    BY DEF ClockTimes, Durations, Day
  <2> QED
    BY <1>1, <2>1
<1>3. derived.onTrack \in ClockTimes
  <2>1. FloorToQuarter(typed.first) - typed.lead \in Int
    <3>1. FloorToQuarter(typed.first) \in Int
      BY <1>2, Quarters
    <3> QED
      BY <1>2, <3>1
  <2> QED
    BY <1>1, <2>1, Clocks DEF DeriveRaceDayTiming, Coalesce
<1>4. derived.start \in ClockTimes
  <2>1. derived.onTrack - typed.trackTravel \in Int
    <3>1. derived.onTrack \in Int
      BY <1>2, <1>3
    <3> HIDE DEF derived
    <3> QED
      BY <1>2, <3>1
  <2>2. derived.start = Coalesce(typed.start, Clock(derived.onTrack - typed.trackTravel))
    BY DEF DeriveRaceDayTiming
  <2> HIDE DEF derived
  <2> QED
    BY <1>1, <2>1, <2>2, Clocks DEF Coalesce
<1>5. derived.finish \in ClockTimes
  <2> DEFINE clear == EventClear(FALSE, typed.last, derived.onTrack)
             end == clear + typed.packUp + typed.returnTravel
  <2>1. end \in Int
    <3> HIDE DEF derived
    <3>1. clear \in Int
      BY <1>1, <1>2, <1>3, ClearTypes
    <3> HIDE DEF clear
    <3> QED
      BY <1>2, <3>1
  <2>2. derived.finish = Coalesce(typed.finish, Clock(end))
    BY DEF DeriveRaceDayTiming
  <2> HIDE DEF derived, end
  <2> QED
    BY <1>1, <2>1, <2>2, Clocks DEF Coalesce
<1>6. ASSUME typed.trials
      PROVE  StandardTravel(typed, typed.onTrack).raceFinish \in ClockTimes
  <2> DEFINE end == EventClear(typed.trials, typed.last, typed.onTrack) + typed.packUp
                      + typed.returnTravel
  <2>1. end \in Int
    <3>1. EventClear(typed.trials, typed.last, typed.onTrack) \in Int
      BY <1>1, <1>2, <1>6, ClearTypes
    <3> QED
      BY <1>2, <3>1
  <2>2. StandardTravel(typed, typed.onTrack).raceFinish = Clock(Coalesce(typed.finish, end))
    BY DEF StandardTravel
  <2> HIDE DEF end
  <2>3. Coalesce(typed.finish, end) \in Int
    BY <1>1, <1>2, <2>1 DEF Coalesce
  <2> QED
    BY <2>2, <2>3, Clocks
<1> HIDE DEF derived
<1>7. CASE typed.trials
  BY <1>1, <1>6, <1>7 DEF Revision
<1>8. CASE ~typed.trials
  BY <1>1, <1>3, <1>4, <1>5, <1>8 DEF Revision, derived
<1> QED
  BY <1>1, <1>7, <1>8

LEMMA Minute ==
  /\ Day = 1440
  /\ \A clock \in ClockTimes : clock \in Int /\ 0 <= clock /\ clock < 1440
  /\ \A duration \in Durations : duration \in Int /\ 0 <= duration /\ duration <= 1440
BY DEF Day, ClockTimes, Durations

LEMMA OnWorkday ==
  ASSUME NEW revision, NEW clock \in ClockTimes
  PROVE  /\ ClockOnWorkday(revision, clock) \in Int
         /\ 0 <= ClockOnWorkday(revision, clock) /\ ClockOnWorkday(revision, clock) < 2880
<1>1. ClockOnWorkday(revision, clock) \in {clock, clock + Day}
  BY DEF ClockOnWorkday
<1> QED
  BY <1>1, Minute

LEMMA StartPlaced ==
  ASSUME NEW typed \in Sheet, NEW plan \in BOOLEAN, NEW row \in PersonalRow
  PROVE  LET start == StartMoment(Revision(typed, plan), row)
         IN  start \in Int /\ -1440 <= start /\ start < 2880
<1> DEFINE revision == Revision(typed, plan)
<1>1. /\ revision.onTrack \in ClockTimes /\ revision.start \in ClockTimes
      /\ revision.hotelToTrack \in Durations /\ revision.truckOffset \in Durations
  BY RevisionClocks DEF Sheet
<1> HIDE DEF revision
<1>2. /\ row.start \in ClockTimes \cup {NoTime} /\ HotelMinutes(revision, row) \in Durations
  BY <1>1 DEF PersonalRow, HotelMinutes, Coalesce
<1> DEFINE start == StartMoment(revision, row)
<1>3. CASE row.start = NoTime /\ UsesStandard(revision, row)
  <2> DEFINE onTrack == ClockOnWorkday(revision, revision.onTrack)
             hotel == HotelMinutes(revision, row)
  <2>1. onTrack \in Int /\ 0 <= onTrack /\ onTrack < 2880
    BY <1>1, OnWorkday
  <2>2. start = onTrack - hotel
    BY <1>3 DEF StartMoment
  <2>3. hotel \in Int /\ 0 <= hotel /\ hotel <= 1440
    BY <1>2, Minute
  <2> HIDE DEF onTrack, hotel, start
  <2>4. start \in Int /\ -1440 <= start /\ start < 2880
    BY <2>1, <2>2, <2>3
  <2> QED
    BY <2>4 DEF revision, start
<1>4. CASE ~(row.start = NoTime /\ UsesStandard(revision, row))
  <2>1. EffectiveStart(revision, row) \in ClockTimes
    <3> DEFINE usual == IF row.start # NoTime THEN row.start
                        ELSE IF row.mode \in {"SELF_TRAVEL", "NOT_REQUIRED"} /\ ~revision.trials
                        THEN revision.onTrack ELSE revision.start
    <3>1. usual \in ClockTimes
      BY <1>1, <1>2
    <3>2. EffectiveStart(revision, row) =
            IF InTruck(revision, row) THEN Clock(usual - revision.truckOffset) ELSE usual
      BY <1>4 DEF EffectiveStart
    <3> HIDE DEF usual
    <3>3. usual - revision.truckOffset \in Int
      <4>1. usual \in Int /\ revision.truckOffset \in Int
        BY <1>1, <3>1, Minute
      <4> QED
        BY <4>1
    <3> QED
      BY <3>1, <3>2, <3>3, Clocks
  <2> DEFINE usual == ClockOnWorkday(revision, EffectiveStart(revision, row))
             early == IF InTruck(revision, row) THEN revision.truckOffset ELSE 0
  <2>2. usual \in Int /\ 0 <= usual /\ usual < 2880
    BY <2>1, OnWorkday
  <2>3. start = usual - early
    BY <1>4 DEF StartMoment
  <2>4. early \in Int /\ 0 <= early /\ early <= 1440
    BY <1>1, Minute
  <2> HIDE DEF usual, early, start
  <2>5. start \in Int /\ -1440 <= start /\ start < 2880
    BY <2>2, <2>3, <2>4
  <2> QED
    BY <2>5 DEF revision, start
<1> QED
  BY <1>3, <1>4

LEMMA EventClearBound ==
  ASSUME NEW trials \in BOOLEAN, NEW last \in ClockTimes, NEW reference \in Int,
         0 <= reference, reference < 2880
  PROVE  LET clear == EventClear(trials, last, reference)
         IN  clear \in Int /\ 0 <= clear /\ clear <= 4344
<1> DEFINE at == ClockAfter(last, reference)
<1>1. at \in Int /\ 0 <= at /\ at <= 4320
  BY DEF ClockAfter, DateOf, Day, ClockTimes
<1>2. EventClear(trials, last, reference) = IF trials THEN CeilToQuarter(at) ELSE CeilToQuarter(at + 10)
  BY DEF EventClear, RaceClearAt, LastRaceClearance
<1> HIDE DEF at
<1>3. CeilToQuarter(at) >= at /\ CeilToQuarter(at) <= at + 14 /\ CeilToQuarter(at) \in Int
  BY <1>1, Quarters
<1>4. /\ CeilToQuarter(at + 10) >= at + 10 /\ CeilToQuarter(at + 10) <= at + 24
      /\ CeilToQuarter(at + 10) \in Int
  <2>1. at + 10 \in Int /\ at + 10 + 14 = at + 24
    BY <1>1
  <2> QED
    BY <2>1, Quarters
<1>5. CASE trials
  BY <1>1, <1>2, <1>3, <1>5
<1>6. CASE ~trials
  BY <1>1, <1>2, <1>4, <1>6
<1> QED
  BY <1>5, <1>6

\* What conflicts.py says of every interval: it starts a day before its Workday
\* at the earliest and ends three days after at the latest.  With a Person's own
\* return it may not, when that and pack-up take more than 23 hours.
THEOREM IntervalsPlaced ==
  ASSUME NEW typed \in Sheet, NEW plan \in BOOLEAN, NEW row \in PersonalRow,
         row.return # NoTime => typed.packUp + row.return <= 1380
  PROVE  Placed(EffectiveInterval(Revision(typed, plan), row), 0)
<1> DEFINE revision == Revision(typed, plan)
           start == StartMoment(revision, row)
           finish == IF OwnReturn(revision, row)
                     THEN OwnFinish(revision, row, ClockOnWorkday(revision, revision.onTrack))
                     ELSE ClockOnWorkday(revision, EffectiveFinish(revision, row))
           late == IF finish > start THEN 0 ELSE 1 + (start - finish) \div Day
           span == EffectiveInterval(revision, row)
<1>1. start \in Int /\ start >= -1440 /\ start < 2880
  BY StartPlaced
<1>2. /\ revision.trials \in BOOLEAN /\ revision.last \in ClockTimes
      /\ revision.onTrack \in ClockTimes /\ revision.start \in ClockTimes
      /\ revision.finish \in ClockTimes \cup {NoTime}
      /\ revision.packUp = typed.packUp /\ typed.packUp \in Durations
  BY RevisionClocks DEF Sheet
<1>3. row.finish \in ClockTimes \cup {NoTime} /\ row.return \in Durations \cup {NoTime}
  BY DEF PersonalRow
<1>4. span = [from |-> start,
              to |-> IF EffectiveFinish(revision, row) = NoTime THEN NoTime ELSE finish + late * Day]
  BY DEF EffectiveInterval
<1> HIDE DEF revision, start, span
<1>5. ASSUME EffectiveFinish(revision, row) # NoTime
      PROVE  finish \in Int /\ finish < 5760
  <2>1. CASE OwnReturn(revision, row)
    <3> DEFINE clear == EventClear(revision.trials, revision.last,
                                   ClockOnWorkday(revision, revision.onTrack))
    <3>1. clear \in Int /\ clear <= 4344
      BY <1>2, OnWorkday, EventClearBound
    <3>2. finish = clear + typed.packUp + row.return
      BY <1>2, <2>1 DEF OwnFinish
    <3>3. row.return \in Durations /\ row.return # NoTime
      BY <1>3, <2>1 DEF OwnReturn
    <3>4. row.return \in Int /\ typed.packUp \in Int
      BY <1>2, <3>3, Minute
    <3>5. typed.packUp + row.return <= 1380
      BY <3>3
    <3> HIDE DEF clear, finish
    <3> QED
      BY <3>1, <3>2, <3>4, <3>5
  <2>2. CASE ~OwnReturn(revision, row)
    <3>1. EffectiveFinish(revision, row) \in ClockTimes
      BY <1>2, <1>3, <1>5, <2>2 DEF EffectiveFinish, Coalesce
    <3>2. finish \in Int /\ finish < 2880
      BY <1>2, <2>2, <3>1, OnWorkday
    <3> HIDE DEF finish
    <3> QED
      BY <3>2
  <2> QED
    BY <2>1, <2>2
<1>6. span.from = start
  BY <1>4
<1>7. ASSUME span.to # NoTime
      PROVE  span.to \in Int /\ span.to > start /\ span.to < 5760
  <2>1. EffectiveFinish(revision, row) # NoTime /\ span.to = finish + late * Day
    BY <1>4, <1>7
  <2>2. finish \in Int /\ finish < 5760
    BY <1>5, <2>1
  <2> DEFINE end == finish + late * Day
  <2>3. end \in Int /\ end > start /\ (end = finish \/ end <= start + 1440)
    <3> HIDE DEF finish
    <3>1. CASE finish > start
      <4>1. end = finish
        BY <2>2, <3>1 DEF Day
      <4> QED
        BY <2>2, <3>1, <4>1
    <3>2. CASE ~(finish > start)
      <4>1. finish <= start
        BY <1>1, <2>2, <3>2
      <4> QED
        <5> DEFINE days == (start - finish) \div Day
        <5>1. end = finish + (1 + days) * Day
          BY <3>2
        <5>2. days \in Int /\ days * 1440 <= start - finish /\ start - finish < days * 1440 + 1440
          BY <1>1, <2>2 DEF Day
        <5> HIDE DEF days, end
        <5> QED
          BY <1>1, <2>2, <5>1, <5>2 DEF Day
    <3> QED
      BY <3>1, <3>2
  <2>4. span.to = end
    BY <2>1
  <2> HIDE DEF finish, late, end
  <2> QED
    BY <1>1, <2>2, <2>3, <2>4
<1>8. Placed(span, 0)
  BY <1>1, <1>6, <1>7 DEF Placed, MaxStartDaysBefore, MaxFinishDaysAfter, Day
<1> QED
  BY <1>8 DEF span, revision

LEMMA RacePlaced ==
  ASSUME sheet \in Sheets, NEW rev \in DayRev
  PROVE  Placed(RaceSpan(rev).span, RaceSpan(rev).date) /\ RaceSpan(rev).date \in Int
<1>1. sheet \in Sheet /\ rev.plan \in BOOLEAN /\ rev.row.standard \in BOOLEAN
  BY TravelAssumption, RowTypes DEF DayRev, Row
<1>2. PlainRow(rev.row.standard) \in PersonalRow /\ PlainRow(rev.row.standard).return = NoTime
  BY <1>1 DEF PlainRow, PersonalRow, Modes
<1>3. Placed(EffectiveInterval(Revision(sheet, rev.plan), PlainRow(rev.row.standard)), 0)
  BY <1>1, <1>2, IntervalsPlaced
<1> QED
  BY <1>3 DEF RaceSpan

LEMMA TravelPlaced ==
  ASSUME sheet \in Sheets
  PROVE  Placed(TravelSpan.span, TravelSpan.date) /\ TravelSpan.date \in Int
<1> DEFINE times == StandardTravel(sheet, Revision(sheet, TRUE).onTrack)
           late == IF times.travelFinish > times.travelStart THEN 0 ELSE Day
<1>1. /\ sheet.departure \in ClockTimes /\ sheet.toHotel \in Durations
      /\ times.travelStart = Clock(sheet.departure)
      /\ times.travelFinish = Clock(sheet.departure + sheet.toHotel)
  BY TravelAssumption DEF Sheet, StandardTravel
<1>2. sheet.departure \in Int /\ sheet.departure + sheet.toHotel \in Int
  <2>1. sheet.departure \in Int /\ sheet.toHotel \in Int
    BY <1>1, Minute
  <2> QED
    BY <2>1
<1>3. times.travelStart \in ClockTimes /\ times.travelFinish \in ClockTimes
  BY <1>1, <1>2, Clocks
<1> HIDE DEF times
<1>4. /\ times.travelStart \in Int /\ 0 <= times.travelStart /\ times.travelStart < 1440
      /\ times.travelFinish \in Int /\ 0 <= times.travelFinish /\ times.travelFinish < 1440
  BY <1>3, Minute
<1>5. TravelSpan = [span |-> [from |-> times.travelStart - Day,
                              to |-> times.travelFinish + late - Day], date |-> -1]
  BY DEF TravelSpan, times
<1>6. /\ TravelSpan.date = -1 /\ TravelSpan.span.from = times.travelStart - Day
      /\ TravelSpan.span.to = times.travelFinish + late - Day
  BY <1>5
<1> DEFINE from == times.travelStart - Day
           to == times.travelFinish + late - Day
<1>7. /\ from \in Int /\ -1440 <= from /\ from < 0
      /\ to \in Int /\ from <= to /\ to < 1440
  <2>1. CASE times.travelFinish > times.travelStart
    BY <1>4, <2>1 DEF Day
  <2>2. CASE ~(times.travelFinish > times.travelStart)
    BY <1>4, <2>2 DEF Day
  <2> QED
    BY <2>1, <2>2
<1>8. TravelSpan.date = -1 /\ TravelSpan.span.from = from /\ TravelSpan.span.to = to
  BY <1>6
<1> HIDE DEF from, to
<1>9. /\ from \in (-1 - 1) * Day .. (-1 + 3 + 1) * Day - 1
      /\ to \in from .. (-1 + 3 + 1) * Day - 1
  BY <1>7 DEF Day
<1> QED
  BY <1>8, <1>9 DEF Placed, MaxStartDaysBefore, MaxFinishDaysAfter

\* The search by dates finds every clash, from either day.
LEMMA SearchFinds ==
  ASSUME NEW work, Placed(work.span, work.date), work.date \in Int
  PROVE  /\ Conflict(work, OtherWork) <=> Clashes(work, OtherWork)
         /\ Conflict(OtherWork, work) <=> Clashes(work, OtherWork)
<1>1. Placed(OtherSpan, OtherDate) /\ OtherDate \in Int
  BY TravelAssumption
<1>2. OtherWork.span = OtherSpan /\ OtherWork.date = OtherDate
  BY DEF OtherWork
<1>3. /\ Clashes(work, OtherWork) <=> Overlap(work.span, work.date, OtherSpan, OtherDate)
      /\ Clashes(OtherWork, work) <=> Overlap(OtherSpan, OtherDate, work.span, work.date)
  BY <1>2 DEF Clashes
<1>4. Clashes(OtherWork, work) <=> Clashes(work, OtherWork)
  BY <1>3, OverlapSymmetric
<1>5. Clashes(work, OtherWork) => InWindow(work.span, OtherDate)
  BY <1>1, <1>3, WindowSees
<1>6. Clashes(OtherWork, work) => InWindow(OtherSpan, work.date)
  BY <1>1, <1>3, WindowSees
<1> QED
  BY <1>2, <1>4, <1>5, <1>6 DEF Conflict

-----------------------------------------------------------------------------
(* Publication.                                                            *)

LEMMA DayPublished ==
  ASSUME TravelInv, NEW confirmed \in BOOLEAN, Publish(confirmed)
  PROVE  TravelInv'
<1> USE DEF TravelInv
<1>1. /\ draft # NoRev /\ draft \in DayRev /\ draft.plan \in BOOLEAN
      /\ published' = draft /\ draft' = NoRev
      /\ UNCHANGED <<sheet, optOut, replaced, other, request, raced>>
      /\ accepted' = (accepted \/ PublicationConflicts # {})
      /\ ~replaced
  BY DEF Publish, TravelTypeOK, DayRev, Made
<1>2. accepted' \in BOOLEAN
  BY <1>1
<1>3. \A p \in People : Travels(draft, p) => p \in RowsFlushed(draft.row) /\ draft.plan
  BY <1>1, TravellersFlushed
<1>4. ASSUME ~accepted', other.who # NoOne, other.status = Scheduled
      PROVE  /\ status.race = Scheduled /\ draft.row.person = other.who =>
                  ~Clashes(RaceSpan(draft), OtherWork)
             /\ draft.plan /\ travelDraft # NoRev /\ other.who \in travelDraft =>
                  ~Clashes(TravelSpan, OtherWork)
  <2>1. other.who \in People
    BY <1>4 DEF TravelTypeOK
  <2>2. other.who \notin PublicationConflicts
    BY <1>1, <1>4
  <2>3. \A work \in (IF status.race = Scheduled THEN RaceWork(draft, other.who) ELSE {})
                    \cup (IF draft.plan THEN TravelWork(travelDraft, other.who) ELSE {}) :
          ~Conflict(work, OtherWork)
    BY <1>4, <2>1, <2>2 DEF PublicationConflicts
  <2>4. Conflict(RaceSpan(draft), OtherWork) <=> Clashes(RaceSpan(draft), OtherWork)
    <3>1. Placed(RaceSpan(draft).span, RaceSpan(draft).date) /\ RaceSpan(draft).date \in Int
      BY <1>1, RacePlaced DEF TravelTypeOK
    <3> QED
      BY <3>1, SearchFinds
  <2>5. Conflict(TravelSpan, OtherWork) <=> Clashes(TravelSpan, OtherWork)
    <3>1. Placed(TravelSpan.span, TravelSpan.date) /\ TravelSpan.date \in Int
      BY TravelPlaced DEF TravelTypeOK
    <3> QED
      BY <3>1, SearchFinds
  <2> QED
    BY <1>1, <2>3, <2>4, <2>5 DEF RaceWork, TravelWork
<1>5. TravelSpan' = TravelSpan /\ RaceSpan(published)' = RaceSpan(draft)
  BY <1>1 DEF TravelSpan, RaceSpan
<1>6. CASE CancelTravel
  <2>1. /\ ~draft.plan /\ TravelExists
        /\ status' = [status EXCEPT !.travel = "CANCELLED"]
        /\ UNCHANGED <<travelDraft, travelPublished, declined, stale, missed>>
    BY <1>6 DEF CancelTravel, travel, lists
  <2>2. /\ status' \in Statuses /\ status'.race = status.race /\ status'.travel = "CANCELLED"
    BY <2>1 DEF TravelTypeOK, Statuses, Off
  <2>3. TravelTypeOK'
    BY <1>1, <1>2, <2>1, <2>2 DEF TravelTypeOK
  <2>4. Made'
    BY <1>1, <2>1, <2>2 DEF Made, TravelExists
  <2>5. Listed'
    BY <1>1, <1>3, <2>1 DEF Listed, OnTravel, Travels
  <2>6. Agreed'
    BY <1>1, <2>1, <2>2 DEF Agreed, Scheduled
  <2>7. Asked'
    BY <1>1, <2>1, <2>2, Absent DEF Asked, TravelExists
  <2>8. Compared'
    BY <1>1, <1>4, <1>5, <2>1, <2>2 DEF Compared, Scheduled
  <2> QED
    BY <2>3, <2>4, <2>5, <2>6, <2>7, <2>8
<1>7. CASE PromoteTravel
  <2>1. /\ draft.plan /\ travelDraft # NoRev /\ travelDraft \in SUBSET People
        /\ status' = [status EXCEPT !.travel = Scheduled]
        /\ travelPublished' = travelDraft /\ travelDraft' = NoRev /\ declined' = {}
        /\ missed' = stale /\ stale' = FALSE
    BY <1>7 DEF PromoteTravel, TravelTypeOK
  <2>2. /\ status' \in Statuses /\ status'.race = status.race /\ status'.travel = Scheduled
        /\ status'.travel # "NONE"
    BY <2>1 DEF TravelTypeOK, Statuses, Scheduled
  <2>3. TravelTypeOK'
    BY <1>1, <1>2, <2>1, <2>2 DEF TravelTypeOK
  <2>4. Made'
    BY <1>1, <2>1, <2>2 DEF Made, TravelExists
  <2>5. Listed'
    <3>1. ~stale => RowsFlushed(draft.row) \subseteq travelDraft
      BY <1>1, <2>1 DEF Listed
    <3>2. ~stale => \A p \in People : Travels(draft, p) => p \in travelDraft
      BY <1>3, <3>1
    <3>3. \A p \in People : Travels(published, p)' <=> Travels(draft, p)
      BY <1>1 DEF Travels
    <3> QED
      BY <1>1, <2>1, <3>2, <3>3 DEF Listed, OnTravel
  <2>6. Agreed'
    BY <1>1, <2>1, <2>2 DEF Agreed
  <2>7. Asked'
    BY <1>1, <2>2 DEF Asked, TravelExists
  <2>8. Compared'
    BY <1>1, <1>4, <1>5, <2>1, <2>2 DEF Compared
  <2> QED
    BY <2>3, <2>4, <2>5, <2>6, <2>7, <2>8
<1>8. CASE LeaveTravel
  <2>1. /\ IF draft.plan THEN travelDraft = NoRev ELSE ~TravelExists
        /\ missed' = (missed \/ stale) /\ stale' = FALSE
        /\ UNCHANGED <<status, travelDraft, travelPublished, declined>>
    BY <1>8 DEF LeaveTravel, travel
  <2>2. travelDraft = NoRev /\ (missed' \in BOOLEAN)
    BY <2>1 DEF Made, TravelTypeOK
  <2>3. TravelTypeOK'
    BY <1>1, <1>2, <2>1, <2>2 DEF TravelTypeOK
  <2>4. Made'
    BY <1>1, <2>1, <2>2 DEF Made, TravelExists
  <2>5. Listed'
    <3>1. \A p \in People : OnTravel(published, p)' <=> OnTravel(draft, p)
      BY <1>1, <2>1 DEF OnTravel, Travels
    <3>2. ~missed' => \A p \in People : OnTravel(draft, p)
      BY <1>1, <2>1, <2>2 DEF Listed, OnTravel, Travels
    <3> QED
      BY <1>1, <2>1, <2>2, <3>1, <3>2 DEF Listed
  <2>6. Agreed'
    BY <1>1, <2>1, <2>2 DEF Agreed, Made
  <2>7. Asked'
    BY <1>1, <2>1, Absent DEF Asked, TravelExists
  <2>8. Compared'
    <3>1. ~accepted' => ~accepted
      BY <1>1
    <3> QED
      BY <1>1, <1>4, <1>5, <2>1, <3>1 DEF Compared
  <2> QED
    BY <2>3, <2>4, <2>5, <2>6, <2>7, <2>8
<1> QED
  BY <1>6, <1>7, <1>8 DEF Publish

LEMMA DayRescheduled ==
  ASSUME TravelInv, Reschedule
  PROVE  TravelInv'
<1> USE DEF TravelInv
<1>1. /\ published # NoRev /\ replaced' = TRUE /\ draft' = NoRev /\ travelDraft' = NoRev
      /\ status' = [race |-> "ABANDONED", travel |-> IF TravelExists THEN "ABANDONED" ELSE "NONE"]
      /\ UNCHANGED <<sheet, published, travelPublished, declined, stale, missed, optOut, other,
                     request, raced, accepted>>
  BY DEF Reschedule, lists
<1>2. /\ status' \in Statuses /\ status'.race # Scheduled /\ status'.travel # Scheduled
      /\ status'.travel = "NONE" <=> ~TravelExists
  BY <1>1 DEF Statuses, Off, Scheduled
<1>3. TravelTypeOK'
  BY <1>1, <1>2 DEF TravelTypeOK
<1>4. Made'
  BY <1>1, <1>2 DEF Made, TravelExists
<1>5. Listed'
  BY <1>1 DEF Listed, OnTravel, Travels
<1>6. Agreed'
  BY <1>1, <1>2 DEF Agreed
<1>7. Asked'
  BY <1>1, <1>2 DEF Asked, TravelExists
<1>8. Compared'
  BY <1>1, <1>2 DEF Compared
<1> QED
  BY <1>3, <1>4, <1>5, <1>6, <1>7, <1>8

-----------------------------------------------------------------------------
(* The status of the day.                                                  *)

LEMMA StatusReading ==
  ASSUME TravelInv, NEW to \in Off \cup {Scheduled}, StatusRead(to)
  PROVE  TravelInv'
<1> USE DEF TravelInv
<1> DEFINE theirs == IF TravelExists THEN GeneratedStatus(to) ELSE "NONE"
<1>1. /\ published # NoRev /\ published \in DayRev /\ published.plan \in BOOLEAN
      /\ IF status.race = Scheduled THEN to \in Off ELSE to = Scheduled
      /\ UNCHANGED <<sheet, draft, published, status, travelDraft, travelPublished, declined, stale,
                     missed, optOut, replaced, other, raced, accepted>>
  BY DEF StatusRead, day, travel, lists, TravelTypeOK, DayRev
<1>2. request' = [from |-> status, plan |-> published.plan, to |-> [race |-> to, travel |-> theirs]]
  BY DEF StatusRead
<1>3. /\ theirs \in {"NONE", Scheduled} \cup Off
      /\ theirs = "NONE" <=> ~TravelExists
      /\ to \in Off => theirs # Scheduled
      /\ to = Scheduled /\ TravelExists => (theirs = Scheduled <=> published.plan)
  BY <1>1 DEF GeneratedStatus, Off, Scheduled
<1> HIDE DEF theirs
<1>4. [race |-> to, travel |-> theirs] \in Statuses
  BY <1>3 DEF Statuses
<1>5. request' \in Request
  BY <1>1, <1>2, <1>4 DEF Request, TravelTypeOK
<1>6. /\ request'.from = status /\ request'.plan = published.plan
      /\ request'.to.race = to /\ request'.to.travel = theirs
  BY <1>2
<1>7. TravelTypeOK'
  BY <1>1, <1>5 DEF TravelTypeOK
<1>8. Made'
  BY <1>1 DEF Made, TravelExists
<1>9. Listed'
  BY <1>1 DEF Listed, OnTravel, Travels
<1>10. Agreed'
  BY <1>1 DEF Agreed
<1>11. Asked'
  <2>1. status.travel = "NONE" => ~published.plan
    BY <1>1 DEF Made, TravelExists
  <2>2. TravelExists' <=> TravelExists
    BY <1>1 DEF TravelExists
  <2> QED
    BY <1>1, <1>3, <1>6, <2>1, <2>2 DEF Asked, TravelExists, Off, Scheduled
<1>12. Compared'
  BY <1>1, SpansKept DEF Compared
<1> QED
  BY <1>7, <1>8, <1>9, <1>10, <1>11, <1>12

LEMMA StatusCommitted ==
  ASSUME TravelInv, StatusCommit
  PROVE  TravelInv'
<1> USE DEF TravelInv
<1> DEFINE from == request.from
           to == request.to
<1>1. /\ request # NoRev /\ request \in Request /\ request' = NoRev
      /\ raced' = (raced \/ status # from \/ published.plan # request.plan)
      /\ accepted' = (accepted \/ to.race = Scheduled)
      /\ UNCHANGED <<sheet, draft, published, travelDraft, travelPublished, declined, stale, missed,
                     optOut, replaced, other>>
  BY DEF StatusCommit, day, travel, lists, TravelTypeOK
<1>2. raced' \in BOOLEAN /\ accepted' \in BOOLEAN
  BY <1>1 DEF TravelTypeOK
<1>3. /\ from \in Statuses /\ to \in Statuses /\ status \in Statuses
      /\ request.plan \in BOOLEAN
  BY <1>1 DEF Request, TravelTypeOK
<1>4. /\ published # NoRev
      /\ to.race = Scheduled /\ from.travel # "NONE" => (to.travel = Scheduled <=> request.plan)
      /\ to.race # Scheduled => to.travel # Scheduled /\ from.race = Scheduled
      /\ from.travel = "NONE" <=> to.travel = "NONE"
      /\ from.travel = "NONE" => ~request.plan
      /\ from.travel # "NONE" => TravelExists
  BY <1>1 DEF Asked
<1>5. status' = [d \in DOMAIN status |-> IF to[d] = from[d] THEN status[d] ELSE to[d]]
  BY DEF StatusCommit
<1>6. status' = [race |-> IF to.race = from.race THEN status.race ELSE to.race,
                 travel |-> IF to.travel = from.travel THEN status.travel ELSE to.travel]
  <2>1. DOMAIN status = {"race", "travel"}
    BY <1>3 DEF Statuses
  <2>2. status' = [d \in {"race", "travel"} |-> IF to[d] = from[d] THEN status[d] ELSE to[d]]
    BY <1>5, <2>1
  <2> HIDE DEF to, from
  <2> QED
    BY <2>2
<1> HIDE DEF to, from
<1>7. /\ status' \in Statuses
      /\ status'.race = IF to.race = from.race THEN status.race ELSE to.race
      /\ status'.travel = IF to.travel = from.travel THEN status.travel ELSE to.travel
      /\ status'.travel = "NONE" <=> status.travel = "NONE"
  BY <1>3, <1>4, <1>6 DEF Statuses, TravelExists
<1>8. ~raced' => ~raced /\ status = from /\ published.plan = request.plan
  BY <1>1
<1>9. ~raced' => status'.race = to.race /\ status'.travel = to.travel
  BY <1>7, <1>8
<1>10. TravelTypeOK'
  BY <1>1, <1>2, <1>7 DEF TravelTypeOK
<1>11. Made'
  BY <1>1, <1>7 DEF Made, TravelExists
<1>12. Listed'
  BY <1>1 DEF Listed, OnTravel, Travels
<1>13. Agreed'
  <2> SUFFICES ASSUME ~raced' PROVE Agreed'
    BY DEF Agreed
  <2>1. status'.race = Scheduled /\ published.plan => status'.travel = Scheduled
    BY <1>4, <1>8, <1>9 DEF Made, TravelExists
  <2>2. status'.travel = Scheduled => published.plan
    BY <1>4, <1>8, <1>9, <1>3 DEF Scheduled, Statuses
  <2>3. draft # NoRev /\ draft.plan /\ travelDraft = NoRev => published.plan
    BY <1>8 DEF Agreed
  <2> QED
    BY <1>1, <1>4, <2>1, <2>2, <2>3 DEF Agreed
<1>14. Asked'
  BY <1>1 DEF Asked
<1>15. Compared'
  <2> SUFFICES ASSUME ~raced', ~accepted' PROVE Compared'
    BY DEF Compared
  <2>1. ~accepted /\ to.race # Scheduled
    BY <1>1
  <2>2. status'.race # Scheduled /\ status'.travel # Scheduled
    BY <1>4, <1>9, <2>1
  <2> QED
    BY <2>2 DEF Compared
<1> QED
  BY <1>10, <1>11, <1>12, <1>13, <1>14, <1>15

-----------------------------------------------------------------------------
(* Employees, and the other Workday.                                       *)

LEMMA RaceDeclined ==
  ASSUME TravelInv, DeclineRace
  PROVE  TravelInv'
<1> USE DEF TravelInv
<1>1. /\ published # NoRev /\ published \in DayRev
      /\ published' = [published EXCEPT !.row = [person |-> NoOne, standard |-> TRUE]]
      /\ draft' = NoRev /\ stale' = (stale \/ travelDraft # NoRev)
      /\ UNCHANGED <<sheet, status, travelDraft, travelPublished, declined, missed, optOut, replaced,
                     other, request, raced, accepted>>
  BY DEF DeclineRace, travel, around, TravelTypeOK
<1>2. published' = [plan |-> published.plan, row |-> [person |-> NoOne, standard |-> TRUE]]
  BY <1>1 DEF DayRev
<1>3. [person |-> NoOne, standard |-> TRUE] \in Rows
  BY DEF Rows, Row
<1>5. /\ published' \in DayRev /\ published' # NoRev
      /\ published'.plan = published.plan /\ published'.row.person = NoOne
  <2>1. published.plan \in BOOLEAN
    BY <1>1 DEF DayRev
  <2>2. published' \in DayRev
    BY <1>2, <1>3, <2>1 DEF DayRev
  <2>3. published'.plan = published.plan /\ published'.row.person = NoOne
    BY <1>2
  <2> QED
    BY <2>2, <2>3, Absent
<1>6. \A p \in People : ~Travels(published, p)'
  BY <1>5, Absent DEF Travels
<1>7. TravelTypeOK'
  BY <1>1, <1>5 DEF TravelTypeOK
<1>8. Made'
  BY <1>1, <1>5 DEF Made, TravelExists
<1>9. Listed'
  BY <1>1, <1>6 DEF Listed, OnTravel
<1>10. Agreed'
  BY <1>1, <1>5 DEF Agreed
<1>11. Asked'
  BY <1>1, <1>5 DEF Asked, TravelExists
<1>12. Compared'
  BY <1>1, <1>5, SpansKept DEF Compared
<1> QED
  BY <1>7, <1>8, <1>9, <1>10, <1>11, <1>12

LEMMA TravelDeclined ==
  ASSUME TravelInv, NEW p \in People, DeclineTravel(p)
  PROVE  TravelInv'
<1> USE DEF TravelInv
<1>1. /\ travelPublished # NoRev /\ travelPublished \in SUBSET People /\ status.travel = Scheduled
      /\ travelPublished' = travelPublished \ {p} /\ declined' = declined \cup {p}
      /\ stale' = (stale \/ travelDraft # NoRev) /\ travelDraft' = NoRev
      /\ UNCHANGED <<sheet, draft, published, status, missed, optOut, replaced, other, request,
                     raced, accepted>>
  BY DEF DeclineTravel, day, around, TravelTypeOK
<1>2. travelPublished' \in SUBSET People /\ travelPublished' # NoRev
  BY <1>1, Absent
<1>3. TravelTypeOK'
  BY <1>1, <1>2 DEF TravelTypeOK
<1>4. Made'
  BY <1>1, <1>2 DEF Made, TravelExists, Scheduled
<1>5. Listed'
  <2>1. \A q \in People : /\ OnTravel(published, q) => OnTravel(published, q)'
                          /\ OnTravel(draft, q) => OnTravel(draft, q)'
    BY <1>1, <1>2 DEF OnTravel, Travels
  <2>2. ~stale' => ~stale /\ travelDraft = NoRev
    BY <1>1
  <2> QED
    BY <1>1, <2>1, <2>2 DEF Listed
<1>6. Agreed'
  BY <1>1, <1>2 DEF Agreed
<1>7. Asked'
  BY <1>1 DEF Asked, TravelExists
<1>8. Compared'
  BY <1>1, <1>2, SpansKept DEF Compared
<1> QED
  BY <1>3, <1>4, <1>5, <1>6, <1>7, <1>8

LEMMA EntrySaved ==
  ASSUME TravelInv, NEW p \in People, NEW own \in BOOLEAN, SavePersonalEntry(p, own)
  PROVE  TravelInv'
<1> USE DEF TravelInv
<1>1. /\ optOut' \in {optOut \cup {p}, optOut \ {p}}
      /\ UNCHANGED <<sheet, draft, published, status, travelDraft, travelPublished, declined, stale,
                     missed, replaced, other, request, raced, accepted>>
  BY DEF SavePersonalEntry, day, travel, lists
<1>2. TravelTypeOK'
  BY <1>1 DEF TravelTypeOK
<1>3. Made' /\ Asked' /\ Agreed'
  BY <1>1 DEF Made, Asked, Agreed, TravelExists
<1>4. Listed'
  BY <1>1 DEF Listed, OnTravel, Travels
<1>5. Compared'
  BY <1>1, SpansKept DEF Compared
<1> QED
  BY <1>2, <1>3, <1>4, <1>5

LEMMA OtherChanged ==
  ASSUME TravelInv, OtherCancel \/ \E p \in People, yes \in BOOLEAN : OtherPublish(p, yes)
  PROVE  TravelInv'
<1> USE DEF TravelInv
<1>1. UNCHANGED <<sheet, draft, published, status, travelDraft, travelPublished, declined, stale,
                  missed, optOut, replaced, request, raced>>
  BY DEF OtherCancel, OtherPublish, day, travel, lists
<1>2. Made' /\ Asked' /\ Agreed'
  BY <1>1 DEF Made, Asked, Agreed, TravelExists
<1>3. Listed'
  BY <1>1 DEF Listed, OnTravel, Travels
<1>4. CASE OtherCancel
  <2>1. /\ other' = [other EXCEPT !.status = "CANCELLED"] /\ accepted' = accepted
    BY <1>4 DEF OtherCancel
  <2>2. TravelTypeOK' /\ other'.status # Scheduled
    BY <1>1, <2>1 DEF TravelTypeOK, Scheduled
  <2> QED
    BY <1>2, <1>3, <2>2 DEF Compared
<1>5. ASSUME NEW p \in People, NEW yes \in BOOLEAN, OtherPublish(p, yes)
      PROVE  TravelInv'
  <2>1. other' = [other EXCEPT !.who = p] /\ accepted' = (accepted \/ OtherConflicts(p))
    BY <1>5 DEF OtherPublish
  <2>2. other' \in [who : People \cup {NoOne}, status : {Scheduled, "CANCELLED"}] /\ other'.who = p
    BY <2>1 DEF TravelTypeOK
  <2>3. accepted' \in BOOLEAN
    BY <2>1 DEF TravelTypeOK, OtherConflicts
  <2>4. TravelTypeOK'
    BY <1>1, <2>2, <2>3 DEF TravelTypeOK
  <2>5. ASSUME ~accepted'
        PROVE  /\ status.race = Scheduled /\ published # NoRev /\ published.row.person = p =>
                    ~Clashes(RaceSpan(published), OtherWork)
               /\ status.travel = Scheduled /\ travelPublished # NoRev /\ p \in travelPublished =>
                    ~Clashes(TravelSpan, OtherWork)
    <3>1. ~OtherConflicts(p)
      BY <2>1, <2>5
    <3>2. \A work \in (IF status.race = Scheduled THEN RaceWork(published, p) ELSE {})
                      \cup (IF status.travel = Scheduled THEN TravelWork(travelPublished, p) ELSE {}) :
            ~Conflict(OtherWork, work)
      BY <3>1 DEF OtherConflicts
    <3>3. published # NoRev =>
            (Conflict(OtherWork, RaceSpan(published)) <=> Clashes(RaceSpan(published), OtherWork))
      <4> SUFFICES ASSUME published # NoRev
                   PROVE  Conflict(OtherWork, RaceSpan(published)) <=> Clashes(RaceSpan(published), OtherWork)
        OBVIOUS
      <4>1. /\ Placed(RaceSpan(published).span, RaceSpan(published).date)
            /\ RaceSpan(published).date \in Int
        BY RacePlaced DEF TravelTypeOK
      <4> QED
        BY <4>1, SearchFinds
    <3>4. Conflict(OtherWork, TravelSpan) <=> Clashes(TravelSpan, OtherWork)
      <4>1. Placed(TravelSpan.span, TravelSpan.date) /\ TravelSpan.date \in Int
        BY TravelPlaced DEF TravelTypeOK
      <4> QED
        BY <4>1, SearchFinds
    <3> QED
      BY <3>2, <3>3, <3>4 DEF RaceWork, TravelWork
  <2>6. Compared'
    BY <1>1, <2>2, <2>5, SpansKept DEF Compared
  <2> QED
    BY <1>2, <1>3, <2>4, <2>6
<1> QED
  BY <1>4, <1>5

-----------------------------------------------------------------------------
(* What the pages show.                                                    *)

LEMMA Participants ==
  ASSUME TravelInv
  PROVE  /\ ActiveOn("travel") \subseteq People
         /\ \A d \in Days : ActiveOn(d) \subseteq RowsOf(d)
         /\ \A d \in Days : RowsOf(d) # {} => IsPublished(d)
<1>1. /\ travelPublished \in (SUBSET People) \cup {NoRev}
      /\ travelPublished # NoRev => travelPublished \subseteq People
  BY DEF TravelInv, TravelTypeOK
<1>2. ActiveOn("travel") \subseteq People /\ ActiveOn("travel") \subseteq RowsOf("travel")
  <2>1. IsPublished("travel") <=> travelPublished # NoRev
    BY DEF IsPublished
  <2>2. travelPublished # NoRev => RowsOf("travel") = travelPublished
    BY <2>1 DEF RowsOf
  <2>3. ActiveOn("travel") = ActivePublished
    BY DEF ActiveOn
  <2>4. ActivePublished # {} =>
          travelPublished # NoRev /\ ActivePublished \subseteq travelPublished
    BY DEF ActivePublished
  <2> QED
    BY <1>1, <2>2, <2>3, <2>4
<1>3. ActiveOn("race") = RowsOf("race")
  BY DEF ActiveOn
<1>4. \A d \in Days : RowsOf(d) # {} => IsPublished(d)
  <2> SUFFICES ASSUME NEW d \in Days, ~IsPublished(d) PROVE RowsOf(d) = {}
    OBVIOUS
  <2> QED
    BY DEF RowsOf
<1> QED
  BY <1>2, <1>3, <1>4 DEF Days

LEMMA Own ==
  ASSUME NEW p, NEW d \in Days
  PROVE  /\ OwnOn(p, d) # {} <=> p # NoOne /\ p \in ActiveOn(d)
         /\ OwnOn(p, d) \subseteq ActiveOn(d)
         /\ d \in MonthOwn(p) <=> p # NoOne /\ p \in ActiveOn(d)
BY DEF OwnOn, MonthOwn

LEMMA PagesOfPerson ==
  ASSUME TravelInv, NEW p \in People
  PROVE  /\ HoursDays(p) = Upcoming(p) /\ HoursDays(p) = Reminded(p)
         /\ \A d \in HoursDays(p) : ReminderStands(p, d)
<1>1. p # NoOne
  BY Absent
<1>2. \A d \in Days : d \in Upcoming(p) <=> d \in HoursDays(p)
  BY <1>1, Own DEF Upcoming, HoursDays
<1>3. Upcoming(p) \subseteq Days /\ HoursDays(p) \subseteq Days /\ Reminded(p) \subseteq Days
  BY DEF Upcoming, MonthOwn, HoursDays, Reminded
<1>4. \A d \in Days : d \in Reminded(p) <=> d \in HoursDays(p)
  BY Participants DEF Reminded, HoursDays
<1>5. \A d \in HoursDays(p) : ReminderStands(p, d)
  BY DEF HoursDays, ReminderStands
<1> QED
  BY <1>2, <1>3, <1>4, <1>5

LEMMA ViewerTypes ==
  ASSUME NEW v \in Viewers
  PROVE  /\ v.person \in People \cup {NoOne}
         /\ v.role = "CONTRACTOR" => v.person # NoOne /\ ~Management(v) /\ ~CrewView(v)
         /\ Management(v) \/ MayApply(v) => CrewView(v)
BY Absent DEF Viewers, Management, MayApply, CrewView

LEMMA OwnDayOpens ==
  ASSUME TravelInv, NEW v \in Viewers, NEW d \in MonthOwn(v.person)
  PROVE  /\ DayOpens(v, d) /\ ApiOpens(v, d)
         /\ v.person \in DayShows(v, d) \cap ApiShows(v, d)
<1>1. d \in Days
  BY DEF MonthOwn
<1>2. v.person # NoOne /\ v.person \in ActiveOn(d) /\ v.person \in OwnOn(v.person, d)
  BY <1>1, Own DEF OwnOn
<1>3. v.person \in RowsOf(d) /\ IsPublished(d) /\ AssignedOn(v, d)
  BY <1>1, <1>2, Participants DEF AssignedOn
<1>4. MayView(v, d)
  BY <1>3 DEF MayView
<1>5. v.person \in ApiShows(v, d) /\ v.person \in DayShows(v, d)
  BY <1>2 DEF ApiShows, DayShows
<1> QED
  BY <1>2, <1>4, <1>5 DEF DayOpens, ApiOpens

LEMMA LinkedDayOpens ==
  ASSUME TravelInv, NEW v \in Viewers, NEW d \in MonthOpen(v) \cup Adjacent(v)
  PROVE  DayOpens(v, d) /\ ApiOpens(v, d)
<1>1. CASE d \in MonthOwn(v.person)
  BY <1>1, OwnDayOpens
<1>2. CASE d \in MonthOpen(v)
  <2>1. d = "race" /\ NoOne \in RowsOf(d) /\ CrewView(v)
    BY <1>2, ViewerTypes DEF MonthOpen
  <2>2. IsPublished(d)
    BY <2>1, Participants DEF Days
  <2> QED
    BY <2>1, <2>2 DEF DayOpens, ApiOpens, MayView
<1>3. CASE d \in Adjacent(v) /\ d \notin MonthOwn(v.person)
  <2>1. Management(v) /\ IsPublished(d)
    BY <1>3 DEF Adjacent
  <2> QED
    BY <2>1, ViewerTypes DEF DayOpens, ApiOpens, MayView
<1> QED
  BY <1>1, <1>2, <1>3

LEMMA OfflineAsOnline ==
  ASSUME NEW v \in Viewers, NEW d \in Days
  PROVE  /\ DayOpens(v, d) => ApiOpens(v, d)
         /\ ApiOpens(v, d) => DayOpens(v, d) \/ v.role = "CONTRACTOR"
<1>1. OwnOn(v.person, d) # {} => ApiShows(v, d) # {}
  BY Own DEF ApiShows
<1>2. v.role # "CONTRACTOR" => ApiShows(v, d) = OwnOn(v.person, d)
  BY DEF ApiShows
<1> QED
  BY <1>1, <1>2 DEF DayOpens, ApiOpens

LEMMA TravellersShown ==
  ASSUME TravelInv, NEW v \in Viewers, ~raced,
         NEW p \in DayShows(v, "travel") \cup ApiShows(v, "travel") \cup CrewShows(v, "travel")
  PROVE  Travels(published, p) /\ status.race = Scheduled
<1>1. "travel" \in Days
  BY DEF Days
<1>2. p \in ActiveOn("travel")
  BY <1>1, Own DEF DayShows, ApiShows, CrewShows
<1>3. p \in ActivePublished
  BY <1>2 DEF ActiveOn
<1>4. /\ travelPublished # NoRev /\ status = [race |-> Scheduled, travel |-> Scheduled]
      /\ published.row = [person |-> p, standard |-> TRUE]
  BY <1>3 DEF ActivePublished
<1>5. status.race = Scheduled /\ status.travel = Scheduled
  BY <1>4
<1>6. published # NoRev /\ published.plan
  BY <1>4, <1>5 DEF TravelInv, Agreed
<1> QED
  BY <1>4, <1>5, <1>6 DEF Travels

LEMMA DigestsAgree ==
  ASSUME NEW v \in Viewers
  PROVE  /\ OpenDigest(v) \ MonthOwn(v.person) = MonthOpen(v)
         /\ v.person # NoOne =>
              Digest(v) = IF v.role = "ELSEWHERE" THEN {} ELSE HoursDays(v.person)
<1>1. OpenDigest(v) \ MonthOwn(v.person) = MonthOpen(v)
  BY DEF OpenDigest, MonthOpen
<1>2. ASSUME v.person # NoOne, v.role # "ELSEWHERE"
      PROVE  Digest(v) = HoursDays(v.person)
  <2>1. \A d \in Days : OwnOn(v.person, d) # {} <=> v.person \in ActiveOn(d)
    BY <1>2, Own
  <2> QED
    BY <1>2, <2>1 DEF Digest, HoursDays
<1>3. v.role = "ELSEWHERE" => Digest(v) = {}
  BY DEF Digest
<1> QED
  BY <1>1, <1>2, <1>3

LEMMA PagesFollow == TravelInv => PagesAgree
<1> SUFFICES ASSUME TravelInv PROVE PagesAgree
  OBVIOUS
<1>1. ASSUME NEW v \in Viewers
      PROVE  MonthOwn(v.person) \cup MonthOpen(v) \cup Adjacent(v)
               \subseteq {d \in Days : DayOpens(v, d) /\ ApiOpens(v, d)}
  <2>1. MonthOwn(v.person) \cup MonthOpen(v) \cup Adjacent(v) \subseteq Days
    BY DEF MonthOwn, MonthOpen, Adjacent, Days
  <2> QED
    BY <2>1, OwnDayOpens, LinkedDayOpens
<1> QED
  BY <1>1, PagesOfPerson, OwnDayOpens, OfflineAsOnline, DigestsAgree, TravellersShown
     DEF PagesAgree

-----------------------------------------------------------------------------
(* The theorems.                                                           *)

LEMMA TravelInvStep ==
  TravelInv /\ [Next]_vars => TravelInv'
<1> SUFFICES ASSUME TravelInv, [Next]_vars PROVE TravelInv'
  OBVIOUS
<1>1. CASE OpenDraft \/ Reschedule \/ StatusCommit \/ DeclineRace \/ OtherCancel
  BY <1>1, DraftOpened, DayRescheduled, StatusCommitted, RaceDeclined, OtherChanged
<1>2. ASSUME NEW plan \in BOOLEAN, NEW row \in Rows \cup {NoRow}, SaveDraft(plan, row) \/ EditRow(row)
      PROVE  TravelInv'
  BY <1>2, DraftSaved, RowEdited
<1>3. ASSUME NEW confirmed \in BOOLEAN, Publish(confirmed)
      PROVE  TravelInv'
  BY <1>3, DayPublished
<1>4. ASSUME NEW to \in Off \cup {Scheduled}, StatusRead(to)
      PROVE  TravelInv'
  BY <1>4, StatusReading
<1>5. ASSUME NEW p \in People,
             DeclineTravel(p) \/ \E yes \in BOOLEAN : SavePersonalEntry(p, yes) \/ OtherPublish(p, yes)
      PROVE  TravelInv'
  BY <1>5, TravelDeclined, EntrySaved, OtherChanged
<1>6. CASE StatusAbandoned \/ UNCHANGED vars
  <2>1. /\ request' \in {request, NoRev}
        /\ UNCHANGED <<sheet, draft, published, status, travelDraft, travelPublished, declined, stale,
                       missed, optOut, replaced, other, raced, accepted>>
    BY <1>6 DEF StatusAbandoned, vars, day, travel, lists
  <2>2. TravelTypeOK'
    BY <2>1 DEF TravelInv, TravelTypeOK
  <2>3. Made' /\ Asked' /\ Agreed'
    BY <2>1 DEF TravelInv, Made, Asked, Agreed, TravelExists
  <2>4. Listed'
    BY <2>1 DEF TravelInv, Listed, OnTravel, Travels
  <2>5. Compared'
    BY <2>1, SpansKept DEF TravelInv, Compared
  <2> QED
    BY <2>2, <2>3, <2>4, <2>5 DEF TravelInv
<1> QED
  BY <1>1, <1>2, <1>3, <1>4, <1>5, <1>6 DEF Next

\* The rows, revisions and states of the two days, the other Workday and what a
\* status change has read keep their types.
THEOREM TravelTypeCorrect == Spec => []TravelTypeOK
<1>1. TravelInv => TravelTypeOK
  BY DEF TravelInv
<1> QED
  BY <1>1, TravelInvInit, TravelInvStep, PTL DEF Spec

\* A Person who travels with a scheduled race day is on the Travel Day that was
\* published with it, unless they declined it: for any number of People, and
\* whatever is saved, edited, declined, rescheduled or changed in between.
THEOREM TravellersAlwaysListed == Spec => []TravellersListed
<1>1. TravelInv => TravellersListed
  <2> SUFFICES ASSUME TravelInv, published # NoRev, status.race = Scheduled, ~missed, ~raced,
                      NEW p \in People, Travels(published, p)
               PROVE  status.travel = Scheduled /\ p \in travelPublished \cup declined
    BY DEF TravellersListed
  <2>1. published.plan
    BY DEF Travels
  <2> QED
    BY <2>1 DEF TravelInv, Listed, OnTravel, Agreed
<1> QED
  BY <1>1, TravelInvInit, TravelInvStep, PTL DEF Spec

\* Two scheduled days that overlap for a Person were confirmed: the search by
\* dates misses no clash, for any sheet that validation accepts.
THEOREM ClashesAlwaysConfirmed == Spec => []ClashesConfirmed
<1>1. TravelInv => ClashesConfirmed
  BY DEF TravelInv, Compared, ClashesConfirmed, RaceWork, TravelWork
<1> QED
  BY <1>1, TravelInvInit, TravelInvStep, PTL DEF Spec

\* The pages agree on who works when, for any number of People: the month, the hours,
\* the reminders and the digests count the same days, what a page links to opens
\* with the Person on it, and every traveller shown travels.
THEOREM PagesAlwaysAgree == Spec => []PagesAgree
BY PagesFollow, TravelInvInit, TravelInvStep, PTL DEF Spec

-----------------------------------------------------------------------------
(* What a publication changes.                                             *)

LEMMA VersionTypes ==
  ASSUME NEW version \in Versions
  PROVE  /\ version.sheet \in TimedSheets /\ version.sheet \in Sheet
         /\ version.plan \in BOOLEAN /\ version.row \in RowKinds /\ version.row \in PersonalRow
BY PagesAssumption DEF Versions

\* What the preview compares of the day.
LEMMA SameDayFields ==
  ASSUME NEW before \in Versions, NEW after \in Versions,
         PublicationDiff(before, after) = {}
  PROVE  /\ RevisionOf(before).onTrack = RevisionOf(after).onTrack
         /\ RevisionOf(before).start = RevisionOf(after).start
         /\ RevisionOf(before).finish = RevisionOf(after).finish
         /\ before.sheet.trials = after.sheet.trials /\ before.sheet.last = after.sheet.last
         /\ before.plan = after.plan /\ before.sheet.packUp = after.sheet.packUp
         /\ before.sheet.hotelToTrack = after.sheet.hotelToTrack
<1> DEFINE old == DayFields(before)
           new == DayFields(after)
<1>1. \A field \in DOMAIN old : old[field] = new[field]
  BY DEF PublicationDiff, Changed
<1>2. /\ old["onTrack"] = new["onTrack"] /\ old["start"] = new["start"]
      /\ old["finish"] = new["finish"] /\ old["last"] = new["last"]
      /\ old["standardTravel"] = new["standardTravel"] /\ old["packUp"] = new["packUp"]
      /\ old["hotelToTrack"] = new["hotelToTrack"]
  <2>1. {"onTrack", "start", "finish", "last", "standardTravel", "packUp", "hotelToTrack"}
          \subseteq DOMAIN old
    BY DEF DayFields
  <2> HIDE DEF old, new
  <2> QED
    BY <1>1, <2>1
<1>3. <<before.sheet.trials, before.sheet.last>> = <<after.sheet.trials, after.sheet.last>>
  BY <1>2 DEF DayFields
<1>4. before.sheet.trials = after.sheet.trials /\ before.sheet.last = after.sheet.last
  BY <1>3
<1> QED
  BY <1>2, <1>4 DEF DayFields

LEMMA SameRowFields ==
  ASSUME NEW before \in Versions, NEW after \in Versions,
         PublicationDiff(before, after) = {}
  PROVE  before.row = after.row
<1> DEFINE old == RowFields(before)
           new == RowFields(after)
<1>1. \A field \in DOMAIN old : old[field] = new[field]
  BY DEF PublicationDiff, Changed
<1>2. /\ old["start"] = new["start"] /\ old["finish"] = new["finish"] /\ old["mode"] = new["mode"]
      /\ old["vehicle"] = new["vehicle"] /\ old["standardTravel"] = new["standardTravel"]
      /\ old["hotelOverride"] = new["hotelOverride"]
      /\ old["returnOverride"] = new["returnOverride"]
  <2>1. {"start", "finish", "mode", "vehicle", "standardTravel", "hotelOverride", "returnOverride"}
          \subseteq DOMAIN old
    BY DEF RowFields
  <2> HIDE DEF old, new
  <2> QED
    BY <1>1, <2>1
<1>3. /\ before.row.start = after.row.start /\ before.row.finish = after.row.finish
      /\ before.row.mode = after.row.mode /\ before.row.truck = after.row.truck
      /\ before.row.standard = after.row.standard /\ before.row.hotel = after.row.hotel
      /\ before.row.return = after.row.return
  BY <1>2 DEF RowFields
<1> QED
  BY <1>3, VersionTypes DEF PersonalRow

\* What is not told apart decides nothing: whether the finish is typed only where
\* a return of one's own is, and how early trucks leave only in a truck.
LEMMA SameInterval ==
  ASSUME NEW old, NEW new, NEW row,
         old.plan = new.plan, old.trials = new.trials, old.last = new.last,
         old.onTrack = new.onTrack, old.start = new.start, old.finish = new.finish,
         old.hotelToTrack = new.hotelToTrack, old.packUp = new.packUp,
         old.truckOffset = new.truckOffset \/ ~InTruck(new, row),
         old.finishFixed = new.finishFixed \/ row.return = NoTime
  PROVE  EffectiveInterval(old, row) = EffectiveInterval(new, row)
<1>1. /\ UsesStandard(old, row) = UsesStandard(new, row) /\ InTruck(old, row) = InTruck(new, row)
      /\ HotelMinutes(old, row) = HotelMinutes(new, row)
      /\ OwnReturn(old, row) = OwnReturn(new, row)
  BY DEF UsesStandard, InTruck, HotelMinutes, OwnReturn
<1>2. \A clock : ClockOnWorkday(old, clock) = ClockOnWorkday(new, clock)
  BY DEF ClockOnWorkday, Overnight
<1>3. \A onTrack : OwnFinish(old, row, onTrack) = OwnFinish(new, row, onTrack)
  BY DEF OwnFinish
<1>4. EffectiveStart(old, row) = EffectiveStart(new, row)
  BY <1>1 DEF EffectiveStart
<1>5. EffectiveFinish(old, row) = EffectiveFinish(new, row)
  BY <1>1, <1>3 DEF EffectiveFinish
<1>6. StartMoment(old, row) = StartMoment(new, row)
  BY <1>1, <1>2, <1>4 DEF StartMoment
<1> QED
  BY <1>1, <1>2, <1>3, <1>5, <1>6 DEF EffectiveInterval

LEMMA NothingUntold == Untold = {}
<1> SUFFICES ASSUME NEW before \in Versions, NEW after \in Versions,
                    PublicationDiff(before, after) = {},
                    ~(/\ InTruck(RevisionOf(after), after.row)
                      /\ before.sheet.truckOffset # after.sheet.truckOffset),
                    ~OwnFinishTyped(before, after)
             PROVE  EffectiveInterval(RevisionOf(before), before.row)
                      = EffectiveInterval(RevisionOf(after), after.row)
  BY DEF Untold
<1> DEFINE old == RevisionOf(before)
           new == RevisionOf(after)
<1>1. /\ old.plan = before.plan /\ new.plan = after.plan
      /\ old.trials = before.sheet.trials /\ new.trials = after.sheet.trials
      /\ old.last = before.sheet.last /\ new.last = after.sheet.last
      /\ old.hotelToTrack = before.sheet.hotelToTrack /\ new.hotelToTrack = after.sheet.hotelToTrack
      /\ old.packUp = before.sheet.packUp /\ new.packUp = after.sheet.packUp
      /\ old.truckOffset = before.sheet.truckOffset /\ new.truckOffset = after.sheet.truckOffset
      /\ old.finishFixed = (before.sheet.finish # NoTime)
      /\ new.finishFixed = (after.sheet.finish # NoTime)
  BY DEF RevisionOf, Revision
<1>2. old.onTrack = new.onTrack /\ old.start = new.start /\ old.finish = new.finish
  BY SameDayFields
<1>3. before.row = after.row
  BY SameRowFields
<1> HIDE DEF old, new
<1>4. old.truckOffset = new.truckOffset \/ ~InTruck(new, after.row)
  BY <1>1 DEF new
<1>5. old.finishFixed = new.finishFixed \/ after.row.return = NoTime
  BY <1>1 DEF OwnFinishTyped
<1>6. /\ old.plan = new.plan /\ old.trials = new.trials /\ old.last = new.last
      /\ old.hotelToTrack = new.hotelToTrack /\ old.packUp = new.packUp
  BY <1>1, SameDayFields
<1>7. EffectiveInterval(old, after.row) = EffectiveInterval(new, after.row)
  BY <1>2, <1>4, <1>5, <1>6, SameInterval
<1> QED
  BY <1>3, <1>7 DEF old, new

\* A draft whose preview lists no change leaves everybody's times as they were, for
\* any sheets that validation accepts, but for the two gaps the property names.
THEOREM ChangesAlwaysTold == Spec => []ChangesTold
<1>1. ChangesTold
  BY NothingUntold DEF ChangesTold
<1> QED
  BY <1>1, PTL

-----------------------------------------------------------------------------
(* The moments that stored clocks stand for.                               *)

LEMMA SheetTypes ==
  ASSUME NEW typed \in Sheet
  PROVE  /\ typed.trials \in BOOLEAN /\ typed.first \in ClockTimes /\ typed.last \in ClockTimes
         /\ typed.onTrack \in ClockTimes \cup {NoTime} /\ typed.start \in ClockTimes \cup {NoTime}
         /\ typed.finish \in ClockTimes \cup {NoTime}
         /\ typed.lead \in Int /\ typed.lead >= 0
         /\ typed.trackTravel \in Int /\ typed.packUp \in Int /\ typed.returnTravel \in Int
         /\ typed.truckOffset \in Int /\ typed.hotelToTrack \in Int
         /\ typed.trials => typed.onTrack # NoTime /\ typed.start # NoTime
BY Minute DEF Sheet

LEMMA SameClock ==
  ASSUME NEW m \in Int, 0 <= m, m < 1440
  PROVE  Clock(m) = m
BY DEF Clock, Day

LEMMA NextClock ==
  ASSUME NEW m \in Int, 1440 <= m, m < 2880
  PROVE  Clock(m) = m - 1440
BY DEF Clock, Day

LEMMA QuarterOnly ==
  ASSUME NEW m \in Int
  PROVE  QuarterFrom(m) = CeilToQuarter(m)
<1> DEFINE q == CeilToQuarter(m)
<1>1. q \in Int /\ q >= m /\ q <= m + 14 /\ q % 15 = 0
  BY DEF CeilToQuarter, FloorToQuarter
<1>2. ASSUME NEW x \in m .. (m + 14), x % 15 = 0
      PROVE  x = q
  BY <1>1, <1>2
<1> HIDE DEF q
<1>3. q \in m .. (m + 14)
  BY <1>1
<1> QED
  BY <1>1, <1>2, <1>3 DEF QuarterFrom, q

LEMMA DayMoments ==
  ASSUME NEW typed \in Sheet, OrdinaryDay(typed)
  PROVE  /\ OnTrackAt(typed) \in Int /\ StartAt(typed) \in Int
         /\ 0 <= StartAt(typed) /\ StartAt(typed) <= OnTrackAt(typed) /\ OnTrackAt(typed) < 1440
         /\ ClearAt(typed) \in Int /\ FinishAt(typed) \in Int
         /\ StartAt(typed) < FinishAt(typed) /\ FinishAt(typed) < StartAt(typed) + 1440
<1> USE SheetTypes, Minute
<1>1. FloorToQuarter(typed.first) \in Int /\ FloorToQuarter(typed.first) <= typed.first
  BY Quarters
<1>2. OnTrackAt(typed) \in Int /\ OnTrackAt(typed) < 1440
  BY <1>1 DEF OnTrackAt, Coalesce
<1>3. StartAt(typed) \in Int
  BY <1>2 DEF StartAt, Coalesce
<1>4. ClearAt(typed) \in Int
  BY <1>2, ClearTypes DEF ClearAt
<1>5. FinishAt(typed) \in Int
  BY <1>4 DEF FinishAt, Coalesce
<1> QED
  BY <1>2, <1>3, <1>4, <1>5 DEF OrdinaryDay

\* Whether the finish of the day is known before a row is looked at.
DayFinishKnown(typed, plan) == ~typed.trials \/ plan \/ typed.finish # NoTime

\* What is stored are the clocks of these moments.
LEMMA StoredClocks ==
  ASSUME NEW typed \in Sheet, NEW plan \in BOOLEAN, OrdinaryDay(typed)
  PROVE  LET revision == Revision(typed, plan)
         IN  /\ revision.onTrack = OnTrackAt(typed) /\ revision.start = StartAt(typed)
             /\ revision.finish = IF DayFinishKnown(typed, plan) THEN Clock(FinishAt(typed))
                                  ELSE NoTime
<1> USE SheetTypes, DayMoments
<1> DEFINE revision == Revision(typed, plan)
           derived == DeriveRaceDayTiming(typed)
<1>1. Coalesce(typed.finish, Clock(ClearAt(typed) + typed.packUp + typed.returnTravel))
        = Clock(FinishAt(typed))
  BY SameClock, Minute DEF FinishAt, Coalesce
<1>2. CASE typed.trials
  <2>1. typed.onTrack = OnTrackAt(typed) /\ typed.start = StartAt(typed)
    BY <1>2 DEF OnTrackAt, StartAt, Coalesce
  <2>2. StandardTravel(typed, typed.onTrack).raceFinish = Clock(FinishAt(typed))
    BY <2>1 DEF StandardTravel, FinishAt, ClearAt
  <2>3. typed.finish # NoTime => typed.finish = Clock(FinishAt(typed))
    BY SameClock, Minute DEF FinishAt, Coalesce
  <2> QED
    BY <1>2, <2>1, <2>2, <2>3 DEF Revision, DayFinishKnown
<1>3. CASE ~typed.trials
  <2>1. derived.onTrack = OnTrackAt(typed)
    <3>1. derived.onTrack = Coalesce(typed.onTrack, Clock(FloorToQuarter(typed.first) - typed.lead))
      BY DEF DeriveRaceDayTiming
    <3> HIDE DEF derived
    <3> QED
      BY <3>1, SameClock DEF OnTrackAt, Coalesce
  <2>2. derived.start = StartAt(typed)
    <3>1. derived.start = Coalesce(typed.start, Clock(derived.onTrack - typed.trackTravel))
      BY DEF DeriveRaceDayTiming
    <3> HIDE DEF derived
    <3> QED
      BY <2>1, <3>1, SameClock DEF StartAt, Coalesce
  <2>3. derived.finish = Clock(FinishAt(typed))
    <3> DEFINE clear == EventClear(FALSE, typed.last, derived.onTrack)
    <3>1. derived.finish = Coalesce(typed.finish, Clock(clear + typed.packUp + typed.returnTravel))
      BY DEF DeriveRaceDayTiming
    <3> HIDE DEF derived
    <3>2. clear = ClearAt(typed)
      BY <1>3, <2>1 DEF ClearAt, EventClear
    <3> HIDE DEF clear
    <3> QED
      BY <1>1, <3>1, <3>2
  <2> HIDE DEF derived
  <2>4. /\ revision.onTrack = derived.onTrack /\ revision.start = derived.start
        /\ revision.finish = derived.finish
    BY <1>3 DEF Revision, derived
  <2> QED
    BY <1>3, <2>1, <2>2, <2>3, <2>4 DEF DayFinishKnown
<1> QED
  BY <1>2, <1>3

\* On an ordinary day a clock has the date that it was stored with.
LEMMA StoredMoments ==
  ASSUME NEW typed \in Sheet, NEW plan \in BOOLEAN, OrdinaryDay(typed)
  PROVE  LET revision == Revision(typed, plan)
         IN  /\ ClockOnWorkday(revision, OnTrackAt(typed)) = OnTrackAt(typed)
             /\ ClockOnWorkday(revision, StartAt(typed)) = StartAt(typed)
             /\ DayFinishKnown(typed, plan) =>
                  /\ ClockOnWorkday(revision, Clock(FinishAt(typed))) = FinishAt(typed)
                  /\ Overnight(revision) => FinishAt(typed) >= 1440
             /\ ~DayFinishKnown(typed, plan) => ~Overnight(revision)
<1> DEFINE revision == Revision(typed, plan)
           finish == FinishAt(typed)
           start == StartAt(typed)
<1>1. /\ revision.start = start
      /\ revision.finish = IF DayFinishKnown(typed, plan) THEN Clock(finish) ELSE NoTime
  BY StoredClocks
<1>2. /\ start \in Int /\ 0 <= start /\ start <= OnTrackAt(typed) /\ OnTrackAt(typed) \in Int
      /\ start < 1440 /\ finish \in Int /\ start < finish /\ finish < start + 1440
  BY DayMoments
<1> HIDE DEF revision, finish, start
<1>3. /\ ClockOnWorkday(revision, OnTrackAt(typed)) = OnTrackAt(typed)
      /\ ClockOnWorkday(revision, start) = start
  BY <1>1, <1>2 DEF ClockOnWorkday
<1>4. ASSUME DayFinishKnown(typed, plan)
      PROVE  /\ ClockOnWorkday(revision, Clock(finish)) = finish
             /\ Overnight(revision) => finish >= 1440
  <2>1. revision.finish = Clock(finish) /\ Clock(finish) # NoTime
    BY <1>1, <1>2, <1>4, Absent, Clocks, Minute
  <2>2. CASE finish < 1440
    <3>1. Clock(finish) = finish
      BY <1>2, <2>2, SameClock
    <3>2. ~Overnight(revision)
      BY <1>1, <1>2, <2>1, <3>1 DEF Overnight
    <3> QED
      BY <3>1, <3>2 DEF ClockOnWorkday
  <2>3. CASE finish >= 1440
    <3>1. Clock(finish) = finish - 1440
      BY <1>2, <2>3, NextClock
    <3>2. Overnight(revision) /\ Clock(finish) < revision.start
      BY <1>1, <1>2, <2>1, <3>1 DEF Overnight
    <3> QED
      BY <1>2, <2>3, <3>1, <3>2, Minute DEF ClockOnWorkday
  <2> QED
    BY <1>2, <2>2, <2>3
<1>5. ~DayFinishKnown(typed, plan) => ~Overnight(revision)
  BY <1>1 DEF Overnight
<1> QED
  BY <1>3, <1>4, <1>5 DEF revision, finish, start

\* The interval that the programme and the durations add up to, in these moments.
LEMMA TrueMoments ==
  ASSUME NEW version \in Versions, OrdinaryDay(version.sheet)
  PROVE  LET typed    == version.sheet
             row      == version.row
             standard == version.plan /\ row.standard
             back     == IF standard THEN Coalesce(row.return, typed.returnTravel)
                                     ELSE typed.returnTravel
             usual    == IF row.mode \in {"SELF_TRAVEL", "NOT_REQUIRED"} /\ ~typed.trials
                         THEN OnTrackAt(typed) ELSE StartAt(typed)
             early    == IF row.mode = "VEHICLE" /\ row.truck THEN typed.truckOffset ELSE 0
         IN  TrueInterval(version) =
               [from |-> IF standard THEN OnTrackAt(typed) - Coalesce(row.hotel, typed.hotelToTrack)
                         ELSE usual - early,
                to   |-> Coalesce(row.finish,
                                  Coalesce(typed.finish, ClearAt(typed) + typed.packUp + back))]
<1> DEFINE typed == version.sheet
           last == IF typed.last < OnTrackAt(typed) THEN typed.last + Day ELSE typed.last
<1>1. typed \in Sheet
  BY VersionTypes
<1>2. OnTrackAt(typed) \in Int /\ 0 <= OnTrackAt(typed) /\ OnTrackAt(typed) < 1440
  BY <1>1, DayMoments
<1>3. typed.last \in Int /\ 0 <= typed.last /\ typed.last < 1440 /\ typed.trials \in BOOLEAN
  BY <1>1, SheetTypes, Minute
<1>4. last = ClockAfter(typed.last, OnTrackAt(typed)) /\ last \in Int
  BY <1>2, <1>3 DEF ClockAfter, DateOf, Day
<1>5. QuarterFrom(IF typed.trials THEN last ELSE last + 10) = ClearAt(typed)
  <2> HIDE DEF last, typed
  <2>1. last + 10 \in Int
    BY <1>4
  <2>2. QuarterFrom(last) = CeilToQuarter(last) /\ QuarterFrom(last + 10) = CeilToQuarter(last + 10)
    BY <1>4, <2>1, QuarterOnly
  <2>3. ClearAt(typed) = IF typed.trials THEN CeilToQuarter(last) ELSE CeilToQuarter(last + 10)
    BY <1>4 DEF ClearAt, EventClear, RaceClearAt, LastRaceClearance
  <2> QED
    BY <2>2, <2>3
<1>6. OnTrackAt(typed) = Coalesce(typed.onTrack, (typed.first - (typed.first % 15)) - typed.lead)
  BY DEF OnTrackAt, FloorToQuarter
<1>7. StartAt(typed) = Coalesce(typed.start, OnTrackAt(typed) - typed.trackTravel)
  BY DEF StartAt
<1> QED
  BY <1>5, <1>6, <1>7 DEF TrueInterval, last

LEMMA RowTimes ==
  ASSUME NEW version \in Versions
  PROVE  /\ version.row.start \in ClockTimes \cup {NoTime}
         /\ version.row.finish \in ClockTimes \cup {NoTime}
         /\ version.row.return \in Durations \cup {NoTime}
         /\ Coalesce(version.row.hotel, version.sheet.hotelToTrack) \in Durations
BY VersionTypes DEF PersonalRow, Sheet, Coalesce

LEMMA StartAdds ==
  ASSUME NEW version \in Versions, OrdinaryDay(version.sheet), version.row.start = NoTime,
         ~InTruck(RevisionOf(version), version.row)
  PROVE  LET from == TrueInterval(version).from
         IN  /\ from \in Int
             /\ StartMoment(RevisionOf(version), version.row) = from
             /\ EffectiveStart(RevisionOf(version), version.row) = Clock(from)
<1> DEFINE typed == version.sheet
           row == version.row
           revision == RevisionOf(version)
           from == TrueInterval(version).from
           standard == version.plan /\ row.standard
           hotel == Coalesce(row.hotel, typed.hotelToTrack)
           usual == IF row.mode \in {"SELF_TRAVEL", "NOT_REQUIRED"} /\ ~typed.trials
                    THEN OnTrackAt(typed) ELSE StartAt(typed)
           early == IF row.mode = "VEHICLE" /\ row.truck THEN typed.truckOffset ELSE 0
<1>1. /\ typed \in Sheet /\ version.plan \in BOOLEAN /\ OrdinaryDay(typed) /\ row.start = NoTime
      /\ row.standard \in BOOLEAN /\ row.truck \in BOOLEAN
  BY VersionTypes DEF PersonalRow
<1>2. /\ revision.onTrack = OnTrackAt(typed) /\ revision.start = StartAt(typed)
      /\ revision.plan = version.plan /\ revision.trials = typed.trials
      /\ revision.hotelToTrack = typed.hotelToTrack /\ revision.truckOffset = typed.truckOffset
  BY <1>1, StoredClocks, RevisionClocks DEF RevisionOf
<1>3. /\ ClockOnWorkday(revision, OnTrackAt(typed)) = OnTrackAt(typed)
      /\ ClockOnWorkday(revision, StartAt(typed)) = StartAt(typed)
  BY <1>1, StoredMoments DEF RevisionOf
<1>4. from = IF standard THEN OnTrackAt(typed) - hotel ELSE usual - early
  BY <1>1, TrueMoments
<1>5. /\ OnTrackAt(typed) \in Int /\ 0 <= OnTrackAt(typed) /\ OnTrackAt(typed) < 1440
      /\ StartAt(typed) \in Int /\ 0 <= StartAt(typed) /\ StartAt(typed) < 1440
  BY <1>1, DayMoments
<1>6. hotel \in Int
  BY RowTimes, Minute
<1>7. /\ UsesStandard(revision, row) = standard
      /\ HotelMinutes(revision, row) = hotel
  BY <1>2 DEF UsesStandard, HotelMinutes
<1>8. ~standard => early = 0
  BY <1>1, <1>7 DEF InTruck
<1> HIDE DEF revision, hotel, from, early
<1>9. CASE standard
  <2>1. from = OnTrackAt(typed) - hotel
    BY <1>4, <1>9
  <2>2. StartMoment(revision, row) = from
    BY <1>1, <1>2, <1>3, <1>7, <1>9, <2>1 DEF StartMoment
  <2>3. EffectiveStart(revision, row) = Clock(from)
    BY <1>1, <1>2, <1>7, <1>9, <2>1 DEF EffectiveStart, InTruck
  <2> QED
    BY <1>5, <1>6, <2>1, <2>2, <2>3 DEF revision, from
<1>10. CASE ~standard
  <2>1. from = usual /\ usual \in Int /\ 0 <= usual /\ usual < 1440
    BY <1>4, <1>5, <1>8, <1>10
  <2>2. Clock(usual) = usual
    BY <2>1, SameClock
  <2>3. ~InTruck(revision, row)
    BY DEF revision
  <2>4. EffectiveStart(revision, row) = usual
    BY <1>1, <1>2, <1>7, <1>10, <2>3 DEF EffectiveStart
  <2>5. StartMoment(revision, row) = usual
    <3>1. ClockOnWorkday(revision, usual) = usual
      BY <1>3
    <3>2. StartMoment(revision, row) = ClockOnWorkday(revision, usual) - 0
      BY <1>7, <1>10, <2>3, <2>4 DEF StartMoment
    <3> HIDE DEF usual
    <3> QED
      BY <2>1, <3>1, <3>2
  <2> HIDE DEF usual
  <2> QED
    BY <2>1, <2>2, <2>4, <2>5 DEF revision, from
<1> QED
  BY <1>9, <1>10

LEMMA FinishAdds ==
  ASSUME NEW version \in Versions, Ordinary(version), FinishKnown(version),
         ~InTruck(RevisionOf(version), version.row)
  PROVE  LET span == EffectiveInterval(RevisionOf(version), version.row)
         IN  /\ EffectiveFinish(RevisionOf(version), version.row) # NoTime
             /\ TrueInterval(version).to \in Int /\ span.to = TrueInterval(version).to
<1> DEFINE typed == version.sheet
           row == version.row
           revision == RevisionOf(version)
           from == TrueInterval(version).from
           to == TrueInterval(version).to
           standard == version.plan /\ row.standard
           back == IF standard THEN Coalesce(row.return, typed.returnTravel) ELSE typed.returnTravel
           finish == IF OwnReturn(revision, row)
                     THEN OwnFinish(revision, row, ClockOnWorkday(revision, revision.onTrack))
                     ELSE ClockOnWorkday(revision, EffectiveFinish(revision, row))
           late == IF finish > StartMoment(revision, row) THEN 0
                   ELSE 1 + (StartMoment(revision, row) - finish) \div Day
<1>1. /\ typed \in Sheet /\ version.plan \in BOOLEAN /\ OrdinaryDay(typed)
      /\ row.finish # NoTime => FinishAt(typed) < 1440
      /\ from < to /\ row.standard \in BOOLEAN
  BY VersionTypes, Minute DEF Ordinary, PersonalRow
<1>2. /\ revision.onTrack = OnTrackAt(typed) /\ revision.start = StartAt(typed)
      /\ revision.finish = IF DayFinishKnown(typed, version.plan) THEN Clock(FinishAt(typed)) ELSE NoTime
      /\ revision.plan = version.plan /\ revision.trials = typed.trials /\ revision.last = typed.last
      /\ revision.packUp = typed.packUp
  BY <1>1, StoredClocks, RevisionClocks DEF RevisionOf
<1>3. /\ ClockOnWorkday(revision, OnTrackAt(typed)) = OnTrackAt(typed)
      /\ DayFinishKnown(typed, version.plan) =>
           /\ ClockOnWorkday(revision, Clock(FinishAt(typed))) = FinishAt(typed)
           /\ Overnight(revision) => FinishAt(typed) >= 1440
      /\ ~DayFinishKnown(typed, version.plan) => ~Overnight(revision)
  BY <1>1, StoredMoments DEF RevisionOf
<1>4. to = Coalesce(row.finish, Coalesce(typed.finish, ClearAt(typed) + typed.packUp + back))
  BY <1>1, TrueMoments
<1>5. from \in Int /\ StartMoment(revision, row) = from
  BY StartAdds DEF Ordinary
<1>6. revision.finishFixed = (typed.finish # NoTime)
  BY DEF RevisionOf, Revision
<1>7. /\ FinishAt(typed) \in Int /\ ClearAt(typed) \in Int /\ typed.packUp \in Int
      /\ typed.returnTravel \in Int
  BY <1>1, DayMoments, SheetTypes
<1>8. /\ row.finish \in ClockTimes \cup {NoTime} /\ row.return \in Durations \cup {NoTime}
  BY RowTimes
<1> HIDE DEF revision, from, to
<1>9. OwnReturn(revision, row) <=>
        row.finish = NoTime /\ row.return # NoTime /\ standard /\ typed.finish = NoTime
  BY <1>2, <1>6 DEF OwnReturn, UsesStandard
<1>10. EffectiveFinish(revision, row) # NoTime /\ finish = to /\ to \in Int
  <2>1. CASE OwnReturn(revision, row)
    <3>1. to = ClearAt(typed) + typed.packUp + row.return /\ row.return \in Int
      BY <1>4, <1>8, <1>9, <2>1, Minute DEF Coalesce
    <3>2. finish = ClearAt(typed) + typed.packUp + row.return
      BY <1>2, <1>3, <2>1 DEF OwnFinish, ClearAt
    <3>3. EffectiveFinish(revision, row) = Clock(to)
      BY <1>2, <2>1, <3>1 DEF EffectiveFinish, OwnFinish, ClearAt
    <3>4. to \in Int
      BY <1>7, <3>1
    <3> HIDE DEF finish
    <3> QED
      BY <3>1, <3>2, <3>3, <3>4, Clocks, Minute, Absent
  <2>2. CASE ~OwnReturn(revision, row) /\ row.finish # NoTime
    <3>1. to = row.finish /\ EffectiveFinish(revision, row) = row.finish /\ row.finish \in Int
      BY <1>4, <1>8, <2>2, Minute DEF EffectiveFinish, Coalesce
    <3>2. ~Overnight(revision)
      BY <1>1, <1>3, <1>7, <2>2
    <3>3. finish = row.finish
      BY <2>2, <3>1, <3>2 DEF ClockOnWorkday
    <3> HIDE DEF finish
    <3> QED
      BY <2>2, <3>1, <3>3
  <2>3. CASE ~OwnReturn(revision, row) /\ row.finish = NoTime
    <3>1. DayFinishKnown(typed, version.plan)
      BY <2>3 DEF FinishKnown, DayFinishKnown
    <3>2. EffectiveFinish(revision, row) = Clock(FinishAt(typed))
      BY <1>2, <2>3, <3>1 DEF EffectiveFinish, Coalesce
    <3>3. finish = FinishAt(typed)
      BY <1>3, <2>3, <3>1, <3>2
    <3>4. to = FinishAt(typed)
      BY <1>4, <1>9, <2>3 DEF FinishAt, Coalesce
    <3> HIDE DEF finish
    <3> QED
      BY <1>7, <3>2, <3>3, <3>4, Clocks, Minute, Absent
  <2> QED
    BY <2>1, <2>2, <2>3
<1>11. late = 0
  <2> HIDE DEF finish
  <2> QED
    BY <1>1, <1>5, <1>10
<1>12. EffectiveInterval(revision, row).to = finish + late * Day
  BY <1>10 DEF EffectiveInterval
<1>13. EffectiveInterval(revision, row).to = to
  <2> HIDE DEF finish, late
  <2> QED
    BY <1>10, <1>11, <1>12, Minute
<1> QED
  BY <1>10, <1>13 DEF revision, to

LEMMA OneSpan ==
  ASSUME NEW revision, NEW row,
         EffectiveInterval(revision, row).from \in Int, EffectiveInterval(revision, row).to \in Int
  PROVE  Minutes(revision, {row})
           = EffectiveInterval(revision, row).to - EffectiveInterval(revision, row).from
<1> DEFINE span == EffectiveInterval(revision, row)
<1>1. span.to # NoTime
  BY Absent
<1>2. Largest({span.to}) = span.to /\ Smallest({span.from}) = span.from
  <2> HIDE DEF span
  <2> QED
    BY DEF Largest, Smallest
<1> DEFINE known == {s \in {EffectiveInterval(revision, r) : r \in {row}} : s.to # NoTime}
<1>3. known = {span}
  <2>1. {EffectiveInterval(revision, r) : r \in {row}} = {span}
    OBVIOUS
  <2> HIDE DEF span
  <2> QED
    BY <1>1, <2>1
<1>4. {s.to : s \in known} = {span.to} /\ {s.from : s \in known} = {span.from}
  <2> HIDE DEF span, known
  <2> QED
    BY <1>3
<1>5. known # {}
  BY <1>3
<1>6. Minutes(revision, {row}) = IF known = {} THEN 0
                                 ELSE Largest({s.to : s \in known}) - Smallest({s.from : s \in known})
  BY DEF Minutes
<1> HIDE DEF span, known
<1> QED
  BY <1>2, <1>4, <1>5, <1>6 DEF span

LEMMA OrdinaryAdds ==
  ASSUME NEW version \in Versions, Ordinary(version), FinishKnown(version)
  PROVE  AsAdded(version)
<1> DEFINE typed == version.sheet
           row == version.row
           revision == RevisionOf(version)
           expected == TrueInterval(version)
           legs == StandardTravel(typed, revision.onTrack)
<1> SUFFICES ASSUME ~InTruck(revision, row)
             PROVE  /\ EffectiveInterval(revision, row) = expected
                    /\ EffectiveStart(revision, row) = Clock(expected.from)
                    /\ Minutes(revision, {row}) = expected.to - expected.from
                    /\ version.plan /\ row = PlainRow(TRUE) =>
                         <<legs.raceStart, legs.raceFinish>> = <<Clock(expected.from), Clock(expected.to)>>
  BY DEF AsAdded
<1>1. /\ typed \in Sheet /\ OrdinaryDay(typed) /\ version.plan \in BOOLEAN
  BY VersionTypes DEF Ordinary
<1>2. /\ expected.from \in Int /\ StartMoment(revision, row) = expected.from
      /\ EffectiveStart(revision, row) = Clock(expected.from)
  BY StartAdds DEF Ordinary
<1>3. EffectiveInterval(revision, row).to = expected.to /\ expected.to \in Int
  BY FinishAdds
<1>4. EffectiveInterval(revision, row).from = expected.from
  BY <1>2 DEF EffectiveInterval
<1>5. EffectiveInterval(revision, row) = expected
  <2>1. EffectiveInterval(revision, row) = [from |-> EffectiveInterval(revision, row).from,
                                            to |-> EffectiveInterval(revision, row).to]
    BY DEF EffectiveInterval
  <2>2. expected = [from |-> expected.from, to |-> expected.to]
    BY DEF TrueInterval
  <2> HIDE DEF revision, expected
  <2> QED
    BY <1>3, <1>4, <2>1, <2>2
<1>6. Minutes(revision, {row}) = expected.to - expected.from
  <2> HIDE DEF revision, expected
  <2> QED
    BY <1>2, <1>3, <1>5, OneSpan
<1>7. ASSUME version.plan, row = PlainRow(TRUE)
      PROVE  legs.raceStart = Clock(expected.from) /\ legs.raceFinish = Clock(expected.to)
  <2>1. /\ row.standard /\ row.hotel = NoTime /\ row.finish = NoTime /\ row.return = NoTime
    BY <1>7 DEF PlainRow
  <2>2. /\ expected.from = OnTrackAt(typed) - typed.hotelToTrack
        /\ expected.to = Coalesce(typed.finish, ClearAt(typed) + typed.packUp + typed.returnTravel)
    <3> DEFINE standard == version.plan /\ row.standard
               back == IF standard THEN Coalesce(row.return, typed.returnTravel)
                       ELSE typed.returnTravel
               usual == IF row.mode \in {"SELF_TRAVEL", "NOT_REQUIRED"} /\ ~typed.trials
                        THEN OnTrackAt(typed) ELSE StartAt(typed)
               early == IF row.mode = "VEHICLE" /\ row.truck THEN typed.truckOffset ELSE 0
    <3>1. expected.from = IF standard THEN OnTrackAt(typed) - Coalesce(row.hotel, typed.hotelToTrack)
                          ELSE usual - early
      BY <1>1, TrueMoments
    <3>2. expected.to = Coalesce(row.finish,
                                 Coalesce(typed.finish, ClearAt(typed) + typed.packUp + back))
      BY <1>1, TrueMoments
    <3>3. standard /\ back = Coalesce(row.return, typed.returnTravel)
      BY <1>7, <2>1
    <3> HIDE DEF expected, usual, early, back, standard
    <3> QED
      BY <2>1, <3>1, <3>2, <3>3 DEF Coalesce
  <2>3. revision.onTrack = OnTrackAt(typed)
    BY <1>1, StoredClocks DEF RevisionOf
  <2> HIDE DEF revision, expected
  <2> QED
    BY <2>2, <2>3 DEF StandardTravel, ClearAt
<1> QED
  BY <1>2, <1>5, <1>6, <1>7

\* Storing clocks loses no date: on ordinary days what is conflicting, counted and
\* reminded of is the interval that the programme and the durations add up to, past
\* midnight or not, whatever else is typed.
THEOREM TimesAlwaysAgree ==
  ASSUME \A version \in Versions : FinishKnown(version) => Ordinary(version)
  PROVE  Spec => []TimesAgree
<1>1. Misadded = {}
  BY OrdinaryAdds DEF Misadded
<1>2. TimesAgree
  BY <1>1 DEF TimesAgree
<1> QED
  BY <1>2, PTL

LEMMA ClockSteps ==
  ASSUME NEW m \in Int, NEW k \in Int
  PROVE  /\ Clock(Clock(m) + k) = Clock(m + k)
         /\ Clock(m + k * Day) = Clock(m)
BY DEF Clock, Day

LEMMA ClockSpan ==
  ASSUME NEW from \in Int, NEW to \in Int, from < to, to - from < Day
  PROVE  WorkedMinutes(Clock(from), Clock(to)) = to - from
<1> DEFINE a == from \div 1440
           b == to \div 1440
<1>1. a \in Int /\ b \in Int
  OBVIOUS
<1>2. /\ from = a * 1440 + Clock(from) /\ 0 <= Clock(from) /\ Clock(from) < 1440 /\ Clock(from) \in Int
      /\ to = b * 1440 + Clock(to) /\ 0 <= Clock(to) /\ Clock(to) < 1440 /\ Clock(to) \in Int
  BY DEF Clock, Day
<1> HIDE DEF a, b
<1>3. to - from < 1440
  BY DEF Day
<1>4. b = a \/ b = a + 1
  BY <1>1, <1>2, <1>3
<1> QED
  BY <1>1, <1>2, <1>3, <1>4 DEF WorkedMinutes, Day

\* A span whose finish is known ends after it starts, at the clock of its finish.
LEMMA SpanEnds ==
  ASSUME NEW version \in Versions, FinishKnown(version)
  PROVE  LET revision == RevisionOf(version)
             span     == EffectiveInterval(revision, version.row)
             finish   == IF OwnReturn(revision, version.row)
                         THEN OwnFinish(revision, version.row,
                                        ClockOnWorkday(revision, revision.onTrack))
                         ELSE ClockOnWorkday(revision, EffectiveFinish(revision, version.row))
         IN  /\ span.from = StartMoment(revision, version.row)
             /\ span.from \in Int /\ span.to \in Int /\ span.from < span.to
             /\ Clock(span.to) = Clock(finish)
<1> DEFINE typed == version.sheet
           row == version.row
           revision == RevisionOf(version)
           start == StartMoment(revision, row)
           finish == IF OwnReturn(revision, row)
                     THEN OwnFinish(revision, row, ClockOnWorkday(revision, revision.onTrack))
                     ELSE ClockOnWorkday(revision, EffectiveFinish(revision, row))
           late == IF finish > start THEN 0 ELSE 1 + (start - finish) \div Day
           span == EffectiveInterval(revision, row)
<1>1. /\ typed \in Sheet /\ version.plan \in BOOLEAN /\ row \in PersonalRow
  BY VersionTypes
<1>2. start \in Int
  BY <1>1, StartPlaced DEF RevisionOf
<1>3. /\ revision.trials \in BOOLEAN /\ revision.last \in ClockTimes
      /\ revision.onTrack \in ClockTimes /\ revision.packUp \in Int
      /\ revision.finish \in ClockTimes \cup {NoTime}
  BY <1>1, RevisionClocks, SheetTypes DEF RevisionOf
<1>4. row.finish \in ClockTimes \cup {NoTime} /\ row.return \in Durations \cup {NoTime}
  BY RowTimes
<1>5. revision.finish # NoTime \/ row.finish # NoTime
  <2>1. revision.finish = NoTime => typed.trials /\ ~version.plan /\ typed.finish = NoTime
    <3>1. CASE typed.trials /\ version.plan
      <4>1. revision.finish = StandardTravel(typed, typed.onTrack).raceFinish
        BY <3>1 DEF RevisionOf, Revision
      <4>2. StandardTravel(typed, typed.onTrack).raceFinish
              = Clock(Coalesce(typed.finish, EventClear(typed.trials, typed.last, typed.onTrack)
                                             + typed.packUp + typed.returnTravel))
        BY DEF StandardTravel
      <4>3. EventClear(typed.trials, typed.last, typed.onTrack) \in Int
        <5>1. typed.onTrack \in Int /\ typed.trials \in BOOLEAN /\ typed.last \in ClockTimes
          BY <1>1, <3>1, SheetTypes, Minute
        <5> QED
          BY <5>1, ClearTypes
      <4>4. Coalesce(typed.finish, EventClear(typed.trials, typed.last, typed.onTrack)
                                   + typed.packUp + typed.returnTravel) \in Int
        BY <1>1, <4>3, SheetTypes, Minute DEF Coalesce
      <4> QED
        BY <4>1, <4>2, <4>4, Clocks, Minute, Absent
    <3>2. CASE typed.trials /\ ~version.plan
      BY <3>2 DEF RevisionOf, Revision
    <3>3. CASE ~typed.trials
      <4> DEFINE derived == DeriveRaceDayTiming(typed)
                 clear == EventClear(FALSE, typed.last, derived.onTrack)
                 end == clear + typed.packUp + typed.returnTravel
      <4>1. revision.finish = derived.finish /\ revision.onTrack = derived.onTrack
        BY <3>3 DEF RevisionOf, Revision
      <4>2. derived.finish = Coalesce(typed.finish, Clock(end))
        BY DEF DeriveRaceDayTiming
      <4> HIDE DEF derived
      <4>3. clear \in Int
        <5>1. derived.onTrack \in Int /\ typed.last \in ClockTimes
          BY <1>1, <1>3, <4>1, SheetTypes, Minute
        <5> QED
          BY <5>1, ClearTypes
      <4> HIDE DEF clear
      <4>4. end \in Int
        BY <1>1, <4>3, SheetTypes
      <4> HIDE DEF end
      <4> QED
        BY <1>1, <4>1, <4>2, <4>4, Clocks, Minute, Absent DEF Coalesce
    <3> QED
      BY <3>1, <3>2, <3>3
  <2> QED
    BY <2>1 DEF FinishKnown
<1>6. span = [from |-> start,
              to |-> IF EffectiveFinish(revision, row) = NoTime THEN NoTime ELSE finish + late * Day]
  BY DEF EffectiveInterval
<1> HIDE DEF revision, start, span
<1>7. EffectiveFinish(revision, row) # NoTime /\ finish \in Int
  <2>1. CASE OwnReturn(revision, row)
    <3> DEFINE clear == EventClear(revision.trials, revision.last, revision.onTrack)
               moved == EventClear(revision.trials, revision.last,
                                   ClockOnWorkday(revision, revision.onTrack))
    <3>1. revision.onTrack \in Int /\ ClockOnWorkday(revision, revision.onTrack) \in Int
      BY <1>3, OnWorkday, Minute
    <3>2. clear \in Int /\ moved \in Int
      BY <1>3, <3>1, ClearTypes
    <3>3. row.return \in Int
      BY <1>4, <2>1, Minute DEF OwnReturn
    <3>4. /\ finish = moved + revision.packUp + row.return
          /\ EffectiveFinish(revision, row) = Clock(clear + revision.packUp + row.return)
      BY <2>1 DEF OwnFinish, EffectiveFinish
    <3>5. clear + revision.packUp + row.return \in Int /\ moved + revision.packUp + row.return \in Int
      <4> HIDE DEF clear, moved
      <4> QED
        BY <1>3, <3>2, <3>3
    <3> HIDE DEF clear, moved, finish
    <3> QED
      BY <3>4, <3>5, Clocks, Minute, Absent
  <2>2. CASE ~OwnReturn(revision, row)
    <3>1. EffectiveFinish(revision, row) \in ClockTimes
      BY <1>3, <1>4, <1>5, <2>2 DEF EffectiveFinish, Coalesce
    <3>2. finish = ClockOnWorkday(revision, EffectiveFinish(revision, row))
      BY <2>2
    <3> HIDE DEF finish
    <3> QED
      BY <3>1, <3>2, OnWorkday, Minute, Absent
  <2> QED
    BY <2>1, <2>2
<1>8. late \in Int /\ finish + late * 1440 > start
  <2> HIDE DEF finish
  <2>1. CASE finish > start
    <3>1. late = 0
      BY <2>1
    <3> HIDE DEF late
    <3> QED
      BY <1>2, <1>7, <2>1, <3>1
  <2>2. CASE ~(finish > start)
    <3> DEFINE days == (start - finish) \div Day
    <3>1. late = 1 + days
      BY <2>2
    <3>2. days \in Int /\ start - finish < days * 1440 + 1440
      BY <1>2, <1>7 DEF Day
    <3> HIDE DEF days, late
    <3> QED
      BY <1>2, <1>7, <3>1, <3>2
  <2> QED
    BY <2>1, <2>2
<1>9. span.from = start /\ span.to = finish + late * Day
  BY <1>6, <1>7
<1> HIDE DEF finish, late
<1>10. span.to \in Int /\ span.from < span.to
  BY <1>2, <1>7, <1>8, <1>9 DEF Day
<1>11. Clock(span.to) = Clock(finish)
  BY <1>7, <1>8, <1>9, ClockSteps
<1> QED
  BY <1>2, <1>9, <1>10, <1>11 DEF revision, start, span, finish

\* What the pages of an ordinary day calculate with.
LEMMA ShownMoments ==
  ASSUME NEW version \in Versions, OrdinaryDay(version.sheet), version.row.start = NoTime
  PROVE  LET typed    == version.sheet
             revision == RevisionOf(version)
             row      == version.row
             usual    == IF row.mode \in {"SELF_TRAVEL", "NOT_REQUIRED"} /\ ~typed.trials
                         THEN OnTrackAt(typed) ELSE StartAt(typed)
         IN  /\ revision.onTrack = OnTrackAt(typed) /\ revision.start = StartAt(typed)
             /\ revision.trials = typed.trials /\ revision.last = typed.last
             /\ revision.packUp = typed.packUp /\ revision.finishFixed = (typed.finish # NoTime)
             /\ HotelMinutes(revision, row) \in Int
             /\ UsesStandard(revision, row) =>
                  StartMoment(revision, row) = OnTrackAt(typed) - HotelMinutes(revision, row)
             /\ ~UsesStandard(revision, row) /\ ~InTruck(revision, row) =>
                  /\ StartMoment(revision, row) = usual
                  /\ EffectiveStart(revision, row) = usual
             /\ InTruck(revision, row) =>
                  LET leaves == Clock(StartAt(typed) - typed.truckOffset)
                  IN  /\ EffectiveStart(revision, row) = leaves
                      /\ StartMoment(revision, row) =
                           ClockOnWorkday(revision, leaves) - typed.truckOffset
<1> DEFINE typed == version.sheet
           row == version.row
           revision == RevisionOf(version)
           usual == IF row.mode \in {"SELF_TRAVEL", "NOT_REQUIRED"} /\ ~typed.trials
                    THEN OnTrackAt(typed) ELSE StartAt(typed)
<1>1. typed \in Sheet /\ version.plan \in BOOLEAN /\ row \in PersonalRow
  BY VersionTypes
<1>2. /\ revision.onTrack = OnTrackAt(typed) /\ revision.start = StartAt(typed)
      /\ revision.trials = typed.trials /\ revision.last = typed.last
      /\ revision.packUp = typed.packUp /\ revision.truckOffset = typed.truckOffset
      /\ revision.hotelToTrack = typed.hotelToTrack
  BY <1>1, StoredClocks, RevisionClocks DEF RevisionOf
<1>3. revision.finishFixed = (typed.finish # NoTime)
  BY DEF RevisionOf, Revision
<1>4. /\ ClockOnWorkday(revision, OnTrackAt(typed)) = OnTrackAt(typed)
      /\ ClockOnWorkday(revision, StartAt(typed)) = StartAt(typed)
  BY <1>1, StoredMoments DEF RevisionOf
<1>5. OnTrackAt(typed) \in Int /\ StartAt(typed) \in Int
  BY <1>1, DayMoments
<1> HIDE DEF revision
<1>6. HotelMinutes(revision, row) \in Int
  BY <1>2, RowTimes, Minute DEF HotelMinutes
<1>7. UsesStandard(revision, row) =>
        StartMoment(revision, row) = OnTrackAt(typed) - HotelMinutes(revision, row)
  BY <1>2, <1>4 DEF StartMoment
<1>8. ASSUME ~UsesStandard(revision, row), ~InTruck(revision, row)
      PROVE  StartMoment(revision, row) = usual /\ EffectiveStart(revision, row) = usual
  <2>1. EffectiveStart(revision, row) = usual
    BY <1>2, <1>8 DEF EffectiveStart
  <2>2. ClockOnWorkday(revision, usual) = usual /\ usual \in Int
    BY <1>4, <1>5
  <2>3. StartMoment(revision, row) = ClockOnWorkday(revision, usual) - 0
    BY <1>8, <2>1 DEF StartMoment
  <2> HIDE DEF usual
  <2> QED
    BY <2>1, <2>2, <2>3
<1>9. ASSUME InTruck(revision, row)
      PROVE  LET leaves == Clock(StartAt(typed) - typed.truckOffset)
             IN  /\ EffectiveStart(revision, row) = leaves
                 /\ StartMoment(revision, row) = ClockOnWorkday(revision, leaves) - typed.truckOffset
  <2>1. ~UsesStandard(revision, row) /\ row.mode = "VEHICLE"
    BY <1>9 DEF InTruck
  <2>2. EffectiveStart(revision, row) = Clock(StartAt(typed) - typed.truckOffset)
    BY <1>2, <1>9, <2>1 DEF EffectiveStart
  <2>3. StartMoment(revision, row) =
          ClockOnWorkday(revision, EffectiveStart(revision, row)) - typed.truckOffset
    BY <1>2, <1>9, <2>1 DEF StartMoment
  <2> QED
    BY <2>2, <2>3
<1> QED
  BY <1>2, <1>3, <1>6, <1>7, <1>8, <1>9 DEF revision

LEMMA RemindedInTime ==
  ASSUME NEW version \in Versions, LeavesOnDate(version), FinishKnown(version),
         ~LeavesEarly(RevisionOf(version), version.row)
  PROVE  OneHour(version)
<1> DEFINE typed == version.sheet
           row == version.row
           revision == RevisionOf(version)
           from == EffectiveInterval(revision, row).from
           start == StartAt(typed)
           offset == typed.truckOffset
<1>1. /\ typed \in Sheet /\ OrdinaryDay(typed) /\ row.start = NoTime
      /\ InTruck(revision, row) => 2 * offset <= start
  BY VersionTypes DEF LeavesOnDate
<1>2. /\ start \in Int /\ 0 <= start /\ start <= OnTrackAt(typed) /\ OnTrackAt(typed) < 1440
      /\ OnTrackAt(typed) \in Int
  BY <1>1, DayMoments
<1>3. from \in Int /\ from = StartMoment(revision, row)
  BY SpanEnds
<1>4. revision.onTrack = OnTrackAt(typed) /\ revision.start = start
  BY <1>1, ShownMoments
<1>5. ClockOnWorkday(revision, Clock(from)) = from
  <2>1. CASE UsesStandard(revision, row)
    <3>1. from = OnTrackAt(typed) - HotelMinutes(revision, row) /\ HotelMinutes(revision, row) \in Int
      BY <1>1, <1>3, <2>1, ShownMoments
    <3>2. HotelMinutes(revision, row) >= 0
      <4>1. revision.hotelToTrack = typed.hotelToTrack
        BY DEF RevisionOf, Revision
      <4> QED
        BY <4>1, RowTimes, Minute DEF HotelMinutes
    <3>3. revision.onTrack >= HotelMinutes(revision, row) /\ ~(Overnight(revision) /\ from < start)
      BY <1>2, <1>4, <2>1, <3>1 DEF LeavesEarly
    <3> HIDE DEF revision, from
    <3>4. Clock(from) = from
      BY <1>2, <1>4, <3>1, <3>2, <3>3, SameClock
    <3> QED
      BY <1>4, <3>3, <3>4 DEF ClockOnWorkday
  <2>2. CASE ~UsesStandard(revision, row) /\ ~InTruck(revision, row)
    <3>1. from \in {OnTrackAt(typed), start}
      BY <1>1, <1>3, <2>2, ShownMoments
    <3> HIDE DEF revision, from
    <3>2. Clock(from) = from /\ from >= start
      BY <1>2, <3>1, SameClock
    <3> QED
      BY <1>2, <1>3, <1>4, <3>2 DEF ClockOnWorkday
  <2>3. CASE InTruck(revision, row)
    <3>1. from = ClockOnWorkday(revision, Clock(start - offset)) - offset
      BY <1>1, <1>3, <2>3, ShownMoments
    <3>2. offset \in Int /\ 0 <= offset /\ 2 * offset <= start
      <4>1. typed.truckOffset \in Durations
        BY <1>1 DEF Sheet
      <4> QED
        BY <1>1, <2>3, <4>1, Minute
    <3> HIDE DEF revision, from, offset, start
    <3>3. Clock(start - offset) = start - offset
      BY <1>2, <3>2, SameClock
    <3>4. CASE Overnight(revision) /\ offset > 0
      <4>1. from = start - offset + 1440 - offset
        BY <1>2, <1>4, <3>1, <3>2, <3>3, <3>4 DEF ClockOnWorkday, Day
      <4>2. from >= 1440 /\ from < 2880
        BY <1>2, <3>2, <4>1
      <4>3. Clock(from) = from - 1440
        BY <1>3, <4>2, NextClock
      <4>4. from - 1440 < start
        BY <1>2, <3>2, <3>4, <4>1
      <4> QED
        BY <1>3, <1>4, <3>4, <4>3, <4>4 DEF ClockOnWorkday, Day
    <3>5. CASE ~(Overnight(revision) /\ offset > 0)
      <4>1. ~(Overnight(revision) /\ start - offset < start)
        BY <1>2, <3>2, <3>5
      <4>2. from = start - offset - offset
        BY <1>4, <3>1, <3>3, <4>1 DEF ClockOnWorkday
      <4>3. Clock(from) = from
        BY <1>2, <1>3, <3>2, <4>2, SameClock
      <4>4. ~(Overnight(revision) /\ from < start)
        BY <1>2, <3>2, <3>5, <4>2
      <4> QED
        BY <1>4, <4>3, <4>4 DEF ClockOnWorkday
    <3> QED
      BY <3>4, <3>5
  <2> QED
    BY <2>1, <2>2, <2>3
<1> QED
  BY <1>5 DEF OneHour, ReminderAt, DeclineUntil, ParticipationStart

LEMMA OwnTimesReplace ==
  ASSUME NEW version \in Versions, FinishKnown(version)
  PROVE  OwnTimesCount(version)
<1> DEFINE row == version.row
           revision == RevisionOf(version)
           span == EffectiveInterval(revision, row)
<1>1. span.from \in Int /\ span.to \in Int /\ span.from < span.to
  BY SpanEnds
<1>2. Minutes(revision, {row}) = span.to - span.from
  BY <1>1, OneSpan
<1>3. ParticipationStart(revision, row) = Clock(span.from) /\ ParticipationEnd(revision, row) = Clock(span.to)
  BY DEF ParticipationStart, ParticipationEnd
<1> HIDE DEF span, revision
<1>4. ASSUME span.to - span.from < Day,
             NEW start \in {NoTime, Clock(span.from)}, NEW finish \in {NoTime, Clock(span.to)}
      PROVE  PersonalMinutes(revision, row, [start |-> start, finish |-> finish]) = span.to - span.from
  <2>1. Coalesce(start, Clock(span.from)) = Clock(span.from) /\ Coalesce(finish, Clock(span.to)) = Clock(span.to)
    BY DEF Coalesce
  <2>2. WorkedMinutes(Clock(span.from), Clock(span.to)) = span.to - span.from
    BY <1>1, <1>4, ClockSpan
  <2> QED
    BY <1>2, <1>3, <2>1, <2>2 DEF PersonalMinutes
<1> QED
  BY <1>3, <1>4 DEF OwnTimesCount, span, revision

LEMMA OutboundAdds ==
  ASSUME NEW version \in Versions, LeavesOnDate(version), FinishKnown(version),
         LET legs == Timeline(version.sheet, RevisionOf(version), version.row)
         IN  legs.outbound # NoTime,
         UsesStandard(RevisionOf(version), version.row) \/ version.sheet.start = NoTime
  PROVE  LET legs == Timeline(version.sheet, RevisionOf(version), version.row)
         IN  Clock(legs.start + legs.outbound) = legs.onTrack
<1> DEFINE typed == version.sheet
           row == version.row
           revision == RevisionOf(version)
           legs == Timeline(typed, revision, row)
           from == EffectiveInterval(revision, row).from
<1>1. typed \in Sheet /\ OrdinaryDay(typed) /\ row.start = NoTime
  BY VersionTypes DEF LeavesOnDate
<1>2. /\ StartAt(typed) \in Int /\ 0 <= StartAt(typed) /\ StartAt(typed) <= OnTrackAt(typed)
      /\ OnTrackAt(typed) < 1440 /\ OnTrackAt(typed) \in Int /\ typed.trackTravel \in Int
  BY <1>1, DayMoments, SheetTypes
<1>3. from \in Int /\ from = StartMoment(revision, row)
  BY SpanEnds
<1>4. revision.onTrack = OnTrackAt(typed) /\ revision.start = StartAt(typed)
  BY <1>1, ShownMoments
<1>5. legs.start = Clock(from) /\ legs.onTrack = OnTrackAt(typed)
  BY <1>4 DEF Timeline, ParticipationStart
<1>6. legs.outbound = IF UsesStandard(revision, row) THEN HotelMinutes(revision, row)
                      ELSE IF /\ row.start = NoTime /\ ~revision.trials
                              /\ EffectiveStart(revision, row) = revision.start
                      THEN typed.trackTravel ELSE NoTime
  BY DEF Timeline
<1>7. Clock(OnTrackAt(typed)) = OnTrackAt(typed) /\ Clock(StartAt(typed)) = StartAt(typed)
  BY <1>2, SameClock
<1>8. CASE UsesStandard(revision, row)
  <2> DEFINE hotel == HotelMinutes(revision, row)
  <2>1. from = OnTrackAt(typed) - hotel /\ hotel \in Int /\ legs.outbound = hotel
    BY <1>1, <1>3, <1>6, <1>8, ShownMoments
  <2> HIDE DEF hotel, from, legs
  <2>2. from + hotel = OnTrackAt(typed)
    BY <1>2, <2>1
  <2>3. Clock(Clock(from) + hotel) = Clock(from + hotel)
    BY <1>3, <2>1, ClockSteps
  <2> QED
    BY <1>5, <1>7, <2>1, <2>2, <2>3 DEF legs
<1>9. CASE ~UsesStandard(revision, row)
  <2>1. legs.outbound = typed.trackTravel /\ EffectiveStart(revision, row) = StartAt(typed)
    BY <1>4, <1>6, <1>9
  <2>2. StartAt(typed) + typed.trackTravel = OnTrackAt(typed)
    <3>1. StartAt(typed) = OnTrackAt(typed) - typed.trackTravel
      BY <1>9 DEF StartAt, Coalesce
    <3> QED
      BY <1>2, <3>1
  <2>3. Clock(from) = StartAt(typed)
    <3>1. CASE InTruck(revision, row)
      <4> DEFINE leaves == Clock(StartAt(typed) - typed.truckOffset)
      <4>1. /\ EffectiveStart(revision, row) = leaves
            /\ from = ClockOnWorkday(revision, leaves) - typed.truckOffset
        BY <1>1, <1>3, <3>1, ShownMoments
      <4>2. leaves = StartAt(typed)
        BY <2>1, <4>1
      <4>3. ClockOnWorkday(revision, StartAt(typed)) = StartAt(typed)
        BY <1>2, <1>4 DEF ClockOnWorkday
      <4>4. from = StartAt(typed) - typed.truckOffset
        <5> HIDE DEF leaves, revision, from
        <5> QED
          BY <4>1, <4>2, <4>3
      <4> HIDE DEF revision, from
      <4> QED
        BY <4>2, <4>4
    <3>2. CASE ~InTruck(revision, row)
      <4>1. from = EffectiveStart(revision, row)
        BY <1>1, <1>3, <1>9, <3>2, ShownMoments
      <4> HIDE DEF revision, from
      <4> QED
        BY <1>7, <2>1, <4>1
    <3> QED
      BY <3>1, <3>2
  <2> HIDE DEF legs, revision, from
  <2> QED
    BY <1>5, <1>7, <2>1, <2>2, <2>3 DEF legs, revision
<1> QED
  BY <1>8, <1>9

LEMMA SetupAdds ==
  ASSUME NEW version \in Versions, OrdinaryDay(version.sheet), version.row.start = NoTime
  PROVE  LET legs == Timeline(version.sheet, RevisionOf(version), version.row)
         IN  Clock(legs.onTrack + legs.setup) = version.sheet.first
<1> DEFINE typed == version.sheet
           onTrack == OnTrackAt(typed)
           first == ClockAfter(typed.first, onTrack)
           legs == Timeline(typed, RevisionOf(version), version.row)
<1>1. onTrack \in Int /\ 0 <= onTrack /\ onTrack < 1440
  BY VersionTypes, DayMoments
<1>2. typed.first \in Int /\ 0 <= typed.first /\ typed.first < 1440
  BY VersionTypes, SheetTypes, Minute
<1>3. RevisionOf(version).onTrack = onTrack
  BY ShownMoments
<1>4. legs.onTrack = onTrack /\ legs.setup = first - onTrack
  BY <1>3 DEF Timeline
<1> HIDE DEF legs, onTrack
<1>5. first \in {typed.first, typed.first + 1440}
  BY <1>1, <1>2 DEF ClockAfter, DateOf, Day
<1>6. Clock(first) = typed.first /\ first \in Int
  <2>1. CASE first = typed.first
    BY <1>2, <2>1, SameClock
  <2>2. CASE first = typed.first + 1440
    <3> HIDE DEF first
    <3>1. first \in Int /\ 1440 <= first /\ first < 2880 /\ first - 1440 = typed.first
      BY <1>2, <2>2
    <3> QED
      BY <3>1, NextClock
  <2> QED
    BY <1>5, <2>1, <2>2
<1> HIDE DEF first
<1>7. onTrack + (first - onTrack) = first
  BY <1>1, <1>6
<1> QED
  BY <1>4, <1>6, <1>7 DEF legs

LEMMA WayHomeAdds ==
  ASSUME NEW version \in Versions, OrdinaryDay(version.sheet), version.row.start = NoTime,
         FinishKnown(version),
         {version.sheet.finish, version.row.finish} = {NoTime},
         version.row.return # NoTime => UsesStandard(RevisionOf(version), version.row)
  PROVE  LET legs == Timeline(version.sheet, RevisionOf(version), version.row)
         IN  Clock(legs.packedUp + legs.back) = legs.finish
<1> DEFINE typed == version.sheet
           row == version.row
           revision == RevisionOf(version)
           legs == Timeline(typed, revision, row)
           to == EffectiveInterval(revision, row).to
           back == Coalesce(row.return, typed.returnTravel)
           packed == ClearAt(typed) + typed.packUp
           finish == IF OwnReturn(revision, row)
                     THEN OwnFinish(revision, row, ClockOnWorkday(revision, revision.onTrack))
                     ELSE ClockOnWorkday(revision, EffectiveFinish(revision, row))
<1>1. typed \in Sheet /\ version.plan \in BOOLEAN /\ typed.finish = NoTime /\ row.finish = NoTime
  BY VersionTypes
<1>2. /\ revision.onTrack = OnTrackAt(typed) /\ revision.trials = typed.trials
      /\ revision.last = typed.last /\ revision.packUp = typed.packUp
      /\ revision.finishFixed = (typed.finish # NoTime)
  BY ShownMoments
<1>3. /\ ClearAt(typed) \in Int /\ typed.packUp \in Int /\ FinishAt(typed) \in Int
      /\ typed.returnTravel \in Int
  BY <1>1, DayMoments, SheetTypes
<1>4. back \in Int
  BY <1>3, RowTimes, Minute DEF Coalesce
<1>5. /\ legs.packedUp = Clock(packed) /\ legs.back = back /\ legs.finish = Clock(to)
  BY <1>2 DEF Timeline, ClearAt, ParticipationEnd
<1>6. DayFinishKnown(typed, version.plan)
  BY <1>1 DEF FinishKnown, DayFinishKnown
<1>7. /\ ClockOnWorkday(revision, OnTrackAt(typed)) = OnTrackAt(typed)
      /\ ClockOnWorkday(revision, Clock(FinishAt(typed))) = FinishAt(typed)
      /\ revision.finish = Clock(FinishAt(typed))
  BY <1>1, <1>6, StoredMoments, StoredClocks DEF RevisionOf
<1>8. Clock(to) = Clock(finish)
  BY SpanEnds
<1> HIDE DEF revision, legs, to
<1>9. finish = packed + back
  <2>1. CASE row.return # NoTime
    <3>1. OwnReturn(revision, row)
      BY <1>1, <1>2, <2>1 DEF OwnReturn, revision
    <3>2. back = row.return
      BY <2>1 DEF Coalesce
    <3> QED
      BY <1>2, <1>7, <3>1, <3>2 DEF OwnFinish, ClearAt
  <2>2. CASE row.return = NoTime
    <3>1. ~OwnReturn(revision, row)
      BY <2>2 DEF OwnReturn
    <3>2. EffectiveFinish(revision, row) = Clock(FinishAt(typed))
      BY <1>1, <1>7, <3>1 DEF EffectiveFinish, Coalesce
    <3>3. finish = FinishAt(typed)
      BY <1>7, <3>1, <3>2
    <3> HIDE DEF finish
    <3> QED
      BY <1>1, <2>2, <3>3 DEF FinishAt, Coalesce
  <2> QED
    BY <2>1, <2>2
<1>10. Clock(Clock(packed) + back) = Clock(packed + back)
  <2>1. packed \in Int
    BY <1>3
  <2> HIDE DEF packed, back
  <2> QED
    BY <1>4, <2>1, ClockSteps
<1> HIDE DEF packed, back, finish
<1> QED
  BY <1>5, <1>8, <1>9, <1>10 DEF legs, revision

\* The times that pages show are those that are counted, for whatever is typed for
\* ordinary days and rows: the timeline adds up to them, a Person's own times replace
\* them, and reminders and the end of self-decline go by them.
THEOREM TimesAlwaysShown ==
  ASSUME \A version \in Versions : FinishKnown(version) => LeavesOnDate(version)
  PROVE  Spec => []TimesShown
<1>1. ASSUME NEW version \in Versions, FinishKnown(version)
      PROVE  TimelineAdds(version)
  <2>1. LeavesOnDate(version) /\ OrdinaryDay(version.sheet) /\ version.row.start = NoTime
    BY <1>1 DEF LeavesOnDate
  <2> QED
    BY <1>1, <2>1, OutboundAdds, SetupAdds, WayHomeAdds DEF TimelineAdds
<1>2. Misshown = {}
  BY <1>1, RemindedInTime, OwnTimesReplace DEF Misshown
<1>3. TimesShown
  BY <1>2 DEF TimesShown
<1> QED
  BY <1>3, PTL
=============================================================================
