---------------------------- MODULE WorkdayTiming ----------------------------
(* The clock arithmetic of a Workday: what a Race or Trials Day derives from *)
(* its programme, when a Person's row starts and finishes, when the standard *)
(* overnight plan travels, and when two intervals conflict.                  *)
(*                                                                           *)
(* A moment is a number of minutes from midnight of the work date (negative  *)
(* the day before).  A revision stores clocks, so a moment loses its date    *)
(* when it is stored and `ClockOnWorkday` has to find it again.              *)
EXTENDS Integers, FiniteSets

CONSTANT NoTime \* the null of a nullable column

Day == 1440
MaxStartDaysBefore == 1   \* the dates that are searched for conflicts
MaxFinishDaysAfter == 3
LastRaceClearance == 10

Modes == {"UNASSIGNED", "VEHICLE", "SELF_TRAVEL", "NOT_REQUIRED", "CUSTOM"}

Coalesce(value, default) == IF value = NoTime THEN default ELSE value
Smallest(S) == CHOOSE x \in S : \A y \in S : x <= y
Largest(S) == CHOOSE x \in S : \A y \in S : x >= y

Clock(moment) == moment % Day
DateOf(moment) == moment \div Day

FloorToQuarter(moment) == moment - (moment % 15)
CeilToQuarter(moment) == FloorToQuarter(moment + 14)
ClockAfter(clock, reference) ==
  LET sameDay == DateOf(reference) * Day + clock
  IN  IF sameDay < reference THEN sameDay + Day ELSE sameDay
RaceClearAt(lastRaceAt) == CeilToQuarter(lastRaceAt + LastRaceClearance)

(***************************************************************************)
(* A sheet is what the Manager types: `onTrack`, `start` and `finish` are  *)
(* NoTime where no override is made.  A revision is what is stored.        *)
(***************************************************************************)
ClockTimes == 0 .. (Day - 1)
Durations == 0 .. Day

\* What validation accepts, with every time that the day needs.
Sheet ==
  {typed \in [trials : BOOLEAN, first : ClockTimes, last : ClockTimes, departure : ClockTimes,
               onTrack : ClockTimes \cup {NoTime}, start : ClockTimes \cup {NoTime},
               finish : ClockTimes \cup {NoTime}, lead : Durations, trackTravel : Durations,
               packUp : Durations, returnTravel : Durations, truckOffset : Durations,
               toHotel : Durations, hotelToTrack : Durations] :
     typed.trials => NoTime \notin {typed.onTrack, typed.start}}

EventClear(trials, last, reference) ==
  IF trials THEN CeilToQuarter(ClockAfter(last, reference))
            ELSE RaceClearAt(ClockAfter(last, reference))

DeriveRaceDayTiming(typed) ==
  LET onTrack  == Coalesce(typed.onTrack, Clock(FloorToQuarter(typed.first) - typed.lead))
      packedUp == EventClear(FALSE, typed.last, onTrack) + typed.packUp
  IN  [onTrack |-> onTrack,
       start   |-> Coalesce(typed.start, Clock(onTrack - typed.trackTravel)),
       finish  |-> Coalesce(typed.finish, Clock(packedUp + typed.returnTravel))]

StandardTravel(typed, onTrack) ==
  LET packedUp == EventClear(typed.trials, typed.last, onTrack) + typed.packUp
  IN  [travelStart  |-> Clock(typed.departure),
       travelFinish |-> Clock(typed.departure + typed.toHotel),
       raceStart    |-> Clock(onTrack - typed.hotelToTrack),
       packUpDone   |-> Clock(packedUp),
       raceFinish   |-> Clock(Coalesce(typed.finish, packedUp + typed.returnTravel))]

\* A Race Day is derived; a Trials Day keeps what is typed, but for a
\* finish that the standard plan calculates.
Revision(typed, plan) ==
  LET kept == [onTrack |-> typed.onTrack, start |-> typed.start,
               finish  |-> IF plan THEN StandardTravel(typed, typed.onTrack).raceFinish
                                   ELSE typed.finish]
      times == IF typed.trials THEN kept ELSE DeriveRaceDayTiming(typed)
  IN  [plan |-> plan, trials |-> typed.trials, last |-> typed.last,
       onTrack |-> times.onTrack, start |-> times.start, finish |-> times.finish,
       finishFixed |-> typed.finish # NoTime, hotelToTrack |-> typed.hotelToTrack,
       packUp |-> typed.packUp, truckOffset |-> typed.truckOffset]

(***************************************************************************)
(* A row: the travel of one Person on the day.  `start`, `finish`, `hotel` *)
(* and `return` are personal overrides.                                    *)
(***************************************************************************)
PersonalRow ==
  [mode : Modes, truck : BOOLEAN, standard : BOOLEAN,
   start : ClockTimes \cup {NoTime}, finish : ClockTimes \cup {NoTime},
   hotel : Durations \cup {NoTime}, return : Durations \cup {NoTime}]

UsesStandard(revision, row) == revision.plan /\ row.standard
InTruck(revision, row) ==
  row.mode = "VEHICLE" /\ row.truck /\ row.start = NoTime /\ ~UsesStandard(revision, row)
HotelMinutes(revision, row) == Coalesce(row.hotel, revision.hotelToTrack)
OwnReturn(revision, row) ==
  /\ row.finish = NoTime /\ row.return # NoTime
  /\ UsesStandard(revision, row) /\ ~revision.finishFixed

OwnFinish(revision, row, onTrack) ==
  EventClear(revision.trials, revision.last, onTrack) + revision.packUp + row.return

Overnight(revision) == revision.finish # NoTime /\ revision.finish < revision.start
ClockOnWorkday(revision, clock) ==
  IF Overnight(revision) /\ clock < revision.start THEN clock + Day ELSE clock

EffectiveStart(revision, row) ==
  LET usual == IF row.start # NoTime THEN row.start
               ELSE IF UsesStandard(revision, row)
               THEN Clock(revision.onTrack - HotelMinutes(revision, row))
               ELSE IF row.mode \in {"SELF_TRAVEL", "NOT_REQUIRED"} /\ ~revision.trials
               THEN revision.onTrack ELSE revision.start
  IN  IF InTruck(revision, row) THEN Clock(usual - revision.truckOffset) ELSE usual

EffectiveFinish(revision, row) ==
  IF OwnReturn(revision, row) THEN Clock(OwnFinish(revision, row, revision.onTrack))
                              ELSE Coalesce(row.finish, revision.finish)

StartMomentByClock(revision, row) == ClockOnWorkday(revision, EffectiveStart(revision, row))
StartMoment(revision, row) ==
  IF row.start = NoTime /\ UsesStandard(revision, row)
  THEN ClockOnWorkday(revision, revision.onTrack) - HotelMinutes(revision, row)
  ELSE ClockOnWorkday(revision, EffectiveStart(revision, row))
       - (IF InTruck(revision, row) THEN revision.truckOffset ELSE 0)

\* The interval has no end when the finish is not known.
EffectiveInterval(revision, row) ==
  LET start   == StartMoment(revision, row)
      finish  == IF OwnReturn(revision, row)
                 THEN OwnFinish(revision, row, ClockOnWorkday(revision, revision.onTrack))
                 ELSE ClockOnWorkday(revision, EffectiveFinish(revision, row))
      late    == IF finish > start THEN 0 ELSE 1 + (start - finish) \div Day
  IN  [from |-> start,
       to   |-> IF EffectiveFinish(revision, row) = NoTime THEN NoTime ELSE finish + late * Day]

\* The minutes that the rows of a Person on a day are counted as: one span.
Minutes(revision, rows) ==
  LET spans == {EffectiveInterval(revision, row) : row \in rows}
      known == {span \in spans : span.to # NoTime}
  IN  IF known = {} THEN 0
      ELSE Largest({span.to : span \in known}) - Smallest({span.from : span \in known})

\* Spans touch without overlapping; one that has no end is taken to fill its date.
Overlap(left, leftDate, right, rightDate) ==
  IF NoTime \in {left.to, right.to} THEN leftDate = rightDate
  ELSE left.from < right.to /\ right.from < left.to

\* Where the window looks for a span that is worked on a date.
Placed(span, date) ==
  /\ span.from \in (date - MaxStartDaysBefore) * Day .. (date + MaxFinishDaysAfter + 1) * Day - 1
  /\ span.to # NoTime => span.to \in span.from .. (date + MaxFinishDaysAfter + 1) * Day - 1

\* Only work dates near enough to a span are compared with it.
InWindow(left, rightDate) ==
  rightDate \in (DateOf(left.from) - MaxFinishDaysAfter)
                  .. (DateOf(Coalesce(left.to, left.from)) + MaxStartDaysBefore)
=============================================================================
