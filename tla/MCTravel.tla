------------------------------ MODULE MCTravel ------------------------------
(* RosterPages and GeneratedTravel, for TLC: a day meeting, one under lights  *)
(* that ends past midnight, a late one whose last race is after midnight, and *)
(* a trials morning that starts before dawn at an overnight stop.             *)
EXTENDS RosterPages, TLC

DayMeeting ==
  [trials |-> FALSE, first |-> 727, last |-> 1019, lead |-> 120, trackTravel |-> 30,
   onTrack |-> NoTime, start |-> NoTime, finish |-> NoTime, packUp |-> 60,
   returnTravel |-> 45, truckOffset |-> 15, departure |-> 960, toHotel |-> 150,
   hotelToTrack |-> 20]
NightMeeting == [DayMeeting EXCEPT !.first = 1080, !.last = 1317, !.returnTravel = 120]
LateMeeting == [NightMeeting EXCEPT !.last = 7, !.departure = 1380]
FixedTimes == [DayMeeting EXCEPT !.onTrack = 600, !.start = 525, !.finish = 1080]
TrialsMorning ==
  [DayMeeting EXCEPT !.trials = TRUE, !.onTrack = 30, !.start = 20, !.last = 723,
                     !.hotelToTrack = 45, !.truckOffset = 0]

NoTruck == [DayMeeting EXCEPT !.truckOffset = 0]
FinishTyped == [DayMeeting EXCEPT !.finish = 1140]

MCSheets == {DayMeeting, TrialsMorning}
MCTimedSheets ==
  {DayMeeting, NightMeeting, LateMeeting, FixedTimes, TrialsMorning, NoTruck, FinishTyped}

\* A van, an own car, a truck, and personal overrides of the plan.
MCRowKinds ==
  {PlainRow(TRUE), PlainRow(FALSE),
   [PlainRow(FALSE) EXCEPT !.mode = "SELF_TRAVEL"],
   [PlainRow(FALSE) EXCEPT !.mode = "VEHICLE", !.truck = TRUE],
   [PlainRow(TRUE) EXCEPT !.hotel = 40, !.return = 200]}

\* None of these loses a date.
ASSUME OrdinaryVersions ==
  \A version \in Versions : FinishKnown(version) => Ordinary(version) /\ LeavesOnDate(version)

\* The evening before, from which it reaches into the night.
MCOtherSpan == [from |-> -400, to |-> -200]
MCOtherDate == -1

Symmetry == Permutations(People)
=============================================================================
