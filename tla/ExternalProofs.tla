--------------------------- MODULE ExternalProofs ---------------------------
(***************************************************************************)
(* What comes from outside.  Module ExternalCalendar guarantees, for any   *)
(* number of providers, dates, times and overlapping reconciliations: no   *)
(* observation waits for a mapping that exists (StrandStep), an untouched  *)
(* draft shows its event (FollowStep, which needs that a Workday's event   *)
(* does not go away), and an event shows what some provider still gives    *)
(* (AgreeStep, which needs that a provider whose word is kept has          *)
(* identified the event).  Modules TrackMaps and Scheduler, for any number *)
(* of schedulers and requests: the file of a map is the one that its row   *)
(* describes (MapsInv, which needs what a worker that nobody overlaps may  *)
(* rely on between its read and its commit).                               *)
(***************************************************************************)
EXTENDS ExternalCalendar, Scheduler, TLAPS

-----------------------------------------------------------------------------
(* Values.                                                                 *)

USE DEF Source

LEMMA Nulls ==
  /\ NoFact \notin Times /\ NoFact \notin Programmes /\ NoFact # "DISCOVERED"
  /\ None \notin Dates /\ None \notin Event /\ None \notin Revision
  /\ None \notin Reconciliation
BY CalendarAssumption

LEMMA NewEventIsEvent == NewEvent \in Event
BY DEF NewEvent, Event, Fact

LEMMA NoWorkIsWork == NoWork \in Work
BY DEF NoWork, Work

\* A record after one of its fields has changed.
LEMMA DraftReplaced ==
  ASSUME NEW w \in Work, NEW draft
  PROVE  [w EXCEPT !.draft = draft] = [draft |-> draft, published |-> w.published]
BY DEF Work

LEMMA TimeReplaced ==
  ASSUME NEW w \in Work, w.draft \in Revision, NEW time
  PROVE  [w EXCEPT !.draft.time = time] =
           [draft |-> [w.draft EXCEPT !.time = time], published |-> w.published]
BY DEF Work

LEMMA RevIsRevision ==
  ASSUME NEW n \in Nat, NEW time \in Fact
  PROVE  Rev(n, time) \in Revision
BY DEF Rev, Revision

LEMMA ListingIsObservation ==
  ASSUME NEW p \in Providers, NEW id \in BOOLEAN, NEW d \in Dates
  PROVE  /\ Listing(p, id, d) \in Observation
         /\ \A time \in Fact : [Listing(p, id, d) EXCEPT !.time = time] \in Observation
         /\ \A time \in Fact, programme \in Programmes :
              [Listing(p, id, d) EXCEPT !.time = time, !.programme = programme] \in Observation
BY DEF Listing, Observation, Fact

\* A page gives a programme state, and a time only if it has one.
LEMMA ParsedIsFact ==
  ASSUME NEW page \in Pages
  PROVE  Parsed(page).time \in Fact /\ Parsed(page).programme \in Programmes
<1>1. Parsed(page).programme \in Programmes
  BY DEF Parsed, Programmes
<1>2. CASE 1 \in Scheduled(page)
  <2>1. PICK start \in Starts(page, 1) : start # NoFact
    BY <1>2 DEF Scheduled
  <2>2. Starts(page, 1) \subseteq Fact
    BY DEF Starts, Pages
  <2>3. (CHOOSE s \in Starts(page, 1) : s # NoFact) \in Starts(page, 1)
    BY <2>1
  <2>4. Parsed(page).time = (CHOOSE s \in Starts(page, 1) : s # NoFact)
    BY <1>2 DEF Parsed
  <2> QED
    BY <1>1, <2>2, <2>3, <2>4
<1>3. CASE 1 \notin Scheduled(page)
  <2>1. Parsed(page).time = NoFact
    BY <1>3 DEF Parsed
  <2> QED
    BY <1>1, <2>1 DEF Fact
<1> QED
  BY <1>2, <1>3

\* The steps, apart from what they are given.
LEMMA Steps ==
  ASSUME Next
  PROVE  \/ \E r \in Runs : Commit(r) \/ Rollback(r)
         \/ \E r \in Runs, o \in Observation : Observe(r, o)
         \/ \E p \in Providers : ConfirmTrackMapping(p)
         \/ \E d \in Dates : AdoptExternalEvent(d) \/ Publish(d) \/ ApplyLatestProgramme(d)
                             \/ DeleteNeverPublished(d) \/ \E time \in Times : SaveDraft(d, time)
<1>1. CASE \E r \in Runs, p \in Providers, id \in BOOLEAN, d \in Dates :
             Observe(r, Listing(p, id, d))
  BY <1>1, ListingIsObservation
<1>2. CASE \E r \in Runs, p \in Providers, id \in BOOLEAN, d \in Dates, time \in Times :
             Observe(r, [Listing(p, id, d) EXCEPT !.time = time])
  <2>1. PICK r \in Runs, p \in Providers, id \in BOOLEAN, d \in Dates, time \in Times :
          Observe(r, [Listing(p, id, d) EXCEPT !.time = time])
    BY <1>2
  <2>2. [Listing(p, id, d) EXCEPT !.time = time] \in Observation
    BY ListingIsObservation DEF Fact
  <2> QED
    BY <2>1, <2>2
<1>3. CASE \E r \in Runs, d \in Dates, parsed \in {Parsed(page) : page \in Pages} :
             ReadProgramme(r, d, parsed)
  <2>1. PICK r \in Runs, d \in Dates, page \in Pages : ReadProgramme(r, d, Parsed(page))
    BY <1>3
  <2>2. PICK time \in Fact, programme \in Programmes :
          time = Parsed(page).time /\ programme = Parsed(page).programme
    BY ParsedIsFact
  <2>3. Observe(r, [Listing(LoveRacing, TRUE, d) EXCEPT !.time = time, !.programme = programme])
    BY <2>1, <2>2 DEF ReadProgramme
  <2>4. [Listing(LoveRacing, TRUE, d) EXCEPT !.time = time, !.programme = programme]
          \in Observation
    BY CalendarAssumption, ListingIsObservation
  <2> QED
    BY <2>3, <2>4
<1> QED
  BY <1>1, <1>2, <1>3 DEF Next

LEMMA ReconciledIsEvent ==
  ASSUME NEW t \in Reconciliation
  PROVE  /\ Reconciled(t, t.of) \in Event
         /\ t.of.time = NoFact /\ t.event # None => Reconciled(t, t.of).time = t.event.time
         /\ t.of.time = NoFact /\ t.event = None => Reconciled(t, t.of).time = NoFact
         /\ t.of.time # NoFact /\ t.identified /\ t.date = t.of.date =>
              Reconciled(t, t.of).time = t.of.time
         /\ Reconciled(t, t.of).time = t.of.time
            \/ (t.event # None /\ Reconciled(t, t.of).time = t.event.time)
<1> DEFINE new == t.event = None
           event == IF new THEN NewEvent ELSE t.event
           may == t.identified /\ t.date = t.of.date
           down == event.programme = "COMPLETE"
                     /\ t.of.programme \in {"PARTIAL", "AWAITING_SCHEDULE"}
           time == Value(event.time, t.of.time, new, may)
           programme == IF down THEN "COMPLETE"
                        ELSE Value(event.programme, t.of.programme, new, may)
<1>1. /\ event.time \in Fact /\ event.programme \in Programmes \cup {"DISCOVERED"}
      /\ t.of.time \in Fact /\ t.of.programme \in Programmes \cup {NoFact}
      /\ new => event.time = NoFact
      /\ ~new => event.time = t.event.time
  BY NewEventIsEvent DEF NewEvent, Event, Reconciliation, Observation
<1>2. Reconciled(t, t.of) = [time |-> time, programme |-> programme]
  BY DEF Reconciled
<1>3. new \in BOOLEAN /\ may \in BOOLEAN
  BY DEF Reconciliation
<1> HIDE DEF new, event, may, down
<1>4. /\ time \in Fact /\ time \in {event.time, t.of.time}
      /\ t.of.time = NoFact => time = event.time
      /\ t.of.time # NoFact /\ may => time = t.of.time
      /\ t.of.time # NoFact /\ event.time = NoFact => time = t.of.time
  BY <1>1 DEF Value
<1>5. programme \in Programmes \cup {"DISCOVERED"}
  <2>1. Value(event.programme, t.of.programme, new, may) \in Programmes \cup {"DISCOVERED"}
    BY <1>1 DEF Value
  <2> QED
    BY <2>1 DEF Programmes
<1>6. Reconciled(t, t.of) \in Event
  BY <1>2, <1>4, <1>5 DEF Event
<1>7. Reconciled(t, t.of).time = time
  BY <1>2
<1> HIDE DEF time
<1> QED
  BY <1>1, <1>4, <1>6, <1>7 DEF new, may

LEMMA SyncedIsRevision ==
  ASSUME NEW t \in Reconciliation, NEW time \in Fact
  PROVE  /\ Synced(t, time) \in Revision \cup {None}
         /\ t.work.draft = None <=> Synced(t, time) = None
<1> DEFINE draft == t.work.draft
           previous == IF t.event = None THEN NoFact ELSE t.event.time
<1>1. draft \in Revision \cup {None}
  BY DEF Reconciliation, Work
<1>2. draft # None => draft.number \in Nat
  BY <1>1 DEF Revision
<1>3. draft # None => Rev(draft.number, time) \in Revision
  BY <1>2, RevIsRevision
<1>4. Synced(t, time) =
        IF draft = None \/ t.work.published # None \/ time = NoFact THEN draft
        ELSE IF draft.time \in {NoFact, previous} THEN Rev(draft.number, time) ELSE draft
  BY DEF Synced
<1> HIDE DEF draft, previous
<1>5. Synced(t, time) \in {draft, Rev(draft.number, time)} /\ (draft = None => Synced(t, time) = None)
  BY <1>4
<1> QED
  BY <1>1, <1>3, <1>5, Nulls, <1>4 DEF draft

LEMMA OverIsEvent ==
  ASSUME NEW current \in Event \cup {None}, NEW before \in Event \cup {None}, NEW after \in Event
  PROVE  /\ Over(current, before, after) \in Event
         /\ current = before => Over(current, before, after) = after
<1>1. CASE current = None
  BY <1>1 DEF Over
<1>2. CASE current \in Event
  <2> DEFINE value(f) == IF before # None /\ before[f] = after[f] THEN current[f] ELSE after[f]
  <2>1. DOMAIN current = {"time", "programme"}
    BY <1>2 DEF Event
  <2>2. Over(current, before, after) = [f \in {"time", "programme"} |-> value(f)]
    BY <1>2, <2>1, Nulls DEF Over
  <2>3. value("time") \in Fact /\ value("programme") \in Programmes \cup {"DISCOVERED"}
    BY <1>2 DEF Event
  <2>4. current = before => value("time") = after.time /\ value("programme") = after.programme
    BY <1>2
  <2>5. after = [f \in {"time", "programme"} |-> after[f]]
    BY DEF Event
  <2> HIDE DEF value
  <2>6. Over(current, before, after) = [time |-> value("time"), programme |-> value("programme")]
    BY <2>2
  <2>7. Over(current, before, after) \in Event
    BY <2>3, <2>6 DEF Event
  <2>8. after = [time |-> after.time, programme |-> after.programme]
    BY <2>5
  <2> QED
    BY <2>4, <2>6, <2>7, <2>8
<1> QED
  BY <1>1, <1>2

LEMMA WrittenIsRevision ==
  ASSUME NEW rev \in Revision \cup {None}, NEW before \in Revision \cup {None},
         NEW after \in Revision \cup {None}, before = None <=> after = None
  PROVE  /\ Written(rev, before, after) \in Revision \cup {None}
         /\ Written(rev, before, after) = None <=> rev = None
         /\ Written(before, before, after) = after
BY DEF Written

-----------------------------------------------------------------------------
(* Steps.                                                                  *)

\* What a reconciliation writes, with t as it was read.
Draft(t, after) ==
  IF t.date # t.of.date THEN t.work.draft ELSE Synced(t, after.time)
Stale(t) ==
  IF t.date = None THEN t.of.provider \in mapped
  ELSE \/ events[t.date] # t.event \/ work[t.date] # t.work
       \/ t.identified # (Identified(t.of) # {})
Told(t) == t.date # None /\ t.of.id /\ t.of.time # NoFact /\ t.date = t.of.date

\* What an identified time settles.
Settles(t) ==
  \/ UNCHANGED <<unsettled, repeated>>
  \/ /\ Told(t) /\ t.identified
     /\ unsettled' = unsettled \ {t.date} /\ repeated' = repeated \ {t.date}

CommitWrites(r, t, after, draft) ==
  /\ t = run[r] /\ after = Reconciled(t, t.of)
  /\ draft = Draft(t, after)
  /\ observations' = observations \cup {[of |-> t.of, event |-> t.date]}
  /\ run' = [run EXCEPT ![r] = None]
  /\ t.date = None => events' = events /\ work' = work
  /\ t.date # None =>
       /\ events' = [events EXCEPT ![t.date] = Over(events[t.date], t.event, after)]
       /\ work' = [work EXCEPT ![t.date] =
            [draft     |-> Written(work[t.date].draft, t.work.draft, draft),
             published |-> Written(work[t.date].published, t.work.draft, draft)]]
  /\ Told(t) => latest' = [latest EXCEPT ![t.date][t.of.provider] = t.of.time]
  /\ ~Told(t) => latest' = latest
  /\ Settles(t)
  /\ unsynced' = unsynced \/ (t.date # None /\ unsynced' = unsynced \cup {t.date})
  /\ t.date # None /\ t.date # t.of.date /\ events'[t.date] # events[t.date] =>
       t.date \in unsynced'
  /\ overlapped' = (overlapped \/ Stale(t))
  /\ UNCHANGED <<mapped, edited, made, steps>>

LEMMA CommitGives ==
  ASSUME CalendarTypeOK, NEW r \in Runs, Commit(r)
  PROVE  \E t \in Reconciliation, after \in Event, draft \in Revision \cup {None} :
           /\ CommitWrites(r, t, after, draft)
           /\ t.work.draft = None <=> draft = None
<1>1. PICK t \in Reconciliation : t = run[r]
  BY DEF Commit, CalendarTypeOK
<1>2. PICK after \in Event : after = Reconciled(t, t.of)
  BY ReconciledIsEvent
<1>3. after.time \in Fact /\ t.work.draft \in Revision \cup {None}
  BY DEF Event, Reconciliation, Work
<1>4. /\ Draft(t, after) \in Revision \cup {None}
      /\ t.work.draft = None <=> Draft(t, after) = None
  BY <1>3, SyncedIsRevision DEF Draft
<1>5. PICK draft \in Revision \cup {None} : draft = Draft(t, after)
  BY <1>4
<1>6. CommitWrites(r, t, after, draft)
  <2>1. overlapped' = (overlapped \/ Stale(t))
    BY <1>1 DEF Commit, Stale
  <2>2. /\ Told(t) => latest' = [latest EXCEPT ![t.date][t.of.provider] = t.of.time]
        /\ ~Told(t) => latest' = latest
        /\ Settles(t)
    BY <1>1 DEF Commit, Told, Settles
  <2>3. /\ unsynced' = unsynced \/ (t.date # None /\ unsynced' = unsynced \cup {t.date})
        /\ t.date # None /\ t.date # t.of.date /\ events'[t.date] # events[t.date] =>
             t.date \in unsynced'
    BY <1>1 DEF Commit
  <2>4. /\ t.date = None => events' = events /\ work' = work
        /\ t.date # None =>
             /\ events' = [events EXCEPT ![t.date] = Over(events[t.date], t.event, after)]
             /\ work' = [work EXCEPT ![t.date] =
                  [draft     |-> Written(work[t.date].draft, t.work.draft, draft),
                   published |-> Written(work[t.date].published, t.work.draft, draft)]]
    BY <1>1, <1>2, <1>5 DEF Commit, Draft
  <2>5. /\ observations' = observations \cup {[of |-> t.of, event |-> t.date]}
        /\ run' = [run EXCEPT ![r] = None]
        /\ UNCHANGED <<mapped, edited, made, steps>>
    BY <1>1 DEF Commit
  <2> QED
    BY <1>1, <1>2, <1>5, <2>1, <2>2, <2>3, <2>4, <2>5 DEF CommitWrites
<1> QED
  BY <1>4, <1>5, <1>6

LEMMA CommitTypes ==
  ASSUME CalendarTypeOK, NEW r \in Runs, Commit(r)
  PROVE  CalendarTypeOK'
<1>1. PICK t \in Reconciliation, after \in Event, draft \in Revision \cup {None} :
        /\ CommitWrites(r, t, after, draft)
        /\ t.work.draft = None <=> draft = None
  BY CommitGives
<1>2. /\ t.of \in Observation /\ t.date \in Dates \cup {None}
      /\ t.event \in Event \cup {None} /\ t.work.draft \in Revision \cup {None}
      /\ t.of.provider \in Providers /\ t.of.time \in Fact
  BY DEF Reconciliation, Work, Observation
<1>3. observations' \subseteq [of : Observation, event : Dates \cup {None}]
  BY <1>1, <1>2 DEF CommitWrites, CalendarTypeOK
<1>4. events' \in [Dates -> Event \cup {None}]
  <2>1. t.date # None => Over(events[t.date], t.event, after) \in Event
    BY <1>2, OverIsEvent DEF CalendarTypeOK
  <2> QED
    BY <1>1, <1>2, <2>1 DEF CommitWrites, CalendarTypeOK
<1>5. work' \in [Dates -> Work]
  <2>1. ASSUME t.date # None
        PROVE  [draft     |-> Written(work[t.date].draft, t.work.draft, draft),
                published |-> Written(work[t.date].published, t.work.draft, draft)] \in Work
    <3>1. work[t.date] \in Work
      BY <1>2, <2>1 DEF CalendarTypeOK
    <3>2. work[t.date].draft \in Revision \cup {None}
          /\ work[t.date].published \in Revision \cup {None}
      BY <3>1 DEF Work
    <3>3. /\ Written(work[t.date].draft, t.work.draft, draft) \in Revision \cup {None}
          /\ Written(work[t.date].published, t.work.draft, draft) \in Revision \cup {None}
      BY <1>1, <1>2, <3>2, WrittenIsRevision
    <3> QED
      BY <3>3 DEF Work
  <2> QED
    BY <1>1, <1>2, <2>1 DEF CommitWrites, CalendarTypeOK
<1>6. latest' \in [Dates -> [Providers -> Fact]]
  <2>1. CASE Told(t)
    <3>1. /\ latest' = [latest EXCEPT ![t.date][t.of.provider] = t.of.time]
          /\ t.date \in Dates
      BY <1>1, <1>2, <2>1 DEF CommitWrites, Told
    <3> QED
      BY <1>2, <3>1 DEF CalendarTypeOK
  <2>2. CASE ~Told(t)
    BY <1>1, <2>2 DEF CommitWrites, CalendarTypeOK
  <2> QED
    BY <2>1, <2>2
<1>7. run' \in [Runs -> Reconciliation \cup {None}]
  BY <1>1 DEF CommitWrites, CalendarTypeOK
<1>8. /\ unsettled' \subseteq Dates /\ repeated' \subseteq Dates
      /\ unsynced' \subseteq Dates /\ edited' \subseteq Dates
      /\ made' \in Nat /\ steps' \in Nat /\ mapped' \subseteq Providers
  BY <1>1, <1>2 DEF CommitWrites, Settles, CalendarTypeOK
<1>9. overlapped' \in BOOLEAN
  BY <1>1 DEF CommitWrites
<1> QED
  BY <1>3, <1>4, <1>5, <1>6, <1>7, <1>8, <1>9 DEF CalendarTypeOK

LEMMA IdentifiedDates ==
  ASSUME CalendarTypeOK, NEW o \in Observation, NEW d \in EventFor(o)
  PROVE  d \in Dates \cup {None}
<1>1. Identified(o) \subseteq Dates
  BY DEF Identified, CalendarTypeOK
<1>2. o.date \in Dates
  BY DEF Observation
<1> QED
  BY <1>1, <1>2 DEF EventFor

LEMMA ObserveTypes ==
  ASSUME CalendarTypeOK, NEW r \in Runs, NEW o \in Observation, Observe(r, o)
  PROVE  CalendarTypeOK'
<1>1. steps' \in Nat
  BY DEF Observe, Step, CalendarTypeOK
<1>2. CASE Read(r, o)
  <2>1. PICK d \in EventFor(o) :
          run' = [run EXCEPT ![r] =
            [of |-> o, date |-> d, identified |-> Identified(o) # {},
             event |-> IF d = None THEN None ELSE events[d],
             work  |-> IF d = None THEN NoWork ELSE work[d]]]
    BY <1>2 DEF Read
  <2>2. d \in Dates \cup {None}
    BY IdentifiedDates
  <2>3. /\ (IF d = None THEN None ELSE events[d]) \in Event \cup {None}
        /\ (IF d = None THEN NoWork ELSE work[d]) \in Work
    BY <2>2, NoWorkIsWork DEF CalendarTypeOK
  <2>4. [of |-> o, date |-> d, identified |-> Identified(o) # {},
         event |-> IF d = None THEN None ELSE events[d],
         work  |-> IF d = None THEN NoWork ELSE work[d]] \in Reconciliation
    BY <2>2, <2>3 DEF Reconciliation
  <2>5. run' \in [Runs -> Reconciliation \cup {None}]
    BY <2>1, <2>4 DEF CalendarTypeOK
  <2> QED
    BY <1>1, <1>2, <2>5 DEF Read, CalendarTypeOK
<1>3. CASE IgnoreDuplicate(o)
  <2>1. /\ latest' \in [Dates -> [Providers -> Fact]]
        /\ repeated' \subseteq Dates
    <3>1. PICK x \in observations : x = CHOOSE y \in observations : y.of = o
      BY <1>3 DEF IgnoreDuplicate, Seen
    <3>2. o.date \in Dates /\ o.provider \in Providers /\ o.time \in Fact
      BY DEF Observation
    <3>3. \/ UNCHANGED <<latest, repeated>>
          \/ /\ x.event = o.date
             /\ latest' = [latest EXCEPT ![x.event][o.provider] = o.time]
             /\ repeated' = IF events[x.event].time = o.time THEN repeated
                            ELSE repeated \cup {x.event}
      BY <1>3, <3>1 DEF IgnoreDuplicate
    <3> QED
      BY <3>2, <3>3 DEF CalendarTypeOK
  <2> QED
    BY <1>1, <1>3, <2>1 DEF IgnoreDuplicate, CalendarTypeOK
<1> QED
  BY <1>2, <1>3 DEF Observe

LEMMA MappingTypes ==
  ASSUME CalendarTypeOK, NEW p \in Providers, ConfirmTrackMapping(p)
  PROVE  CalendarTypeOK'
<1>1. observations' \subseteq [of : Observation, event : Dates \cup {None}]
  <2>1. ASSUME NEW x \in observations, x.of.date \in Dates,
               x \in [of : Observation, event : Dates \cup {None}]
        PROVE  [x EXCEPT !.event = x.of.date] \in [of : Observation, event : Dates \cup {None}]
    BY <2>1
  <2>2. \A x \in observations : /\ x \in [of : Observation, event : Dates \cup {None}]
                                /\ x.of.date \in Dates
    BY DEF CalendarTypeOK, Observation
  <2>3. observations' = Attached(p)
    BY DEF ConfirmTrackMapping
  <2> QED
    BY <2>1, <2>2, <2>3 DEF Attached
<1>2. unsettled' \subseteq Dates /\ unsynced' \subseteq Dates
  BY DEF ConfirmTrackMapping, CalendarTypeOK
<1> QED
  BY <1>1, <1>2 DEF ConfirmTrackMapping, Step, CalendarTypeOK

\* What a Manager does, without the values.
ManagerWrites(d, w) ==
  /\ w \in Work /\ work' = [work EXCEPT ![d] = w]
  /\ edited' \subseteq Dates /\ unsynced' \subseteq Dates
  /\ made' \in Nat /\ steps' \in Nat
  /\ UNCHANGED <<observations, events, mapped, run, latest, unsettled, repeated, overlapped>>

LEMMA RowTypes ==
  ASSUME CalendarTypeOK, NEW d \in Dates
  PROVE  /\ work[d].draft \in Revision \cup {None} /\ work[d].published \in Revision \cup {None}
         /\ work[d] = [draft |-> work[d].draft, published |-> work[d].published]
         /\ events[d] # None => events[d].time \in Fact
         /\ \A rev \in Revision : rev.number \in Nat /\ rev.time \in Fact
BY DEF CalendarTypeOK, Work, Event, Revision

LEMMA ManagerTypes ==
  ASSUME CalendarTypeOK, NEW d \in Dates, NEW w, ManagerWrites(d, w)
  PROVE  CalendarTypeOK'
BY DEF CalendarTypeOK, ManagerWrites

LEMMA AdoptWrites ==
  ASSUME CalendarTypeOK, NEW d \in Dates, AdoptExternalEvent(d)
  PROVE  \E rev \in Revision :
           /\ ManagerWrites(d, [draft |-> rev, published |-> None])
           /\ events[d] # None /\ rev.time = events[d].time /\ edited' = edited \ {d}
           /\ unsynced' = unsynced \ {d}
<1>1. /\ events[d] # None /\ work' = [work EXCEPT ![d] =
             [NoWork EXCEPT !.draft = Rev(made + 1, events[d].time)]]
      /\ made' = made + 1
  BY DEF AdoptExternalEvent, Numbered, Revised
<1>2. PICK rev \in Revision : rev = Rev(made + 1, events[d].time)
  <2>1. made + 1 \in Nat /\ events[d].time \in Fact
    BY <1>1, RowTypes DEF CalendarTypeOK
  <2> QED
    BY <2>1, RevIsRevision
<1>3. work' = [work EXCEPT ![d] = [draft |-> rev, published |-> None]]
  <2>1. [NoWork EXCEPT !.draft = rev] = [draft |-> rev, published |-> None]
    BY DraftReplaced, NoWorkIsWork DEF NoWork
  <2> QED
    BY <1>1, <1>2, <2>1
<1>4. [draft |-> rev, published |-> None] \in Work
  BY DEF Work
<1>5. rev.time = events[d].time
  BY <1>2 DEF Rev
<1>6. ManagerWrites(d, [draft |-> rev, published |-> None])
  <2>1. made' \in Nat /\ steps' \in Nat
    BY <1>1 DEF AdoptExternalEvent, Step, CalendarTypeOK
  <2>2. edited' \subseteq Dates /\ unsynced' \subseteq Dates
    BY DEF AdoptExternalEvent, CalendarTypeOK
  <2>3. UNCHANGED Source
    BY DEF AdoptExternalEvent
  <2> QED
    BY <1>3, <1>4, <2>1, <2>2, <2>3 DEF ManagerWrites
<1> QED
  BY <1>1, <1>5, <1>6 DEF AdoptExternalEvent

LEMMA SaveWrites ==
  ASSUME CalendarTypeOK, NEW d \in Dates, NEW time \in Times, SaveDraft(d, time)
  PROVE  \E w \in Work : /\ ManagerWrites(d, w) /\ work[d] # NoWork
                         /\ edited' = edited \cup {d} /\ unsynced' = unsynced
<1>1. /\ work[d].draft # None
      /\ work' = [work EXCEPT ![d] = [work[d] EXCEPT !.draft.time = time]]
  BY DEF SaveDraft, Revised
<1>2. [work[d] EXCEPT !.draft.time = time] \in Work
  <2>1. [work[d].draft EXCEPT !.time = time] \in Revision
    BY <1>1, RowTypes DEF Revision, Fact
  <2>2. [work[d] EXCEPT !.draft.time = time] =
          [draft |-> [work[d].draft EXCEPT !.time = time], published |-> work[d].published]
    <3>1. work[d] \in Work /\ work[d].draft \in Revision
      BY <1>1, RowTypes DEF CalendarTypeOK
    <3> QED
      BY <3>1, TimeReplaced
  <2> QED
    BY <2>1, <2>2, RowTypes DEF Work
<1>3. work[d] # NoWork
  BY <1>1 DEF NoWork
<1>4. ManagerWrites(d, [work[d] EXCEPT !.draft.time = time])
  BY <1>1, <1>2 DEF ManagerWrites, SaveDraft, Step, CalendarTypeOK
<1> QED
  BY <1>2, <1>3, <1>4 DEF SaveDraft

LEMMA PublishWrites ==
  ASSUME CalendarTypeOK, NEW d \in Dates, Publish(d)
  PROVE  \E w \in Work : /\ ManagerWrites(d, w) /\ work[d] # NoWork /\ w.draft = None
                         /\ edited' = edited /\ unsynced' = unsynced
<1>1. PICK rev \in Revision : rev = work[d].draft
  BY RowTypes DEF Publish
<1>2. [draft |-> None, published |-> rev] \in Work
  BY DEF Work
<1>3. ManagerWrites(d, [draft |-> None, published |-> rev])
  BY <1>1, <1>2 DEF ManagerWrites, Publish, Revised, Step, CalendarTypeOK
<1>4. work[d] # NoWork
  BY DEF Publish, NoWork
<1> QED
  BY <1>2, <1>3, <1>4 DEF Publish

LEMMA DeleteWrites ==
  ASSUME CalendarTypeOK, NEW d \in Dates, DeleteNeverPublished(d)
  PROVE  /\ ManagerWrites(d, NoWork) /\ edited' = edited /\ unsynced' = unsynced
BY NoWorkIsWork DEF ManagerWrites, DeleteNeverPublished, Revised, Step, CalendarTypeOK

\* The latest facts leave an unpublished draft without its event's time only if
\* the event has none.
LEMMA ApplyWrites ==
  ASSUME CalendarTypeOK, NEW d \in Dates, ApplyLatestProgramme(d),
         events[d] # None
  PROVE  \E w \in Work :
           /\ ManagerWrites(d, w) /\ work[d] # NoWork
           /\ edited' = edited /\ unsynced' = unsynced
           /\ w.draft # None /\ w.published = work[d].published
           /\ w.draft.time = events[d].time
              \/ (work[d].draft = None /\ work[d].published # None)
              \/ (work[d].draft # None /\ w.draft.time = work[d].draft.time
                  /\ events[d].time = NoFact)
<1> DEFINE time(rev) == IF events[d].time = NoFact THEN rev.time ELSE events[d].time
<1>1. \A rev \in Revision : time(rev) \in Fact
  BY RowTypes
<1>2. CASE work[d].draft = None
  <2>1. work[d].published # None
    BY <1>2, RowTypes DEF ApplyLatestProgramme, NoWork
  <2>2. PICK rev \in Revision : rev = Rev(made + 1, time(work[d].published))
    <3>1. made + 1 \in Nat
      BY DEF CalendarTypeOK
    <3>2. time(work[d].published) \in Fact
      BY <1>1, <2>1, RowTypes
    <3> QED
      BY <3>1, <3>2, RevIsRevision
  <2>3. /\ made' = made + 1
        /\ work' = [work EXCEPT ![d] = [work[d] EXCEPT !.draft = rev]]
    BY <1>2, <2>2 DEF ApplyLatestProgramme, Numbered, Revised
  <2>4. PICK w \in Work : w = [draft |-> rev, published |-> work[d].published]
    BY RowTypes DEF Work
  <2>5. w = [work[d] EXCEPT !.draft = rev]
    BY <2>4, DraftReplaced DEF CalendarTypeOK
  <2>6. ManagerWrites(d, w)
    BY <2>3, <2>5 DEF ManagerWrites, ApplyLatestProgramme, Step, CalendarTypeOK
  <2>7. work[d] # NoWork /\ edited' = edited /\ unsynced' = unsynced
    BY DEF ApplyLatestProgramme
  <2>8. w.draft # None /\ w.published = work[d].published
    BY <2>4, Nulls
  <2> QED
    BY <1>2, <2>1, <2>6, <2>7, <2>8
<1>3. CASE work[d].draft # None
  <2>1. PICK old \in Revision : old = work[d].draft
    BY <1>3, RowTypes
  <2>2. PICK rev \in Revision : rev = [old EXCEPT !.time = time(old)]
    BY <1>1 DEF Revision
  <2>3. PICK w \in Work : w = [draft |-> rev, published |-> work[d].published]
    BY RowTypes DEF Work
  <2>4. w = [work[d] EXCEPT !.draft.time = time(old)]
    BY <2>1, <2>2, <2>3, TimeReplaced DEF CalendarTypeOK
  <2>5. made' = made /\ work' = [work EXCEPT ![d] = w]
    BY <1>3, <2>1, <2>4 DEF ApplyLatestProgramme, Revised
  <2>6. ManagerWrites(d, w)
    BY <2>5 DEF ManagerWrites, ApplyLatestProgramme, Step, CalendarTypeOK
  <2>7. rev.time = time(old)
    BY <2>2 DEF Revision
  <2>8. work[d] # NoWork /\ edited' = edited /\ unsynced' = unsynced
    BY DEF ApplyLatestProgramme
  <2>9. w.draft # None /\ w.published = work[d].published /\ w.draft.time = time(old)
    BY <2>3, <2>7, Nulls
  <2> QED
    BY <1>3, <2>1, <2>6, <2>8, <2>9
<1> QED
  BY <1>2, <1>3

\* A Manager writes one date's Workday and nothing else that matters.
LEMMA ManagersWrite ==
  ASSUME CalendarTypeOK, NEW d \in Dates,
         AdoptExternalEvent(d) \/ Publish(d) \/ ApplyLatestProgramme(d)
           \/ DeleteNeverPublished(d) \/ \E time \in Times : SaveDraft(d, time),
         work[d] # NoWork => events[d] # None
  PROVE  \E w \in Work : ManagerWrites(d, w) /\ (w = NoWork \/ events[d] # None)
<1>1. CASE AdoptExternalEvent(d)
  <2>1. PICK rev \in Revision : /\ ManagerWrites(d, [draft |-> rev, published |-> None])
                                /\ events[d] # None
    BY <1>1, AdoptWrites
  <2> QED
    BY <2>1 DEF Work
<1>2. CASE \E time \in Times : SaveDraft(d, time)
  BY <1>2, SaveWrites
<1>3. CASE Publish(d)
  BY <1>3, PublishWrites
<1>4. CASE DeleteNeverPublished(d)
  BY <1>4, DeleteWrites, NoWorkIsWork
<1>5. CASE ApplyLatestProgramme(d)
  BY <1>5, ApplyWrites DEF ApplyLatestProgramme
<1> QED
  BY <1>1, <1>2, <1>3, <1>4, <1>5

\* The types, and that a Workday's event does not go away.
WorkHasEvent == \A d \in Dates : work[d] # NoWork => events[d] # None

Kept == CalendarTypeOK /\ WorkHasEvent

LEMMA CommitKeepsEvents ==
  ASSUME CalendarTypeOK, WorkHasEvent, NEW r \in Runs, Commit(r)
  PROVE  WorkHasEvent'
<1>1. PICK t \in Reconciliation, after \in Event, draft \in Revision \cup {None} :
        /\ CommitWrites(r, t, after, draft)
        /\ t.work.draft = None <=> draft = None
  BY CommitGives
<1>2. /\ t.date \in Dates \cup {None} /\ t.event \in Event \cup {None}
      /\ t.work.draft \in Revision \cup {None}
  BY DEF Reconciliation, Work
<1>3. CASE t.date = None
  BY <1>1, <1>3 DEF CommitWrites, WorkHasEvent
<1>4. CASE t.date \in Dates
  <2>1. t.date # None
    BY <1>4, Nulls
  <2>2. /\ events' = [events EXCEPT ![t.date] = Over(events[t.date], t.event, after)]
        /\ work' = [work EXCEPT ![t.date] =
             [draft     |-> Written(work[t.date].draft, t.work.draft, draft),
              published |-> Written(work[t.date].published, t.work.draft, draft)]]
    BY <1>1, <2>1 DEF CommitWrites
  <2>3. Over(events[t.date], t.event, after) \in Event
    BY <1>2, <1>4, OverIsEvent DEF CalendarTypeOK
  <2>4. events'[t.date] # None
    BY <1>4, <2>2, <2>3, Nulls DEF CalendarTypeOK
  <2>5. \A d \in Dates \ {t.date} : work'[d] = work[d] /\ events'[d] = events[d]
    BY <2>2 DEF CalendarTypeOK
  <2> QED
    BY <2>4, <2>5 DEF WorkHasEvent
<1> QED
  BY <1>2, <1>3, <1>4

LEMMA MappingEvents ==
  ASSUME CalendarTypeOK, NEW p \in Providers, ConfirmTrackMapping(p), NEW d \in Dates
  PROVE  /\ events'[d] # events[d] => d \in unsettled' /\ d \in unsynced'
         /\ events[d] # None => events'[d] # None
         /\ unsettled \subseteq unsettled' /\ unsynced \subseteq unsynced'
<1>1. CASE Waiting(p, d) = {}
  BY <1>1 DEF ConfirmTrackMapping
<1>2. CASE Waiting(p, d) # {}
  <2> DEFINE event == IF events[d] = None THEN NewEvent ELSE events[d]
  <2>1. PICK time \in FirstTime(Waiting(p, d), event.time) :
          events'[d] = [event EXCEPT !.time = time]
    BY <1>2 DEF ConfirmTrackMapping
  <2>2. event \in Event
    BY NewEventIsEvent DEF CalendarTypeOK
  <2>3. time \in Fact
    <3>1. event.time \in Fact
      BY <2>2 DEF Event
    <3>2. \A x \in Waiting(p, d) : x.of.time \in Fact
      BY DEF Waiting, CalendarTypeOK, Observation
    <3> HIDE DEF event
    <3> QED
      BY <2>1, <3>1, <3>2 DEF FirstTime
  <2> HIDE DEF event
  <2>4. events'[d] \in Event
    BY <2>1, <2>2, <2>3 DEF Event
  <2>5. d \in {e \in Dates : Waiting(p, e) # {}}
    BY <1>2
  <2>6. events'[d] # None
    BY <2>4, Nulls
  <2> QED
    BY <2>5, <2>6 DEF ConfirmTrackMapping
<1> QED
  BY <1>1, <1>2

LEMMA KeptStep ==
  ASSUME Kept, [Next]_vars
  PROVE  Kept'
<1>1. CASE UNCHANGED vars
  BY <1>1 DEF vars, Kept, CalendarTypeOK, WorkHasEvent
<1>2. ASSUME NEW r \in Runs, Commit(r)
      PROVE  Kept'
  BY <1>2, CommitTypes, CommitKeepsEvents DEF Kept
<1>3. ASSUME NEW r \in Runs, Rollback(r)
      PROVE  Kept'
  BY <1>3 DEF Rollback, Kept, CalendarTypeOK, WorkHasEvent
<1>4. ASSUME NEW r \in Runs, NEW o \in Observation, Observe(r, o)
      PROVE  Kept'
  <2>1. CalendarTypeOK'
    BY <1>4, ObserveTypes DEF Kept
  <2>2. UNCHANGED <<events, work>>
    BY <1>4 DEF Observe, Read, IgnoreDuplicate
  <2> QED
    BY <2>1, <2>2 DEF Kept, WorkHasEvent
<1>5. ASSUME NEW p \in Providers, ConfirmTrackMapping(p)
      PROVE  Kept'
  <2>1. work' = work
    BY <1>5 DEF ConfirmTrackMapping
  <2> QED
    BY <1>5, <2>1, MappingTypes, MappingEvents DEF Kept, WorkHasEvent
<1>6. ASSUME NEW d \in Dates,
             AdoptExternalEvent(d) \/ Publish(d) \/ ApplyLatestProgramme(d)
               \/ DeleteNeverPublished(d) \/ \E time \in Times : SaveDraft(d, time)
      PROVE  Kept'
  <2>1. PICK w \in Work : ManagerWrites(d, w) /\ (w = NoWork \/ events[d] # None)
    BY <1>6, ManagersWrite DEF Kept, WorkHasEvent
  <2>2. CalendarTypeOK'
    BY <2>1, ManagerTypes DEF Kept
  <2>3. WorkHasEvent'
    BY <2>1 DEF ManagerWrites, Kept, WorkHasEvent, CalendarTypeOK
  <2> QED
    BY <2>2, <2>3 DEF Kept
<1> QED
  BY <1>1, <1>2, <1>3, <1>4, <1>5, <1>6, Steps

LEMMA KeptInit == Init => Kept
<1> SUFFICES ASSUME Init
             PROVE  Kept
  OBVIOUS
<1>1. latest \in [Dates -> [Providers -> Fact]]
  BY DEF Init, Fact
<1>2. work \in [Dates -> Work]
  BY NoWorkIsWork DEF Init
<1> QED
  BY <1>1, <1>2 DEF Init, Kept, CalendarTypeOK, WorkHasEvent

\* Observations, events, Workdays, reads and histories have the values that their
\* columns allow, whatever providers say and in whatever order.
THEOREM TypeCorrect == Spec => []CalendarTypeOK
<1>1. Kept /\ [Next]_vars => Kept'
  BY KeptStep
<1>2. Kept => CalendarTypeOK
  BY DEF Kept
<1> QED
  BY <1>1, <1>2, KeptInit, PTL DEF Spec

-----------------------------------------------------------------------------
(* Mappings.                                                               *)

\* Attached observations belong to an event, and the others stay as they were.
LEMMA AttachedOnes ==
  ASSUME CalendarTypeOK, NEW p \in Providers, ConfirmTrackMapping(p)
  PROVE  /\ \A x \in observations' : x.event = None => x \in observations /\ x.of.provider # p
         /\ \A x \in observations : x.event # None => x \in observations'
<1>1. observations' = Attached(p)
  BY DEF ConfirmTrackMapping
<1>2. \A x \in observations : x.of.date \in Dates /\ [x EXCEPT !.event = x.of.date].event # None
  BY Nulls DEF CalendarTypeOK, Observation
<1>3. \A x \in observations' : x.event = None => x \in observations /\ x.of.provider # p
  <2> SUFFICES ASSUME NEW y \in observations',
                      y.event = None
               PROVE  y \in observations /\ y.of.provider # p
    OBVIOUS
  <2>1. PICK x \in observations :
          y = IF x.event = None /\ x.of.provider = p THEN [x EXCEPT !.event = x.of.date] ELSE x
    BY <1>1 DEF Attached
  <2> QED
    BY <1>2, <2>1
<1>4. \A x \in observations : x.event # None => x \in observations'
  BY <1>1 DEF Attached
<1> QED
  BY <1>3, <1>4

LEMMA StrandStep ==
  ASSUME Kept, NothingStranded, [Next]_vars
  PROVE  NothingStranded'
<1>1. CASE UNCHANGED vars
  BY <1>1 DEF vars, NothingStranded
<1>2. ASSUME NEW r \in Runs, Commit(r)
      PROVE  NothingStranded'
  <2>1. PICK t \in Reconciliation, after \in Event, draft \in Revision \cup {None} :
          CommitWrites(r, t, after, draft)
    BY <1>2, CommitGives DEF Kept
  <2>2. /\ observations' = observations \cup {[of |-> t.of, event |-> t.date]}
        /\ overlapped' = (overlapped \/ Stale(t)) /\ mapped' = mapped
    BY <2>1 DEF CommitWrites
  <2>3. t.date = None /\ t.of.provider \in mapped => overlapped'
    BY <2>2 DEF Stale
  <2>4. \A x \in observations : x.event = None /\ x.of.provider \in mapped => overlapped'
    BY <2>2 DEF NothingStranded
  <2>5. \A x \in observations' : x.event = None /\ x.of.provider \in mapped => overlapped'
    BY <2>2, <2>3, <2>4
  <2> QED
    BY <2>2, <2>5 DEF NothingStranded
<1>3. ASSUME NEW r \in Runs, Rollback(r)
      PROVE  NothingStranded'
  BY <1>3 DEF Rollback, NothingStranded
<1>4. ASSUME NEW r \in Runs, NEW o \in Observation, Observe(r, o)
      PROVE  NothingStranded'
  BY <1>4 DEF Observe, Read, IgnoreDuplicate, NothingStranded
<1>5. ASSUME NEW p \in Providers, ConfirmTrackMapping(p)
      PROVE  NothingStranded'
  <2>1. mapped' = mapped \cup {p} /\ overlapped' = overlapped
    BY <1>5 DEF ConfirmTrackMapping
  <2> QED
    BY <1>5, <2>1, AttachedOnes DEF Kept, NothingStranded
<1>6. ASSUME NEW d \in Dates,
             AdoptExternalEvent(d) \/ Publish(d) \/ ApplyLatestProgramme(d)
               \/ DeleteNeverPublished(d) \/ \E time \in Times : SaveDraft(d, time)
      PROVE  NothingStranded'
  <2>1. UNCHANGED <<observations, mapped, overlapped>>
    BY <1>6, ManagersWrite DEF Kept, WorkHasEvent, ManagerWrites
  <2> QED
    BY <2>1 DEF NothingStranded
<1> QED
  BY <1>1, <1>2, <1>3, <1>4, <1>5, <1>6, Steps

\* However many reconciliations overlap, an observation that waits for a mapping
\* that exists was read before the mapping was confirmed.
THEOREM NothingStaysStranded == Spec => []NothingStranded
<1> DEFINE StrandInv == Kept /\ NothingStranded
<1>1. Init => StrandInv
  BY KeptInit DEF Init, NothingStranded
<1>2. StrandInv /\ [Next]_vars => StrandInv'
  BY KeptStep, StrandStep
<1>3. StrandInv => NothingStranded
  OBVIOUS
<1> HIDE DEF StrandInv
<1> QED
  BY <1>1, <1>2, <1>3, PTL DEF Spec

-----------------------------------------------------------------------------
(* Drafts.                                                                 *)

Follows(d) ==
  work[d].draft # None /\ work[d].published = None =>
    overlapped \/ work[d].draft.time = events[d].time

\* A reconciliation that wrote over what it had read leaves the draft it
\* follows with its event.
LEMMA CommitFollows ==
  ASSUME Kept, NEW r \in Runs, Commit(r), NEW d \in Dates, Follows(d)
  PROVE  Follows(d)' \/ d \in unsynced'
<1>1. PICK t \in Reconciliation, after \in Event, draft \in Revision \cup {None} :
        /\ CommitWrites(r, t, after, draft)
        /\ t.work.draft = None <=> draft = None
  BY CommitGives DEF Kept
<1>2. overlapped' = (overlapped \/ Stale(t))
  BY <1>1 DEF CommitWrites
<1>3. CASE overlapped \/ Stale(t)
  BY <1>2, <1>3 DEF Follows
<1>4. CASE t.date # d
  <2>1. events'[d] = events[d] /\ work'[d] = work[d]
    BY <1>1, <1>4 DEF CommitWrites, Kept, CalendarTypeOK
  <2> QED
    BY <1>2, <2>1 DEF Follows
<1>5. CASE t.date = d /\ ~(overlapped \/ Stale(t))
  <2>1. t.date # None /\ events[d] = t.event /\ work[d] = t.work
    BY <1>5, Nulls DEF Stale
  <2>2. /\ t.event \in Event \cup {None} /\ t.work.draft \in Revision \cup {None}
        /\ t.work.published \in Revision \cup {None}
    BY DEF Reconciliation, Work
  <2>3. /\ events' = [events EXCEPT ![t.date] = Over(events[t.date], t.event, after)]
        /\ work' = [work EXCEPT ![t.date] =
             [draft     |-> Written(work[t.date].draft, t.work.draft, draft),
              published |-> Written(work[t.date].published, t.work.draft, draft)]]
        /\ after = Reconciled(t, t.of) /\ draft = Draft(t, after)
        /\ t.date # t.of.date /\ events'[t.date] # events[t.date] => t.date \in unsynced'
    BY <1>1, <2>1 DEF CommitWrites
  <2>4. events'[d] = after
    BY <1>5, <2>1, <2>2, <2>3, OverIsEvent DEF Kept, CalendarTypeOK
  <2>5. work'[d].draft = draft
    <3>1. Written(work[d].draft, t.work.draft, draft) = draft
      BY <1>1, <2>1 DEF Written
    <3> QED
      BY <1>5, <2>3, <3>1 DEF Kept, CalendarTypeOK
  <2>6. work'[d].published = None => work[d].published = None
    <3>1. work[d].published \in Revision \cup {None}
      BY <2>1, <2>2
    <3>2. Written(work[d].published, t.work.draft, draft) = None <=> work[d].published = None
      BY <1>1, <3>1 DEF Written
    <3> QED
      BY <1>5, <2>3, <3>2 DEF Kept, CalendarTypeOK
  <2>7. CASE draft = None \/ t.work.published # None
    BY <2>1, <2>5, <2>6, <2>7 DEF Follows
  <2>8. CASE draft # None /\ t.work.published = None
    <3>1. t.work.draft # None /\ t.event # None
      BY <1>1, <1>5, <2>1, <2>8 DEF Kept, WorkHasEvent, NoWork
    <3>2. t.work.draft.time = t.event.time
      BY <1>5, <2>1, <2>8, <3>1 DEF Follows
    <3>3. CASE t.date # t.of.date
      <4>1. draft = t.work.draft
        BY <2>3, <3>3 DEF Draft
      <4> QED
        BY <1>5, <2>1, <2>3, <2>5, <3>2, <3>3, <4>1 DEF Follows
    <3>4. CASE t.date = t.of.date
      <4>1. draft = Synced(t, after.time)
        BY <2>3, <3>4 DEF Draft
      <4>2. after.time = NoFact => t.event.time = NoFact
        BY <2>3, <3>1, ReconciledIsEvent
      <4>3. draft.time = after.time
        BY <2>8, <3>1, <3>2, <4>1, <4>2 DEF Synced, Rev
      <4> QED
        BY <2>4, <2>5, <4>3 DEF Follows
    <3> QED
      BY <3>3, <3>4
  <2> QED
    BY <2>7, <2>8
<1> QED
  BY <1>3, <1>4, <1>5

LEMMA ManagerFollows ==
  ASSUME Kept, NEW d \in Dates, NEW e \in Dates,
         AdoptExternalEvent(d) \/ Publish(d) \/ ApplyLatestProgramme(d)
           \/ DeleteNeverPublished(d) \/ \E time \in Times : SaveDraft(d, time),
         e \notin edited' \cup unsynced',
         e \notin edited \cup unsynced => Follows(e)
  PROVE  Follows(e)'
<1>1. /\ edited' \in {edited, edited \ {d}, edited \cup {d}}
      /\ unsynced' \in {unsynced, unsynced \ {d}}
  BY DEF AdoptExternalEvent, Publish, ApplyLatestProgramme, DeleteNeverPublished, SaveDraft
<1>2. UNCHANGED <<events, overlapped>>
  BY ManagersWrite DEF Kept, WorkHasEvent, ManagerWrites
<1>3. CASE e # d
  <2>1. work'[e] = work[e]
    BY <1>3, ManagersWrite DEF Kept, WorkHasEvent, ManagerWrites, CalendarTypeOK
  <2>2. Follows(e)
    BY <1>1, <1>3
  <2> QED
    BY <1>2, <2>1, <2>2 DEF Follows
<1>4. CASE e = d /\ AdoptExternalEvent(d)
  <2>1. PICK rev \in Revision :
          /\ work' = [work EXCEPT ![d] = [draft |-> rev, published |-> None]]
          /\ rev.time = events[d].time
    BY <1>4, AdoptWrites DEF Kept, ManagerWrites
  <2> QED
    BY <1>2, <1>4, <2>1 DEF Follows, Kept, CalendarTypeOK
<1>5. CASE e = d /\ \E time \in Times : SaveDraft(d, time)
  BY <1>5, SaveWrites DEF Kept
<1>6. CASE e = d /\ Publish(d)
  <2>1. PICK w \in Work : work' = [work EXCEPT ![d] = w] /\ w.draft = None
    BY <1>6, PublishWrites DEF Kept, ManagerWrites
  <2> QED
    BY <1>6, <2>1 DEF Follows, Kept, CalendarTypeOK
<1>7. CASE e = d /\ DeleteNeverPublished(d)
  <2>1. work' = [work EXCEPT ![d] = NoWork]
    BY <1>7, DeleteWrites DEF Kept, ManagerWrites
  <2> QED
    BY <1>7, <2>1 DEF Follows, Kept, CalendarTypeOK, NoWork
<1>8. CASE e = d /\ ApplyLatestProgramme(d)
  <2>1. events[d] # None
    BY <1>8 DEF ApplyLatestProgramme, Kept, WorkHasEvent
  <2>2. PICK w \in Work :
          /\ work' = [work EXCEPT ![d] = w] /\ w.published = work[d].published
          /\ edited' = edited /\ unsynced' = unsynced
          /\ \/ w.draft.time = events[d].time
             \/ work[d].draft = None /\ work[d].published # None
             \/ work[d].draft # None /\ w.draft.time = work[d].draft.time
    BY <1>8, <2>1, ApplyWrites DEF Kept, ManagerWrites
  <2>3. Follows(d)
    BY <1>8, <2>2
  <2>4. work'[d] = w
    BY <2>2 DEF Kept, CalendarTypeOK
  <2> QED
    BY <1>2, <1>8, <2>2, <2>3, <2>4 DEF Follows
<1> QED
  BY <1>3, <1>4, <1>5, <1>6, <1>7, <1>8

LEMMA FollowStep ==
  ASSUME Kept, DraftFollows, [Next]_vars
  PROVE  DraftFollows'
<1>0. \A d \in Dates \ (edited \cup unsynced) : Follows(d)
  BY DEF DraftFollows, Follows
<1>1. CASE UNCHANGED vars
  BY <1>1 DEF vars, DraftFollows
<1>2. ASSUME NEW r \in Runs, Commit(r)
      PROVE  DraftFollows'
  <2>1. PICK t \in Reconciliation, after \in Event, draft \in Revision \cup {None} :
          CommitWrites(r, t, after, draft)
    BY <1>2, CommitGives DEF Kept
  <2>2. edited' = edited /\ unsynced \subseteq unsynced'
    BY <2>1 DEF CommitWrites
  <2>3. \A d \in Dates \ (edited' \cup unsynced') : Follows(d)'
    BY <1>0, <1>2, <2>2, CommitFollows
  <2> QED
    BY <2>3 DEF DraftFollows, Follows
<1>3. ASSUME NEW r \in Runs, Rollback(r)
      PROVE  DraftFollows'
  BY <1>3 DEF Rollback, DraftFollows
<1>4. ASSUME NEW r \in Runs, NEW o \in Observation, Observe(r, o)
      PROVE  DraftFollows'
  BY <1>4 DEF Observe, Read, IgnoreDuplicate, DraftFollows
<1>5. ASSUME NEW p \in Providers, ConfirmTrackMapping(p)
      PROVE  DraftFollows'
  <2>1. UNCHANGED <<work, edited, overlapped>>
    BY <1>5 DEF ConfirmTrackMapping
  <2>2. \A d \in Dates : /\ events'[d] # events[d] => d \in unsynced'
                         /\ unsynced \subseteq unsynced'
    BY <1>5, MappingEvents DEF Kept
  <2> QED
    BY <2>1, <2>2 DEF DraftFollows
<1>6. ASSUME NEW d \in Dates,
             AdoptExternalEvent(d) \/ Publish(d) \/ ApplyLatestProgramme(d)
               \/ DeleteNeverPublished(d) \/ \E time \in Times : SaveDraft(d, time)
      PROVE  DraftFollows'
  <2>1. \A e \in Dates \ (edited' \cup unsynced') : Follows(e)'
    BY <1>0, <1>6, ManagerFollows
  <2> QED
    BY <2>1 DEF DraftFollows, Follows
<1> QED
  BY <1>1, <1>2, <1>3, <1>4, <1>5, <1>6, Steps

\* A draft that no Manager changed shows its event's facts through any number of
\* corrections and overlapping reconciliations, but for those that wrote over
\* what they had not read and events that changed without it.
THEOREM DraftAlwaysFollows == Spec => []DraftFollows
<1> DEFINE FollowInv == Kept /\ DraftFollows
<1>1. Init => FollowInv
  <2>1. Init => DraftFollows
    BY DEF Init, DraftFollows, NoWork
  <2> QED
    BY <2>1, KeptInit
<1>2. FollowInv /\ [Next]_vars => FollowInv'
  BY KeptStep, FollowStep
<1>3. FollowInv => DraftFollows
  OBVIOUS
<1> HIDE DEF FollowInv
<1> QED
  BY <1>1, <1>2, <1>3, PTL DEF Spec

-----------------------------------------------------------------------------
(* Times.                                                                  *)

\* A provider whose time of an event is known has identified the event.
LatestSeen ==
  \A d \in Dates, p \in Providers :
    latest[d][p] # NoFact =>
      \E x \in observations : x.event = d /\ x.of.id /\ x.of.provider = p

Agrees(d) ==
  events[d] # None /\ events[d].time # NoFact => overlapped \/ Supported(d)

\* Whoever is not known to have identified an event has given it no time.
LEMMA UnidentifiedIsSilent ==
  ASSUME CalendarTypeOK, LatestSeen, NEW o \in Observation, o.id, Identified(o) = {},
         NEW d \in Dates
  PROVE  latest[d][o.provider] = NoFact
<1> SUFFICES ASSUME latest[d][o.provider] # NoFact
             PROVE  FALSE
  OBVIOUS
<1>1. o.provider \in Providers
  BY DEF Observation
<1>2. PICK x \in observations : x.event = d /\ x.of.id /\ x.of.provider = o.provider
  BY <1>1 DEF LatestSeen
<1>3. x.event # None
  BY <1>2, Nulls
<1> QED
  BY <1>2, <1>3 DEF Identified

\* What supports a time is kept by a step that adds observations and changes
\* only times that the event does not show.
LEMMA SupportKept ==
  ASSUME NEW d \in Dates, Supported(d), events'[d] = events[d],
         \A x \in observations : x.event # None => x \in observations',
         \A p \in Providers : latest[d][p] = events[d].time => latest'[d][p] = latest[d][p]
  PROVE  Supported(d)'
<1>1. CASE \E p \in Providers : latest[d][p] = events[d].time
  BY <1>1 DEF Supported
<1>2. CASE \E x \in observations : /\ x.event = d /\ (~x.of.id \/ x.of.date # d)
                                   /\ x.of.time = events[d].time
  BY <1>2, Nulls DEF Supported
<1> QED
  BY <1>1, <1>2 DEF Supported

LEMMA CommitAgrees ==
  ASSUME Kept, LatestSeen, NEW r \in Runs, Commit(r), NEW d \in Dates,
         d \notin unsettled \cup repeated => Agrees(d),
         d \notin unsettled' \cup repeated'
  PROVE  Agrees(d)'
<1>1. PICK t \in Reconciliation, after \in Event, draft \in Revision \cup {None} :
        CommitWrites(r, t, after, draft)
  BY CommitGives DEF Kept
<1>2. /\ overlapped' = (overlapped \/ Stale(t))
      /\ observations' = observations \cup {[of |-> t.of, event |-> t.date]}
      /\ Told(t) => latest' = [latest EXCEPT ![t.date][t.of.provider] = t.of.time]
      /\ ~Told(t) => latest' = latest
      /\ Settles(t)
      /\ after = Reconciled(t, t.of)
  BY <1>1 DEF CommitWrites
<1>3. /\ t.of \in Observation /\ t.of.provider \in Providers
      /\ t.event \in Event \cup {None} /\ t.date \in Dates \cup {None}
  BY DEF Reconciliation, Observation
<1>4. CASE overlapped \/ Stale(t)
  BY <1>2, <1>4 DEF Agrees
<1>5. CASE t.date # d
  <2>1. events'[d] = events[d] /\ latest'[d] = latest[d]
    <3>1. events'[d] = events[d]
      BY <1>1, <1>5 DEF CommitWrites, Kept, CalendarTypeOK
    <3>2. latest'[d] = latest[d]
      BY <1>2, <1>5 DEF Kept, CalendarTypeOK
    <3> QED
      BY <3>1, <3>2
  <2>2. d \notin unsettled \cup repeated
    BY <1>2, <1>5 DEF Settles
  <2> QED
    BY <1>2, <2>1, <2>2, SupportKept DEF Agrees
<1>6. CASE t.date = d /\ ~(overlapped \/ Stale(t))
  <2>1. /\ t.date # None /\ events[d] = t.event
        /\ t.identified = (Identified(t.of) # {})
    BY <1>6, Nulls DEF Stale
  <2>2. events'[d] = after
    <3>1. events' = [events EXCEPT ![t.date] = Over(events[t.date], t.event, after)]
      BY <1>1, <2>1 DEF CommitWrites
    <3> QED
      BY <1>3, <1>6, <2>1, <3>1, OverIsEvent DEF Kept, CalendarTypeOK
  <2>3. \A x \in observations : x \in observations'
    BY <1>2
  <2>4. CASE Told(t) /\ after.time = t.of.time
    <3>1. latest'[d][t.of.provider] = t.of.time
      BY <1>2, <1>3, <1>6, <2>4 DEF Kept, CalendarTypeOK
    <3> QED
      BY <1>3, <2>2, <2>4, <3>1 DEF Agrees, Supported
  <2>5. CASE Told(t) /\ after.time # t.of.time
    <3>1. ~t.identified /\ t.event # None /\ after.time = t.event.time
      BY <1>2, <2>5, ReconciledIsEvent DEF Told
    <3>2. \A e \in Dates : latest[e][t.of.provider] = NoFact
      BY <1>3, <2>1, <2>5, <3>1, UnidentifiedIsSilent DEF Kept, Told
    <3>3. \A p \in Providers \ {t.of.provider} : latest'[d][p] = latest[d][p]
      BY <1>2, <1>6, <2>5 DEF Kept, CalendarTypeOK
    <3>4. d \notin unsettled \cup repeated
      BY <1>2, <3>1 DEF Settles
    <3>5. SUFFICES ASSUME events'[d].time # NoFact
                   PROVE  Supported(d)'
      BY DEF Agrees
    <3>6. Supported(d)
      BY <1>6, <2>1, <2>2, <3>1, <3>4, <3>5 DEF Agrees
    <3>7. \/ \E p \in Providers : latest'[d][p] = events'[d].time
          \/ \E x \in observations' : /\ x.event = d /\ (~x.of.id \/ x.of.date # d)
                                      /\ x.of.time = events'[d].time
      BY <2>1, <2>2, <2>3, <3>1, <3>2, <3>3, <3>5, <3>6 DEF Supported
    <3> QED
      BY <3>7 DEF Supported
  <2>6. CASE ~Told(t) /\ t.of.time # NoFact /\ after.time = t.of.time
    <3>1. ~t.of.id \/ t.of.date # d
      BY <1>6, <2>1, <2>6 DEF Told
    <3>2. \E x \in observations' : /\ x.event = d /\ (~x.of.id \/ x.of.date # d)
                                   /\ x.of.time = events'[d].time
      <4>1. [of |-> t.of, event |-> t.date] \in observations'
        BY <1>2
      <4>2. t.of.time = events'[d].time
        BY <2>2, <2>6
      <4> QED
        BY <1>6, <3>1, <4>1, <4>2
    <3> QED
      BY <3>2 DEF Agrees, Supported
  <2>7. CASE ~Told(t) /\ (t.of.time = NoFact \/ after.time # t.of.time)
    <3>1. latest' = latest /\ d \notin unsettled \cup repeated
      BY <1>2, <2>7 DEF Settles
    <3>2. after.time = NoFact \/ (t.event # None /\ after.time = t.event.time)
      BY <1>2, <2>7, ReconciledIsEvent
    <3>3. SUFFICES ASSUME events'[d].time # NoFact
                   PROVE  Supported(d)'
      BY DEF Agrees
    <3>4. t.event # None /\ after.time = t.event.time
      BY <2>2, <3>2, <3>3
    <3>5. Supported(d)
      BY <1>6, <2>1, <2>2, <3>1, <3>3, <3>4 DEF Agrees
    <3>6. \/ \E p \in Providers : latest'[d][p] = events'[d].time
          \/ \E x \in observations' : /\ x.event = d /\ (~x.of.id \/ x.of.date # d)
                                      /\ x.of.time = events'[d].time
      BY <2>1, <2>2, <2>3, <3>1, <3>4, <3>5 DEF Supported
    <3> QED
      BY <3>6 DEF Supported
  <2> QED
    BY <2>4, <2>5, <2>6, <2>7
<1> QED
  BY <1>4, <1>5, <1>6

LEMMA CommitSeen ==
  ASSUME Kept, LatestSeen, NEW r \in Runs, Commit(r)
  PROVE  LatestSeen'
<1>1. PICK t \in Reconciliation, after \in Event, draft \in Revision \cup {None} :
        CommitWrites(r, t, after, draft)
  BY CommitGives DEF Kept
<1>2. /\ observations' = observations \cup {[of |-> t.of, event |-> t.date]}
      /\ Told(t) => latest' = [latest EXCEPT ![t.date][t.of.provider] = t.of.time]
      /\ ~Told(t) => latest' = latest
  BY <1>1 DEF CommitWrites
<1>3. CASE ~Told(t)
  BY <1>2, <1>3 DEF LatestSeen
<1>4. CASE Told(t)
  <2>1. [of |-> t.of, event |-> t.date] \in observations'
    BY <1>2
  <2>2. \E x \in observations' : x.event = t.date /\ x.of.id /\ x.of.provider = t.of.provider
    BY <1>4, <2>1 DEF Told
  <2>3. \A d \in Dates, p \in Providers :
          (d = t.date /\ p = t.of.provider) \/ latest'[d][p] = latest[d][p]
    BY <1>2, <1>4 DEF Kept, CalendarTypeOK
  <2>4. \A x \in observations : x \in observations'
    BY <1>2
  <2> QED
    BY <2>2, <2>3, <2>4 DEF LatestSeen
<1> QED
  BY <1>3, <1>4

\* A provider that returns to what it gave before is not heard.
LEMMA DuplicateAgrees ==
  ASSUME Kept, LatestSeen, NEW o \in Observation, IgnoreDuplicate(o)
  PROVE  /\ LatestSeen'
         /\ \A d \in Dates \ (unsettled' \cup repeated') :
              d \notin unsettled \cup repeated /\ (Agrees(d) => Agrees(d)')
<1>1. PICK x \in observations : x.of = o /\ x = CHOOSE y \in observations : y.of = o
  BY DEF IgnoreDuplicate, Seen
<1>2. UNCHANGED <<observations, events, unsettled, overlapped>>
  BY DEF IgnoreDuplicate
<1>3. \/ UNCHANGED <<latest, repeated>>
      \/ /\ x.event = o.date /\ o.id
         /\ latest' = [latest EXCEPT ![x.event][o.provider] = o.time]
         /\ repeated' = IF events[x.event].time = o.time THEN repeated
                        ELSE repeated \cup {x.event}
  BY <1>1 DEF IgnoreDuplicate
<1>4. CASE UNCHANGED <<latest, repeated>>
  BY <1>2, <1>4 DEF LatestSeen, Agrees, Supported
<1>5. CASE /\ x.event = o.date /\ o.id
           /\ latest' = [latest EXCEPT ![x.event][o.provider] = o.time]
           /\ repeated' = IF events[x.event].time = o.time THEN repeated
                          ELSE repeated \cup {x.event}
  <2>1. o.date \in Dates /\ o.provider \in Providers
    BY DEF Observation
  <2>2. \A d \in Dates, p \in Providers :
          IF d = o.date /\ p = o.provider THEN latest'[d][p] = o.time
          ELSE latest'[d][p] = latest[d][p]
    BY <1>5, <2>1 DEF Kept, CalendarTypeOK
  <2>3. LatestSeen'
    BY <1>1, <1>2, <1>5, <2>2 DEF LatestSeen
  <2>4. ASSUME NEW d \in Dates \ (unsettled' \cup repeated'), Agrees(d)
        PROVE  Agrees(d)'
    <3>1. CASE d = o.date
      <4>1. latest'[d][o.provider] = events'[d].time
        BY <1>2, <1>5, <2>1, <2>2, <2>4, <3>1
      <4> QED
        BY <2>1, <4>1 DEF Agrees, Supported
    <3>2. CASE d # o.date
      <4>1. \A p \in Providers : latest'[d][p] = latest[d][p]
        BY <2>2, <3>2
      <4> QED
        BY <1>2, <2>4, <4>1 DEF Agrees, Supported
    <3> QED
      BY <3>1, <3>2
  <2>5. unsettled = unsettled' /\ repeated \subseteq repeated'
    BY <1>2, <1>5
  <2> QED
    BY <2>3, <2>4, <2>5
<1> QED
  BY <1>3, <1>4, <1>5

LEMMA MappingAgrees ==
  ASSUME Kept, LatestSeen, NEW p \in Providers, ConfirmTrackMapping(p)
  PROVE  /\ LatestSeen'
         /\ \A d \in Dates \ (unsettled' \cup repeated') :
              d \notin unsettled \cup repeated /\ (Agrees(d) => Agrees(d)')
<1>1. \A x \in observations : x.event # None => x \in observations'
  BY AttachedOnes DEF Kept
<1>2. latest' = latest /\ overlapped' = overlapped /\ repeated' = repeated
  BY DEF ConfirmTrackMapping
<1>3. LatestSeen'
  BY <1>1, <1>2, Nulls DEF LatestSeen
<1>4. ASSUME NEW d \in Dates \ (unsettled' \cup repeated')
      PROVE  d \notin unsettled \cup repeated /\ (Agrees(d) => Agrees(d)')
  <2>1. events'[d] = events[d] /\ d \notin unsettled \cup repeated
    BY <1>2, <1>4, MappingEvents DEF Kept
  <2> QED
    BY <1>1, <1>2, <2>1, SupportKept DEF Agrees
<1> QED
  BY <1>3, <1>4

-----------------------------------------------------------------------------
(* Whoever was heard last, an event shows nothing that nobody has given.   *)

IsGiven(d) ==
  events[d] # None /\ events[d].time # NoFact => overlapped \/ Given(d)

LEMMA CommitGiven ==
  ASSUME Kept, NEW r \in Runs, Commit(r), NEW d \in Dates, IsGiven(d)
  PROVE  IsGiven(d)'
<1>1. PICK t \in Reconciliation, after \in Event, draft \in Revision \cup {None} :
        CommitWrites(r, t, after, draft)
  BY CommitGives DEF Kept
<1>2. /\ overlapped' = (overlapped \/ Stale(t))
      /\ observations' = observations \cup {[of |-> t.of, event |-> t.date]}
      /\ after = Reconciled(t, t.of)
  BY <1>1 DEF CommitWrites
<1>3. t.of \in Observation /\ t.event \in Event \cup {None} /\ t.date \in Dates \cup {None}
  BY DEF Reconciliation
<1>4. CASE overlapped \/ Stale(t)
  BY <1>2, <1>4 DEF IsGiven
<1>5. CASE t.date # d
  <2>1. events'[d] = events[d]
    BY <1>1, <1>5 DEF CommitWrites, Kept, CalendarTypeOK
  <2> QED
    BY <1>2, <2>1 DEF IsGiven, Given
<1>6. CASE t.date = d /\ ~(overlapped \/ Stale(t))
  <2>1. t.date # None /\ events[d] = t.event
    BY <1>6, Nulls DEF Stale
  <2>2. events'[d] = after
    <3>1. events' = [events EXCEPT ![t.date] = Over(events[t.date], t.event, after)]
      BY <1>1, <2>1 DEF CommitWrites
    <3> QED
      BY <1>3, <1>6, <2>1, <3>1, OverIsEvent DEF Kept, CalendarTypeOK
  <2>3. [of |-> t.of, event |-> d] \in observations'
    BY <1>2, <1>6
  <2>4. \/ after.time \in {NoFact, t.of.time}
        \/ t.event # None /\ after.time = t.event.time
    BY <1>2, ReconciledIsEvent
  <2>5. CASE after.time \in {NoFact, t.of.time}
    BY <2>2, <2>3, <2>5 DEF IsGiven, Given
  <2>6. CASE t.event # None /\ after.time = t.event.time
    BY <1>2, <1>6, <2>1, <2>2, <2>6 DEF IsGiven, Given
  <2> QED
    BY <2>4, <2>5, <2>6
<1> QED
  BY <1>4, <1>5, <1>6

LEMMA MappingGiven ==
  ASSUME Kept, NEW p \in Providers, ConfirmTrackMapping(p), NEW d \in Dates, IsGiven(d)
  PROVE  IsGiven(d)'
<1>1. \A x \in observations : x.event # None => x \in observations'
  BY AttachedOnes DEF Kept
<1>2. overlapped' = overlapped
  BY DEF ConfirmTrackMapping
<1>3. CASE events'[d] = events[d]
  BY <1>1, <1>2, <1>3, Nulls DEF IsGiven, Given
<1>4. CASE events'[d] # events[d]
  <2> DEFINE event == IF events[d] = None THEN NewEvent ELSE events[d]
  <2>1. PICK time \in FirstTime(Waiting(p, d), event.time) :
          events'[d] = [event EXCEPT !.time = time]
    BY <1>4 DEF ConfirmTrackMapping
  <2>2. event \in Event /\ (event.time # NoFact => event = events[d] /\ events[d] # None)
    BY NewEventIsEvent DEF Kept, CalendarTypeOK, NewEvent
  <2> HIDE DEF event
  <2>3. events'[d].time = time
    BY <2>1, <2>2 DEF Event
  <2>4. CASE time = event.time
    BY <1>1, <1>2, <2>2, <2>3, <2>4, Nulls DEF IsGiven, Given
  <2>5. CASE time # event.time
    <3>1. PICK x \in Waiting(p, d) : x.of.time = time
      BY <2>1, <2>5 DEF FirstTime
    <3>2. /\ x \in observations /\ x.event = None /\ x.of.provider = p /\ x.of.date = d
          /\ x \in [of : Observation, event : Dates \cup {None}]
      BY <3>1 DEF Waiting, Kept, CalendarTypeOK
    <3>3. [x EXCEPT !.event = x.of.date] \in observations'
      BY <3>2 DEF ConfirmTrackMapping, Attached
    <3>4. [x EXCEPT !.event = x.of.date].event = d /\ [x EXCEPT !.event = x.of.date].of = x.of
      BY <3>2
    <3> QED
      BY <2>3, <3>1, <3>3, <3>4 DEF IsGiven, Given
  <2> QED
    BY <2>4, <2>5
<1> QED
  BY <1>3, <1>4

AgreeInv ==
  /\ Kept /\ LatestSeen
  /\ \A d \in Dates \ (unsettled \cup repeated) : Agrees(d)
  /\ \A d \in Dates : IsGiven(d)

LEMMA AgreeStep ==
  ASSUME AgreeInv, [Next]_vars
  PROVE  AgreeInv'
<1>0. /\ Kept /\ Kept' /\ LatestSeen
      /\ \A d \in Dates \ (unsettled \cup repeated) : Agrees(d)
      /\ \A d \in Dates : IsGiven(d)
  BY KeptStep DEF AgreeInv
<1>1. CASE UNCHANGED <<observations, events, latest, unsettled, repeated, overlapped>>
  BY <1>0, <1>1 DEF AgreeInv, LatestSeen, Agrees, Supported, IsGiven, Given
<1>2. ASSUME NEW r \in Runs, Commit(r)
      PROVE  AgreeInv'
  <2>1. \A d \in Dates \ (unsettled' \cup repeated') : Agrees(d)'
    BY <1>0, <1>2, CommitAgrees
  <2> QED
    BY <1>0, <1>2, <2>1, CommitSeen, CommitGiven DEF AgreeInv
<1>3. ASSUME NEW r \in Runs, NEW o \in Observation, Observe(r, o)
      PROVE  AgreeInv'
  <2>1. CASE Read(r, o)
    BY <1>1, <2>1 DEF Read
  <2>2. CASE IgnoreDuplicate(o)
    <3>1. UNCHANGED <<observations, events, overlapped>>
      BY <2>2 DEF IgnoreDuplicate
    <3>2. \A d \in Dates : IsGiven(d)'
      BY <1>0, <3>1 DEF IsGiven, Given
    <3> QED
      BY <1>0, <2>2, <3>2, DuplicateAgrees DEF AgreeInv
  <2> QED
    BY <1>3, <2>1, <2>2 DEF Observe
<1>4. ASSUME NEW p \in Providers, ConfirmTrackMapping(p)
      PROVE  AgreeInv'
  BY <1>0, <1>4, MappingAgrees, MappingGiven DEF AgreeInv
<1>5. ASSUME NEW d \in Dates,
             AdoptExternalEvent(d) \/ Publish(d) \/ ApplyLatestProgramme(d)
               \/ DeleteNeverPublished(d) \/ \E time \in Times : SaveDraft(d, time)
      PROVE  AgreeInv'
  <2>1. UNCHANGED <<observations, events, latest, unsettled, repeated, overlapped>>
    BY <1>0, <1>5, ManagersWrite DEF Kept, WorkHasEvent, ManagerWrites
  <2> QED
    BY <1>1, <2>1
<1>6. ASSUME NEW r \in Runs, Rollback(r)
      PROVE  AgreeInv'
  BY <1>1, <1>6 DEF Rollback
<1>7. CASE UNCHANGED vars
  BY <1>1, <1>7 DEF vars
<1> QED
  BY <1>2, <1>3, <1>4, <1>5, <1>6, <1>7, Steps

\* An event shows a time that some provider still gives, for any number of
\* providers and overlapping reconciliations; where a mapping attached what
\* disagrees, or a provider returned to what it had given before (`repeated`,
\* service.py:131), one that was given; but for reconciliations that wrote over
\* what they had not read.
THEOREM SourceAlwaysAgrees == Spec => []SourceAgrees
<1>1. Init => AgreeInv
  BY KeptInit DEF Init, AgreeInv, LatestSeen, Agrees, IsGiven
<1>2. AgreeInv /\ [Next]_vars => AgreeInv'
  BY AgreeStep
<1>3. AgreeInv => SourceAgrees
  BY DEF AgreeInv, SourceAgrees, Agrees, IsGiven
<1> QED
  BY <1>1, <1>2, <1>3, PTL DEF Spec

-----------------------------------------------------------------------------
(* The map of a Track.                                                     *)

Before(read) == IF read = Nothing THEN NewRow ELSE read

MapsTypeOK ==
  /\ row \in Row \cup {Nothing}
  /\ disk \in [Kinds -> Sizes \cup {Nothing}]
  /\ change \in [Workers -> Change \cup {Nothing}]
  /\ torn \subseteq Kinds

\* Workers of one kind that overlap know of it, and so does `torn`.
Overlaps ==
  \A w \in Workers : change[w] # Nothing =>
    /\ ~change[w].alone => change[w].kind \in torn
    /\ change[w].alone =>
         \A v \in Workers \ {w} : change[v] # Nothing => change[v].kind # change[w].kind

\* The row is never deleted, and a worker writes only its own kind of map.
Reads ==
  \A w \in Workers : change[w] # Nothing =>
    /\ change[w].read # Nothing => row # Nothing
    /\ change[w].after # Nothing =>
         \A k \in Kinds \ {change[w].kind} : change[w].after[k] = Before(change[w].read)[k]

(* What a worker that nobody overlaps may rely on until it commits: that its *)
(* map's part of the row is as it was read, and what it has done to the file.*)
Uploading(c) ==
  /\ c.wrote /\ c.after.manual = disk.manual /\ disk.manual # Nothing
  /\ row # Nothing => row.manual = Before(c.read).manual
Removing(c) == ~c.wrote /\ row # Nothing /\ row.manual = Nothing
Refreshing(c) ==
  /\ row # Nothing => row.automatic = Before(c.read).automatic
  /\ c.after = Nothing => ~c.wrote
  /\ c.after # Nothing =>
       IF c.wrote THEN c.after.automatic = disk.automatic
       ELSE /\ c.after.automatic = Before(c.read).automatic
            /\ ~c.after.failed => disk.automatic = Before(c.read).automatic

Undisturbed ==
  \A w \in Workers : change[w] # Nothing /\ change[w].alone =>
    IF change[w].kind = "automatic" THEN Refreshing(change[w])
    ELSE IF change[w].after = Nothing THEN Removing(change[w]) ELSE Uploading(change[w])

\* The row is true of the file unless someone has written one and not the other.
Whole ==
  \A kind \in Kinds \ torn :
    (\A w \in Workers : change[w] # Nothing /\ change[w].kind = kind => ~change[w].wrote) =>
      (row # Nothing /\ row[kind] # Nothing => disk[kind] = row[kind])

MapsInv == MapsTypeOK /\ Overlaps /\ Reads /\ Undisturbed /\ Whole

LEMMA NothingElse ==
  /\ Nothing \notin Sizes /\ Nothing \notin Row /\ Nothing \notin Change
  /\ Uploads \subseteq Sizes
BY MapsAssumption

LEMMA BeforeRow ==
  ASSUME NEW read \in Row \cup {Nothing}
  PROVE  Before(read) \in Row
BY DEF Before, NewRow, Row

LEMMA RowReplaced ==
  ASSUME NEW r \in Row, NEW a, NEW f \in BOOLEAN, NEW d \in BOOLEAN
  PROVE  /\ [r EXCEPT !.due = d, !.failed = f] =
              [automatic |-> r.automatic, manual |-> r.manual, failed |-> f, due |-> d]
         /\ [r EXCEPT !.manual = a] =
              [automatic |-> r.automatic, manual |-> a, failed |-> r.failed, due |-> r.due]
         /\ [r EXCEPT !.automatic = a] =
              [automatic |-> a, manual |-> r.manual, failed |-> r.failed, due |-> r.due]
         /\ [r EXCEPT !.due = d] =
              [automatic |-> r.automatic, manual |-> r.manual, failed |-> r.failed, due |-> d]
         /\ [r EXCEPT !.failed = f] =
              [automatic |-> r.automatic, manual |-> r.manual, failed |-> f, due |-> r.due]
<1>1. [r EXCEPT !.due = d, !.failed = f] =
         [automatic |-> r.automatic, manual |-> r.manual, failed |-> f, due |-> d]
  <2>1. [r EXCEPT !.due = d] =
           [automatic |-> r.automatic, manual |-> r.manual, failed |-> r.failed, due |-> d]
    BY DEF Row
  <2>2. [[automatic |-> r.automatic, manual |-> r.manual, failed |-> r.failed, due |-> d]
           EXCEPT !.failed = f] =
         [automatic |-> r.automatic, manual |-> r.manual, failed |-> f, due |-> d]
    OBVIOUS
  <2> QED
    BY <2>1, <2>2, Zenon
<1>2. [r EXCEPT !.manual = a] =
         [automatic |-> r.automatic, manual |-> a, failed |-> r.failed, due |-> r.due]
  BY DEF Row
<1>3. [r EXCEPT !.automatic = a] =
         [automatic |-> a, manual |-> r.manual, failed |-> r.failed, due |-> r.due]
  BY DEF Row
<1>4. [r EXCEPT !.due = d] =
         [automatic |-> r.automatic, manual |-> r.manual, failed |-> r.failed, due |-> d]
  BY DEF Row
<1>5. [r EXCEPT !.failed = f] =
         [automatic |-> r.automatic, manual |-> r.manual, failed |-> f, due |-> r.due]
  BY DEF Row
<1> QED
  BY <1>1, <1>2, <1>3, <1>4, <1>5

LEMMA RowFailed ==
  ASSUME NEW r \in Row, NEW a, NEW m,
         r = [automatic |-> a, manual |-> m, failed |-> FALSE, due |-> FALSE]
  PROVE  [r EXCEPT !.failed = TRUE] =
           [automatic |-> a, manual |-> m, failed |-> TRUE, due |-> FALSE]
<1>1. r.automatic = a /\ r.manual = m /\ r.failed = FALSE /\ r.due = FALSE
  OBVIOUS
<1>2. [r EXCEPT !.failed = TRUE] =
        [automatic |-> r.automatic, manual |-> r.manual, failed |-> TRUE, due |-> r.due]
  BY RowReplaced
<1> QED
  BY <1>1, <1>2

LEMMA RowFound ==
  ASSUME NEW r \in Row, NEW a, NEW m, NEW x,
         r = [automatic |-> a, manual |-> m, failed |-> FALSE, due |-> FALSE]
  PROVE  [r EXCEPT !.automatic = x] =
           [automatic |-> x, manual |-> m, failed |-> FALSE, due |-> FALSE]
<1>1. r.automatic = a /\ r.manual = m /\ r.failed = FALSE /\ r.due = FALSE
  OBVIOUS
<1>2. [r EXCEPT !.automatic = x] =
        [automatic |-> x, manual |-> r.manual, failed |-> r.failed, due |-> r.due]
  BY RowReplaced
<1> QED
  BY <1>1, <1>2

LEMMA ChangeReplaced ==
  ASSUME NEW c \in Change, NEW a, NEW b \in BOOLEAN
  PROVE  /\ [c EXCEPT !.alone = b] = [kind |-> c.kind, read |-> c.read, after |-> c.after,
                                      wrote |-> c.wrote, alone |-> b]
         /\ [c EXCEPT !.after = a] = [kind |-> c.kind, read |-> c.read, after |-> a,
                                      wrote |-> c.wrote, alone |-> c.alone]
         /\ [c EXCEPT !.wrote = b, !.after = a] =
              [kind |-> c.kind, read |-> c.read, after |-> a, wrote |-> b, alone |-> c.alone]
<1>1. [c EXCEPT !.alone = b] = [kind |-> c.kind, read |-> c.read, after |-> c.after,
                                wrote |-> c.wrote, alone |-> b]
  BY DEF Change
<1>2. [c EXCEPT !.after = a] = [kind |-> c.kind, read |-> c.read, after |-> a,
                                wrote |-> c.wrote, alone |-> c.alone]
  BY DEF Change
<1>3. [c EXCEPT !.wrote = b, !.after = a] =
        [kind |-> c.kind, read |-> c.read, after |-> a, wrote |-> b, alone |-> c.alone]
  <2>1. [c EXCEPT !.wrote = b] =
           [kind |-> c.kind, read |-> c.read, after |-> c.after, wrote |-> b, alone |-> c.alone]
    BY DEF Change
  <2>2. [[kind |-> c.kind, read |-> c.read, after |-> c.after, wrote |-> b, alone |-> c.alone]
           EXCEPT !.after = a] =
         [kind |-> c.kind, read |-> c.read, after |-> a, wrote |-> b, alone |-> c.alone]
    OBVIOUS
  <2> QED
    BY <2>1, <2>2, Zenon
<1> QED
  BY <1>1, <1>2, <1>3

-----------------------------------------------------------------------------
(* The steps.                                                              *)

MapAct(w) ==
  \/ RefreshBegin(w) \/ RefreshAutomaticMap(w) \/ MapCommit(w) \/ MapRollback(w)
  \/ ResetManualMap(w) \/ Unlink(w) \/ \E size \in Uploads : SaveManualMap(w, size)

LEMMA MapSteps ==
  ASSUME [SchedulerNext]_schedulerVars
  PROVE  UNCHANGED mapVars \/ CheckAgain \/ \E w \in Workers : MapAct(w)
<1> USE SchedulerAssumption
<1>1. ASSUME NEW s \in Schedulers, Tick(s)
      PROVE  UNCHANGED mapVars \/ CheckAgain \/ \E w \in Workers : MapAct(w)
  <2>1. s \in Workers
    OBVIOUS
  <2>2. CASE TickBegin(s) \/ SourceBegun(s) \/ SourceRefused(s) \/ FetchedOK(s) \/ FetchFailed(s)
             \/ RefreshContractors(s)
    BY <2>2 DEF TickBegin, SourceBegun, SourceRefused, FetchedOK, FetchFailed, RefreshContractors
  <2>3. CASE MapStage(s)
    BY <2>1, <2>3 DEF MapStage, MapAct
  <2>4. CASE MapRefused(s)
    BY <2>1, <2>4 DEF MapRefused, MapAct
  <2> QED
    BY <1>1, <2>2, <2>3, <2>4 DEF Tick
<1>2. ASSUME NEW w \in Workers, Crash(w)
      PROVE  \E v \in Workers : MapAct(v)
  BY <1>2 DEF Crash, MapAct
<1>3. ASSUME NEW r \in Requests, \/ RequestMap(r) \/ ContinueMap(r) \/ FetchedOK(r) \/ FetchFailed(r)
                                 \/ \E p \in Visited : RefreshSource(r, p)
      PROVE  UNCHANGED mapVars \/ CheckAgain \/ \E w \in Workers : MapAct(w)
  <2>1. r \in Workers
    OBVIOUS
  <2>2. CASE RequestMap(r)
    BY <2>1, <2>2 DEF RequestMap, MapAct
  <2>3. CASE ContinueMap(r)
    BY <2>1, <2>3 DEF ContinueMap, MapAct
  <2>4. CASE FetchedOK(r) \/ FetchFailed(r) \/ \E p \in Visited : RefreshSource(r, p)
    BY <2>4 DEF FetchedOK, FetchFailed, RefreshSource
  <2> QED
    BY <1>3, <2>2, <2>3, <2>4
<1>4. ASSUME NEW p \in Visited, ToggleProvider(p) \/ Older(p) \/ DueAgain(p)
      PROVE  UNCHANGED mapVars
  BY <1>4 DEF ToggleProvider, Older, DueAgain
<1>5. CASE MapDueAgain
  BY <1>5 DEF MapDueAgain
<1>6. CASE UNCHANGED schedulerVars
  BY <1>6 DEF schedulerVars
<1> QED
  BY <1>1, <1>2, <1>3, <1>4, <1>5, <1>6 DEF SchedulerNext

\* A worker begins: those of its kind that it overlaps are no longer alone.
LEMMA BeganGives ==
  ASSUME MapsTypeOK, Overlaps, NEW w \in Workers, NEW kind \in Kinds,
         NEW after \in Row \cup {Nothing}, NEW wrote \in BOOLEAN,
         change[w] = Nothing, Began(w, kind, after, wrote)
  PROVE  /\ change' \in [Workers -> Change \cup {Nothing}] /\ change'[w] # Nothing
         /\ torn \subseteq torn' /\ torn' \subseteq Kinds
         /\ change'[w] = [kind |-> kind, read |-> row, after |-> after, wrote |-> wrote,
                          alone |-> Others(w, kind) = {}]
         /\ \A v \in Workers \ {w} :
              /\ change[v] = Nothing => change'[v] = Nothing
              /\ change[v] # Nothing =>
                   /\ change'[v] # Nothing
                   /\ change'[v].kind = change[v].kind /\ change'[v].read = change[v].read
                   /\ change'[v].after = change[v].after /\ change'[v].wrote = change[v].wrote
                   /\ change'[v].alone => change[v].alone /\ change[v].kind # kind
         /\ Overlaps'
<1> DEFINE alone == Others(w, kind) = {}
           begun == [kind |-> kind, read |-> row, after |-> after, wrote |-> wrote, alone |-> alone]
<1>1. begun \in Change
  BY DEF MapsTypeOK, Change
<1>2. \A v \in Workers : v # w /\ v \notin Others(w, kind) => change'[v] = change[v]
  BY DEF Began
<1>3. change'[w] = begun
  BY DEF Began
<1>4. \A v \in Others(w, kind) :
        /\ v \in Workers /\ v # w /\ change[v] \in Change /\ change[v].kind = kind
        /\ change'[v] = [kind |-> change[v].kind, read |-> change[v].read, after |-> change[v].after,
                         wrote |-> change[v].wrote, alone |-> FALSE]
  <2> SUFFICES ASSUME NEW v \in Others(w, kind)
               PROVE  /\ v \in Workers /\ v # w /\ change[v] \in Change /\ change[v].kind = kind
                      /\ change'[v] = [kind |-> change[v].kind, read |-> change[v].read,
                                       after |-> change[v].after, wrote |-> change[v].wrote,
                                       alone |-> FALSE]
    OBVIOUS
  <2>1. v \in Workers /\ v # w /\ change[v] \in Change /\ change[v].kind = kind
    BY DEF Others, MapsTypeOK
  <2>2. change'[v] = [change[v] EXCEPT !.alone = FALSE]
    BY <2>1 DEF Began
  <2> QED
    <3>1. [change[v] EXCEPT !.alone = FALSE] =
            [kind |-> change[v].kind, read |-> change[v].read, after |-> change[v].after,
             wrote |-> change[v].wrote, alone |-> FALSE]
      BY <2>1, ChangeReplaced
    <3> QED
      BY <2>1, <2>2, <3>1
<1>5. \A v \in Workers : change'[v] \in Change \cup {Nothing}
  <2> SUFFICES ASSUME NEW v \in Workers PROVE change'[v] \in Change \cup {Nothing}
    OBVIOUS
  <2>1. CASE v = w
    BY <1>1, <1>3, <2>1
  <2>2. CASE v \in Others(w, kind)
    <3>1. change[v] \in Change
      BY <1>4, <2>2
    <3>2. change'[v] = [kind |-> change[v].kind, read |-> change[v].read, after |-> change[v].after,
                        wrote |-> change[v].wrote, alone |-> FALSE]
      BY <1>4, <2>2
    <3> QED
      BY <3>1, <3>2 DEF Change
  <2>3. CASE v # w /\ v \notin Others(w, kind)
    BY <1>2, <2>3 DEF MapsTypeOK
  <2> QED
    BY <2>1, <2>2, <2>3
<1>6. change' \in [Workers -> Change \cup {Nothing}]
  BY <1>5 DEF Began
<1>7. torn \subseteq torn' /\ torn' \subseteq Kinds /\ (~alone => kind \in torn')
  BY DEF Began, MapsTypeOK
<1>8. \A v \in Workers \ {w} :
         /\ change[v] = Nothing => change'[v] = Nothing
         /\ change[v] # Nothing =>
              /\ change'[v] # Nothing
              /\ change'[v].kind = change[v].kind /\ change'[v].read = change[v].read
              /\ change'[v].after = change[v].after /\ change'[v].wrote = change[v].wrote
              /\ change'[v].alone => change[v].alone /\ change[v].kind # kind
              /\ ~change'[v].alone => ~change[v].alone \/ (change[v].kind = kind /\ ~alone)
  <2> SUFFICES ASSUME NEW v \in Workers, v # w
               PROVE  /\ change[v] = Nothing => change'[v] = Nothing
                      /\ change[v] # Nothing =>
                           /\ change'[v] # Nothing
                           /\ change'[v].kind = change[v].kind /\ change'[v].read = change[v].read
                           /\ change'[v].after = change[v].after /\ change'[v].wrote = change[v].wrote
                           /\ change'[v].alone => change[v].alone /\ change[v].kind # kind
                           /\ ~change'[v].alone => ~change[v].alone \/ (change[v].kind = kind /\ ~alone)
    OBVIOUS
  <2>1. CASE v \in Others(w, kind)
    <3>1. change[v] \in Change /\ change[v].kind = kind
      BY <1>4, <2>1
    <3>2. change'[v] = [kind |-> change[v].kind, read |-> change[v].read, after |-> change[v].after,
                        wrote |-> change[v].wrote, alone |-> FALSE]
      BY <1>4, <2>1
    <3>3. change'[v] \in Change
      BY <3>1, <3>2 DEF Change
    <3>4. change[v] # Nothing /\ change'[v] # Nothing
      BY <3>1, <3>3, NothingElse
    <3>5. ~alone
      BY <2>1
    <3> HIDE DEF alone
    <3> QED
      BY <3>1, <3>2, <3>4, <3>5
  <2>2. CASE v \notin Others(w, kind)
    BY <1>2, <2>2 DEF Others
  <2> QED
    BY <2>1, <2>2
<1>9. Overlaps'
  <2> SUFFICES ASSUME NEW v \in Workers, change'[v] # Nothing
               PROVE  /\ ~change'[v].alone => change'[v].kind \in torn'
                      /\ change'[v].alone =>
                           \A x \in Workers \ {v} : change'[x] # Nothing => change'[x].kind # change'[v].kind
    BY DEF Overlaps
  <2>1. CASE v = w
    <3>0. change'[v].kind = kind /\ change'[v].alone = alone
      BY <1>3, <2>1
    <3> HIDE DEF alone
    <3>1. CASE alone
      <4>1. \A x \in Workers \ {w} : change'[x] # Nothing => change'[x].kind # kind
        BY <1>8, <3>1 DEF Others, alone
      <4> QED
        BY <2>1, <3>0, <3>1, <4>1
    <3>2. CASE ~alone
      BY <1>7, <2>1, <3>0, <3>2
    <3> QED
      BY <3>1, <3>2
  <2>2. CASE v # w
    <3>1. change[v] # Nothing
      BY <1>8, <2>2
    <3>2. CASE change'[v].alone
      <4>1. change[v].alone /\ change[v].kind # kind /\ change'[v].kind = change[v].kind
        BY <1>8, <2>2, <3>1, <3>2
      <4>2. \A x \in Workers \ {v} : change[x] # Nothing => change[x].kind # change[v].kind
        BY <3>1, <4>1 DEF Overlaps
      <4>3. \A x \in Workers \ {v} : change'[x] # Nothing => change'[x].kind # change[v].kind
        BY <1>3, <1>8, <4>1, <4>2
      <4> QED
        BY <3>2, <4>1, <4>3
    <3>3. CASE ~change'[v].alone
      <4>1. change'[v].kind = change[v].kind
        BY <1>8, <2>2, <3>1
      <4>2. ~change[v].alone \/ (change[v].kind = kind /\ ~alone)
        BY <1>8, <2>2, <3>1, <3>3
      <4> QED
        BY <1>7, <3>1, <3>3, <4>1, <4>2 DEF Overlaps
    <3> QED
      BY <3>2, <3>3
  <2> QED
    BY <2>1, <2>2
<1>10. begun # Nothing
  BY <1>1, NothingElse
<1> QED
  BY <1>3, <1>6, <1>7, <1>8, <1>9, <1>10

\* A worker ends: the others go on.
LEMMA EndedGives ==
  ASSUME MapsTypeOK, Overlaps, NEW w \in Workers, change' = [change EXCEPT ![w] = Nothing],
         torn' \in SUBSET Kinds,
         \A v \in Workers \ {w} : change[v] # Nothing /\ change[v].kind \in torn
                                    => change[v].kind \in torn' \/ change[v].alone
  PROVE  /\ change' \in [Workers -> Change \cup {Nothing}]
         /\ change'[w] = Nothing /\ \A v \in Workers \ {w} : change'[v] = change[v]
         /\ Overlaps'
<1>1. /\ change' \in [Workers -> Change \cup {Nothing}]
      /\ change'[w] = Nothing /\ \A v \in Workers \ {w} : change'[v] = change[v]
  BY DEF MapsTypeOK
<1>2. ASSUME NEW v \in Workers, change'[v] # Nothing
      PROVE  /\ ~change'[v].alone => change'[v].kind \in torn'
             /\ change'[v].alone =>
                  \A x \in Workers \ {v} : change'[x] # Nothing => change'[x].kind # change'[v].kind
  <2>1. v # w /\ change'[v] = change[v] /\ change[v] # Nothing
    BY <1>1, <1>2
  <2> QED
    BY <1>1, <2>1 DEF Overlaps
<1> QED
  BY <1>1, <1>2 DEF Overlaps

LEMMA RefreshBegun ==
  ASSUME MapsInv, NEW w \in Workers, RefreshBegin(w)
  PROVE  MapsInv'
<1> USE DEF MapsInv
<1>0. /\ change[w] = Nothing /\ row' = row /\ disk' = disk
      /\ Began(w, "automatic", Nothing, FALSE)
  BY DEF RefreshBegin
<1>1. /\ change' \in [Workers -> Change \cup {Nothing}] /\ change'[w] # Nothing
      /\ torn \subseteq torn' /\ torn' \subseteq Kinds
      /\ change'[w] = [kind |-> "automatic", read |-> row, after |-> Nothing, wrote |-> FALSE,
                       alone |-> Others(w, "automatic") = {}]
      /\ \A v \in Workers \ {w} :
           /\ change[v] = Nothing => change'[v] = Nothing
           /\ change[v] # Nothing =>
                /\ change'[v] # Nothing
                /\ change'[v].kind = change[v].kind /\ change'[v].read = change[v].read
                /\ change'[v].after = change[v].after /\ change'[v].wrote = change[v].wrote
                /\ change'[v].alone => change[v].alone /\ change[v].kind # "automatic"
      /\ Overlaps'
  BY <1>0, BeganGives DEF Kinds
<1>2. MapsTypeOK'
  BY <1>0, <1>1 DEF MapsTypeOK
<1>3. Reads'
  BY <1>0, <1>1 DEF Reads
<1>4. Undisturbed'
  BY <1>0, <1>1 DEF Undisturbed, Refreshing, Removing, Uploading, Before
<1>5. Whole'
  BY <1>0, <1>1 DEF Whole
<1> QED
  BY <1>1, <1>2, <1>3, <1>4, <1>5

LEMMA MapSaved ==
  ASSUME MapsInv, NEW w \in Workers, NEW size \in Uploads, SaveManualMap(w, size)
  PROVE  MapsInv'
<1> USE DEF MapsInv
<1> DEFINE after == [automatic |-> Before(row).automatic, manual |-> size,
                     failed |-> Before(row).failed, due |-> Before(row).due]
<1>0. /\ change[w] = Nothing /\ row' = row /\ disk' = [disk EXCEPT !.manual = size]
      /\ size \in Sizes /\ size # Nothing
  BY NothingElse DEF SaveManualMap
<1>1. Before(row) \in Row /\ after \in Row /\ after # Nothing
  BY <1>0, BeforeRow, NothingElse DEF MapsTypeOK, Row
<1>2. [Before(row) EXCEPT !.manual = size] = after
  BY <1>1, RowReplaced
<1>3. Began(w, "manual", after, TRUE)
  BY <1>2 DEF SaveManualMap, Before
<1> HIDE DEF after
<1>4. /\ change' \in [Workers -> Change \cup {Nothing}] /\ change'[w] # Nothing
      /\ torn \subseteq torn' /\ torn' \subseteq Kinds
      /\ change'[w] = [kind |-> "manual", read |-> row, after |-> after, wrote |-> TRUE,
                       alone |-> Others(w, "manual") = {}]
      /\ \A v \in Workers \ {w} :
           /\ change[v] = Nothing => change'[v] = Nothing
           /\ change[v] # Nothing =>
                /\ change'[v] # Nothing
                /\ change'[v].kind = change[v].kind /\ change'[v].read = change[v].read
                /\ change'[v].after = change[v].after /\ change'[v].wrote = change[v].wrote
                /\ change'[v].alone => change[v].alone /\ change[v].kind # "manual"
      /\ Overlaps'
  BY <1>0, <1>1, <1>3, BeganGives DEF Kinds
<1>5. /\ disk' \in [Kinds -> Sizes \cup {Nothing}]
      /\ disk'["manual"] = size /\ disk'["automatic"] = disk["automatic"]
  BY <1>0 DEF MapsTypeOK, Kinds
<1>6. after.manual = size /\ after.automatic = Before(row).automatic
  BY DEF after
<1>7. MapsTypeOK'
  BY <1>0, <1>4, <1>5 DEF MapsTypeOK
<1>8. Reads'
  BY <1>0, <1>4, <1>6 DEF Reads, Kinds
<1>9. Undisturbed'
  <2> SUFFICES ASSUME NEW v \in Workers, change'[v] # Nothing, change'[v].alone
               PROVE  IF change'[v].kind = "automatic" THEN Refreshing(change[v])'
                      ELSE IF change'[v].after = Nothing THEN Removing(change[v])'
                      ELSE Uploading(change[v])'
    BY DEF Undisturbed
  <2>1. CASE v = w
    BY <1>0, <1>1, <1>4, <1>5, <1>6, <2>1 DEF Uploading, Before
  <2>2. CASE v # w
    <3>1. /\ change[v] \in Change /\ change[v].alone /\ change[v].kind = "automatic"
          /\ change[v] # Nothing
      BY <1>4, <2>2 DEF MapsTypeOK, Change, Kinds
    <3>2. Refreshing(change[v])
      BY <3>1 DEF Undisturbed
    <3> QED
      BY <1>0, <1>4, <1>5, <2>2, <3>1, <3>2 DEF Refreshing, Before
  <2> QED
    BY <2>1, <2>2
<1>10. Whole'
  <2> SUFFICES ASSUME NEW kind \in Kinds, kind \notin torn',
                      \A v \in Workers : change'[v] # Nothing /\ change'[v].kind = kind
                                          => ~change'[v].wrote,
                      row # Nothing, row[kind] # Nothing
               PROVE  disk'[kind] = row[kind]
    BY <1>0 DEF Whole
  <2>1. kind = "automatic"
    BY <1>4 DEF Kinds
  <2> QED
    BY <1>0, <1>4, <1>5, <2>1 DEF Whole
<1> QED
  BY <1>4, <1>7, <1>8, <1>9, <1>10

LEMMA MapReset ==
  ASSUME MapsInv, NEW w \in Workers, ResetManualMap(w)
  PROVE  MapsInv'
<1> USE DEF MapsInv
<1>0. /\ change[w] = Nothing /\ row \in Row /\ row # Nothing /\ row.manual # Nothing
      /\ row' = [row EXCEPT !.manual = Nothing] /\ disk' = disk
  BY DEF ResetManualMap, MapsTypeOK
<1>1. /\ row' \in Row /\ row' # Nothing /\ row'.manual = Nothing
      /\ row'.automatic = row.automatic
  BY <1>0, RowReplaced, NothingElse DEF Row
<1>2. CASE disk.manual # Nothing
  <2>1. Began(w, "manual", Nothing, FALSE)
    BY <1>2 DEF ResetManualMap
  <2>2. /\ change' \in [Workers -> Change \cup {Nothing}] /\ change'[w] # Nothing
        /\ torn \subseteq torn' /\ torn' \subseteq Kinds
        /\ change'[w] = [kind |-> "manual", read |-> row, after |-> Nothing, wrote |-> FALSE,
                         alone |-> Others(w, "manual") = {}]
        /\ \A v \in Workers \ {w} :
             /\ change[v] = Nothing => change'[v] = Nothing
             /\ change[v] # Nothing =>
                  /\ change'[v] # Nothing
                  /\ change'[v].kind = change[v].kind /\ change'[v].read = change[v].read
                  /\ change'[v].after = change[v].after /\ change'[v].wrote = change[v].wrote
                  /\ change'[v].alone => change[v].alone /\ change[v].kind # "manual"
        /\ Overlaps'
    BY <1>0, <2>1, BeganGives DEF Kinds
  <2>3. MapsTypeOK'
    BY <1>0, <1>1, <2>2 DEF MapsTypeOK
  <2>4. Reads'
    BY <1>0, <1>1, <2>2 DEF Reads
  <2>5. Undisturbed'
    <3> SUFFICES ASSUME NEW v \in Workers, change'[v] # Nothing, change'[v].alone
                 PROVE  IF change'[v].kind = "automatic" THEN Refreshing(change[v])'
                        ELSE IF change'[v].after = Nothing THEN Removing(change[v])'
                        ELSE Uploading(change[v])'
      BY DEF Undisturbed
    <3>1. CASE v = w
      BY <1>1, <2>2, <3>1 DEF Removing
    <3>2. CASE v # w
      <4>1. /\ change[v] \in Change /\ change[v].alone /\ change[v].kind = "automatic"
            /\ change[v] # Nothing
        BY <2>2, <3>2 DEF MapsTypeOK, Change, Kinds
      <4>2. Refreshing(change[v])
        BY <4>1 DEF Undisturbed
      <4> QED
        BY <1>0, <1>1, <2>2, <3>2, <4>1, <4>2 DEF Refreshing, Before
    <3> QED
      BY <3>1, <3>2
  <2>6. Whole'
    <3> SUFFICES ASSUME NEW kind \in Kinds, kind \notin torn',
                        \A v \in Workers : change'[v] # Nothing /\ change'[v].kind = kind
                                            => ~change'[v].wrote,
                        row'[kind] # Nothing
                 PROVE  disk[kind] = row'[kind]
      BY <1>0 DEF Whole
    <3>1. kind = "automatic"
      BY <1>1 DEF Kinds
    <3> QED
      BY <1>0, <1>1, <2>2, <3>1 DEF Whole
  <2>7. Overlaps'
    BY <2>2
  <2> QED
    BY <2>3, <2>4, <2>5, <2>6, <2>7
<1>3. CASE disk.manual = Nothing
  <2>1. change' = change /\ torn' = torn
    BY <1>3 DEF ResetManualMap
  <2>2. MapsTypeOK'
    BY <1>0, <1>1, <2>1 DEF MapsTypeOK
  <2>3. Overlaps' /\ Reads'
    BY <1>0, <1>1, <2>1 DEF Overlaps, Reads
  <2>4. Undisturbed'
    BY <1>0, <1>1, <1>3, <2>1 DEF Undisturbed, Refreshing, Removing, Uploading, Before
  <2>5. Whole'
    <3> SUFFICES ASSUME NEW kind \in Kinds, kind \notin torn,
                        \A v \in Workers : change[v] # Nothing /\ change[v].kind = kind
                                            => ~change[v].wrote,
                        row'[kind] # Nothing
                 PROVE  disk[kind] = row'[kind]
      BY <1>0, <2>1 DEF Whole
    <3>1. kind = "automatic"
      BY <1>1 DEF Kinds
    <3> QED
      BY <1>0, <1>1, <3>1 DEF Whole
  <2> QED
    BY <2>2, <2>3, <2>4, <2>5
<1> QED
  BY <1>2, <1>3

LEMMA MapChecked ==
  ASSUME MapsInv, CheckAgain
  PROVE  MapsInv'
<1> USE DEF MapsInv
<1>1. /\ row \in Row /\ row # Nothing /\ row' = [row EXCEPT !.due = TRUE]
      /\ UNCHANGED <<disk, change, torn>>
  BY DEF CheckAgain, MapsTypeOK
<1>2. /\ row' \in Row /\ row' # Nothing
      /\ row'["automatic"] = row["automatic"] /\ row'["manual"] = row["manual"]
  BY <1>1, RowReplaced, NothingElse DEF Row
<1>3. MapsTypeOK' /\ Overlaps' /\ Reads'
  BY <1>1, <1>2 DEF MapsTypeOK, Overlaps, Reads
<1>4. Undisturbed'
  BY <1>1, <1>2 DEF Undisturbed, Refreshing, Removing, Uploading
<1>5. Whole'
  BY <1>1, <1>2 DEF Whole, Kinds
<1> QED
  BY <1>3, <1>4, <1>5

LEMMA MapUnlinked ==
  ASSUME MapsInv, NEW w \in Workers, Unlink(w)
  PROVE  MapsInv'
<1> USE DEF MapsInv
<1>0. /\ change[w] # Nothing /\ change[w] \in Change
      /\ change[w].kind = "manual" /\ change[w].after = Nothing
      /\ disk' = [disk EXCEPT !.manual = Nothing] /\ change' = [change EXCEPT ![w] = Nothing]
      /\ row' = row /\ torn' = torn
  BY DEF Unlink, MapsTypeOK
<1>1. /\ change' \in [Workers -> Change \cup {Nothing}]
      /\ change'[w] = Nothing /\ \A v \in Workers \ {w} : change'[v] = change[v]
      /\ Overlaps'
  BY <1>0, EndedGives DEF MapsTypeOK
<1>2. /\ disk' \in [Kinds -> Sizes \cup {Nothing}]
      /\ disk'["automatic"] = disk["automatic"]
  BY <1>0 DEF MapsTypeOK, Kinds
<1>3. MapsTypeOK' /\ Reads'
  BY <1>0, <1>1, <1>2 DEF MapsTypeOK, Reads
<1>4. ASSUME NEW v \in Workers \ {w}, change[v] # Nothing, change[v].alone
      PROVE  change[v].kind = "automatic"
  BY <1>0, <1>4 DEF Overlaps, MapsTypeOK, Change, Kinds
<1>5. Undisturbed'
  BY <1>0, <1>1, <1>2, <1>4 DEF Undisturbed, Refreshing
<1>6. Whole'
  <2> SUFFICES ASSUME NEW kind \in Kinds, kind \notin torn, row # Nothing, row[kind] # Nothing,
                      \A v \in Workers : change'[v] # Nothing /\ change'[v].kind = kind
                                          => ~change'[v].wrote
               PROVE  disk'[kind] = row[kind]
    BY <1>0 DEF Whole
  <2>1. kind # "manual"
    <3>1. SUFFICES ASSUME kind = "manual" PROVE FALSE
      OBVIOUS
    <3>2. change[w].alone
      BY <1>0, <3>1 DEF Overlaps
    <3> QED
      BY <1>0, <3>1, <3>2 DEF Undisturbed, Removing
  <2> QED
    BY <1>0, <1>1, <1>2, <2>1 DEF Whole, Kinds
<1> QED
  BY <1>1, <1>3, <1>5, <1>6

LEMMA MapRolledBack ==
  ASSUME MapsInv, NEW w \in Workers, MapRollback(w)
  PROVE  MapsInv'
<1> USE DEF MapsInv
<1>0. /\ change' = [change EXCEPT ![w] = Nothing] /\ row' = row /\ disk' = disk
      /\ torn \subseteq torn' /\ torn' \subseteq Kinds
      /\ change[w] # Nothing /\ change[w].wrote => change[w].kind \in torn'
  BY DEF MapRollback, MapsTypeOK, Change
<1>1. /\ change' \in [Workers -> Change \cup {Nothing}]
      /\ change'[w] = Nothing /\ \A v \in Workers \ {w} : change'[v] = change[v]
      /\ Overlaps'
  BY <1>0, EndedGives
<1>2. MapsTypeOK' /\ Reads'
  BY <1>0, <1>1 DEF MapsTypeOK, Reads
<1>3. Undisturbed'
  BY <1>0, <1>1 DEF Undisturbed, Refreshing, Removing, Uploading
<1>4. Whole'
  BY <1>0, <1>1 DEF Whole
<1> QED
  BY <1>1, <1>2, <1>3, <1>4

\* A check of the source ends: with an image that is written, or with the old one.
LEMMA MapUpdated ==
  ASSUME MapsInv, NEW w \in Workers,
         change[w] # Nothing, change[w].kind = "automatic", change[w].after = Nothing,
         row' = row, torn' = torn,
         NEW size \in Sizes \cup {Nothing}, NEW failed \in BOOLEAN,
         NEW now \in BOOLEAN, NEW wrote \in BOOLEAN, wrote = (change[w].wrote \/ now),
         change' = [change EXCEPT ![w] =
           [kind |-> change[w].kind, read |-> change[w].read,
            after |-> [automatic |-> size, manual |-> Before(change[w].read).manual,
                       failed |-> failed, due |-> FALSE],
            wrote |-> wrote, alone |-> change[w].alone]],
         disk' = IF now THEN [disk EXCEPT !.automatic = size] ELSE disk,
         ~now => /\ size = Before(change[w].read).automatic
                 /\ ~failed => disk.automatic = size
  PROVE  MapsInv'
<1> USE DEF MapsInv
<1> DEFINE after == [automatic |-> size, manual |-> Before(change[w].read).manual,
                     failed |-> failed, due |-> FALSE]
           c == [kind |-> change[w].kind, read |-> change[w].read, after |-> after,
                 wrote |-> wrote, alone |-> change[w].alone]
<1>1. change[w] \in Change /\ Before(change[w].read) \in Row
  BY BeforeRow DEF MapsTypeOK, Change
<1>2. after \in Row /\ after # Nothing
  <2>1. Before(change[w].read).manual \in Sizes \cup {Nothing}
    BY <1>1 DEF Row
  <2>2. after \in Row
    BY <2>1 DEF Row
  <2> HIDE DEF after
  <2> QED
    BY <2>2, NothingElse
<1>3. /\ after.automatic = size /\ after.manual = Before(change[w].read).manual
      /\ after.failed = failed
  OBVIOUS
<1> HIDE DEF after
<1>4. c \in Change /\ c # Nothing
  BY <1>1, <1>2, NothingElse DEF Change
<1>5. /\ change' \in [Workers -> Change \cup {Nothing}]
      /\ change'[w] = c /\ \A v \in Workers \ {w} : change'[v] = change[v]
  BY <1>4 DEF MapsTypeOK, after
<1>6. /\ change'[w] # Nothing /\ change'[w].kind = "automatic"
      /\ change'[w].read = change[w].read /\ change'[w].after = after
      /\ change'[w].wrote = (change[w].wrote \/ now) /\ change'[w].alone = change[w].alone
  BY <1>4, <1>5
<1> HIDE DEF c
<1>7. /\ disk' \in [Kinds -> Sizes \cup {Nothing}] /\ disk'["manual"] = disk["manual"]
      /\ now => disk'["automatic"] = size
      /\ ~now => disk'["automatic"] = disk["automatic"]
  BY DEF MapsTypeOK, Kinds
<1>8. MapsTypeOK'
  BY <1>5, <1>7 DEF MapsTypeOK
<1>9. Overlaps'
  BY <1>5, <1>6 DEF Overlaps
<1>10. Reads'
  BY <1>3, <1>5, <1>6 DEF Reads, Kinds
<1>11. Undisturbed'
  <2> SUFFICES ASSUME NEW v \in Workers, change'[v] # Nothing, change'[v].alone
               PROVE  IF change'[v].kind = "automatic" THEN Refreshing(change[v])'
                      ELSE IF change'[v].after = Nothing THEN Removing(change[v])'
                      ELSE Uploading(change[v])'
    BY DEF Undisturbed
  <2>1. CASE v = w
    <3>1. Refreshing(change[w])
      BY <1>6, <2>1 DEF Undisturbed
    <3> QED
      <4>1. change'[w].after # Nothing /\ change[w].after = Nothing /\ row' = row
        BY <1>2, <1>6
      <4>2. ~change[w].wrote
        BY <3>1, <4>1 DEF Refreshing
      <4>3. change'[w].wrote = now
        BY <1>6, <4>2
      <4>4. row' # Nothing => row'.automatic = Before(change'[w].read).automatic
        BY <1>6, <3>1, <4>1 DEF Refreshing
      <4>5. now => change'[w].after.automatic = disk'.automatic
        BY <1>3, <1>6, <1>7
      <4>6. ~now => /\ change'[w].after.automatic = Before(change'[w].read).automatic
                    /\ ~change'[w].after.failed => disk'.automatic = Before(change'[w].read).automatic
        BY <1>3, <1>6, <1>7
      <4> QED
        BY <1>6, <2>1, <4>1, <4>3, <4>4, <4>5, <4>6 DEF Refreshing, Before
  <2>2. CASE v # w
    <3>1. change'[v] = change[v] /\ change[v] \in Change /\ change[v].kind # "automatic"
      <4>1. change'[v] = change[v] /\ change[v] \in Change
        BY <1>5, <2>2 DEF MapsTypeOK
      <4> QED
        BY <2>2, <4>1 DEF Overlaps
    <3>2. /\ change[v].after = Nothing => Removing(change[v])
          /\ change[v].after # Nothing => Uploading(change[v])
      BY <3>1 DEF Undisturbed
    <3> QED
      BY <1>7, <3>1, <3>2 DEF Removing, Uploading
  <2> QED
    BY <2>1, <2>2
<1>12. Whole'
  <2> SUFFICES ASSUME NEW kind \in Kinds, kind \notin torn, row # Nothing, row[kind] # Nothing,
                      \A v \in Workers : change'[v] # Nothing /\ change'[v].kind = kind
                                          => ~change'[v].wrote
               PROVE  disk'[kind] = row[kind]
    BY DEF Whole
  <2>1. \A v \in Workers : change[v] # Nothing /\ change[v].kind = kind => ~change[v].wrote
    BY <1>5, <1>6
  <2>2. kind = "automatic" => ~now
    BY <1>6
  <2> QED
    BY <1>7, <2>1, <2>2 DEF Whole, Kinds
<1> QED
  BY <1>8, <1>9, <1>10, <1>11, <1>12

LEMMA MapRefreshed ==
  ASSUME MapsInv, NEW w \in Workers, RefreshAutomaticMap(w)
  PROVE  MapsInv'
<1> DEFINE c == change[w]
           before == IF c.read = Nothing THEN NewRow ELSE c.read
           checked == [before EXCEPT !.due = FALSE, !.failed = FALSE]
           done(size, failed) == [automatic |-> size, manual |-> Before(c.read).manual,
                                  failed |-> failed, due |-> FALSE]
           after(size, failed, wrote) ==
             [kind |-> c.kind, read |-> c.read, after |-> done(size, failed),
              wrote |-> wrote, alone |-> c.alone]
<1>0. /\ c # Nothing /\ c \in Change /\ c.kind = "automatic" /\ c.after = Nothing
      /\ row' = row /\ torn' = torn
      /\ before = Before(c.read) /\ before \in Row /\ before.automatic \in Sizes \cup {Nothing}
  BY BeforeRow DEF RefreshAutomaticMap, MapsInv, MapsTypeOK, Change, Row, Before
<1>1. checked = done(before.automatic, FALSE) /\ checked \in Row
  BY <1>0, RowReplaced DEF Row
<1>2. [checked EXCEPT !.failed = TRUE] = done(before.automatic, TRUE)
  <2> HIDE DEF checked, before, c
  <2> QED
    BY <1>1, RowFailed
<1>3. ASSUME NEW size \in Sizes
      PROVE  [checked EXCEPT !.automatic = size] = done(size, FALSE)
  <2> HIDE DEF checked, before, c
  <2> QED
    BY <1>1, RowFound
<1>4. CASE /\ change' = [change EXCEPT ![w].after = [checked EXCEPT !.failed = TRUE]]
           /\ UNCHANGED disk
  <2>1. [c EXCEPT !.after = [checked EXCEPT !.failed = TRUE]] = after(before.automatic, TRUE, c.wrote)
    <3>1. [c EXCEPT !.after = done(before.automatic, TRUE)] = after(before.automatic, TRUE, c.wrote)
      <4> HIDE DEF done, before, c
      <4> QED
        BY <1>0, ChangeReplaced
    <3> HIDE DEF checked, before, done, after
    <3> QED
      BY <1>2, <3>1
  <2>2. change' = [change EXCEPT ![w] = after(before.automatic, TRUE, c.wrote)]
    <3> HIDE DEF after, checked
    <3> QED
      BY <1>4, <2>1
  <2>3. c.wrote \in BOOLEAN /\ c.wrote = (c.wrote \/ FALSE)
    BY <1>0 DEF Change
  <2> QED
    BY <1>0, <1>4, <2>2, <2>3, MapUpdated
<1>5. ASSUME NEW size \in Sizes, KeptImage(c.read, size), UNCHANGED disk,
             change' = [change EXCEPT ![w].after = checked]
      PROVE  MapsInv'
  <2>1. [c EXCEPT !.after = checked] = after(before.automatic, FALSE, c.wrote)
    <3>1. [c EXCEPT !.after = done(before.automatic, FALSE)] = after(before.automatic, FALSE, c.wrote)
      <4> HIDE DEF done, before, c
      <4> QED
        BY <1>0, ChangeReplaced
    <3> HIDE DEF checked, before, done, after
    <3> QED
      BY <1>1, <3>1
  <2>2. change' = [change EXCEPT ![w] = after(before.automatic, FALSE, c.wrote)]
    <3> HIDE DEF after, checked
    <3> QED
      BY <1>5, <2>1
  <2>3. disk.automatic = before.automatic
    BY <1>0, <1>5 DEF KeptImage, FullyValidMap, Before
  <2>4. c.wrote \in BOOLEAN /\ c.wrote = (c.wrote \/ FALSE)
    BY <1>0 DEF Change
  <2> QED
    BY <1>0, <1>5, <2>2, <2>3, <2>4, MapUpdated
<1>6. ASSUME NEW size \in Sizes, disk' = [disk EXCEPT !.automatic = size],
             change' = [change EXCEPT ![w].wrote = TRUE,
                                      ![w].after = [checked EXCEPT !.automatic = size]]
      PROVE  MapsInv'
  <2>1. [c EXCEPT !.wrote = TRUE, !.after = [checked EXCEPT !.automatic = size]] =
          after(size, FALSE, TRUE)
    <3>1. [c EXCEPT !.wrote = TRUE, !.after = done(size, FALSE)] = after(size, FALSE, TRUE)
      <4> HIDE DEF done, before, c
      <4> QED
        BY <1>0, ChangeReplaced
    <3> HIDE DEF checked, before, done, after
    <3> QED
      BY <1>3, <3>1
  <2>2. change' = [change EXCEPT ![w] = after(size, FALSE, TRUE)]
    <3> HIDE DEF after, checked
    <3>1. [change EXCEPT ![w].wrote = TRUE, ![w].after = [checked EXCEPT !.automatic = size]] =
            [change EXCEPT ![w] =
               [c EXCEPT !.wrote = TRUE, !.after = [checked EXCEPT !.automatic = size]]]
      BY <1>0 DEF MapsInv, MapsTypeOK
    <3> QED
      BY <1>6, <2>1, <3>1
  <2> QED
    BY <1>0, <1>6, <2>2, MapUpdated
<1> QED
  BY <1>4, <1>5, <1>6 DEF RefreshAutomaticMap

LEMMA OverwrittenRow ==
  ASSUME NEW read \in Row, NEW after \in Row, row \in Row, row # Nothing
  PROVE  /\ Overwritten(read, after) \in Row
         /\ \A k \in Kinds : Overwritten(read, after)[k] =
                               IF after[k] = read[k] THEN row[k] ELSE after[k]
<1> DEFINE pick(f) == IF after[f] = read[f] THEN row[f] ELSE after[f]
<1>1. DOMAIN row = {"automatic", "manual", "failed", "due"}
  BY DEF Row
<1>2. Overwritten(read, after) = [f \in {"automatic", "manual", "failed", "due"} |-> pick(f)]
  BY <1>1 DEF Overwritten
<1>3. [f \in {"automatic", "manual", "failed", "due"} |-> pick(f)] =
        [automatic |-> pick("automatic"), manual |-> pick("manual"),
         failed |-> pick("failed"), due |-> pick("due")]
  <2> HIDE DEF pick
  <2> QED
    OBVIOUS
<1>4. /\ pick("automatic") \in Sizes \cup {Nothing} /\ pick("manual") \in Sizes \cup {Nothing}
      /\ pick("failed") \in BOOLEAN /\ pick("due") \in BOOLEAN
  BY DEF Row
<1>5. Overwritten(read, after) \in Row
  <2> HIDE DEF pick
  <2> QED
    BY <1>2, <1>3, <1>4 DEF Row
<1>6. \A k \in Kinds : Overwritten(read, after)[k] = pick(k)
  BY <1>2 DEF Kinds
<1> QED
  BY <1>5, <1>6

\* What a commit leaves in the row of either map.
LEMMA MapCommitGives ==
  ASSUME MapsTypeOK, Reads, NEW w \in Workers, MapCommit(w)
  PROVE  /\ change[w] \in Change /\ change[w] # Nothing
         /\ change[w].after \in Row /\ change[w].after # Nothing
         /\ row = Nothing => change[w].read = Nothing
         /\ row' \in Row /\ row' # Nothing
         /\ \A k \in Kinds :
              row'[k] = IF row # Nothing /\ change[w].after[k] = Before(change[w].read)[k]
                        THEN row[k] ELSE change[w].after[k]
         /\ disk' = disk /\ change' = [change EXCEPT ![w] = Nothing]
         /\ \/ torn' = torn /\ (change[w].alone => change[w].kind = "automatic" /\ change[w].after.failed)
            \/ /\ torn' = torn \ {change[w].kind} /\ change[w].alone
               /\ change[w].kind = "automatic" => ~change[w].after.failed
<1> DEFINE c == change[w]
           written == Overwritten(c.read, c.after)
<1>1. /\ c # Nothing /\ c \in Change /\ c.after # Nothing /\ c.after \in Row
      /\ disk' = disk /\ change' = [change EXCEPT ![w] = Nothing]
      /\ ~(c.read = Nothing /\ row # Nothing)
  BY DEF MapCommit, InsertRefused, MapsTypeOK, Change
<1>2. row = Nothing => c.read = Nothing
  BY <1>1 DEF Reads
<1>3. \/ torn' = torn /\ (c.alone => c.kind = "automatic" /\ c.after.failed)
      \/ torn' = torn \ {c.kind} /\ c.alone /\ (c.kind = "automatic" => ~c.after.failed)
  BY DEF MapCommit
<1>4. /\ written \in Row
      /\ \A k \in Kinds : written[k] = IF row # Nothing /\ c.after[k] = Before(c.read)[k]
                                       THEN row[k] ELSE c.after[k]
  <2>1. CASE row = Nothing
    BY <1>1, <2>1 DEF Overwritten
  <2>2. CASE row # Nothing
    <3>1. c.read \in Row /\ Before(c.read) = c.read /\ row \in Row
      BY <1>1, <2>2 DEF Change, Before, MapsTypeOK
    <3> HIDE DEF c
    <3> QED
      BY <1>1, <2>2, <3>1, OverwrittenRow
  <2> QED
    BY <2>1, <2>2
<1>5. row' = IF c.kind = "automatic" THEN [written EXCEPT !.due = FALSE] ELSE written
  BY DEF MapCommit
<1> HIDE DEF c, written
<1>6. [written EXCEPT !.due = FALSE] = [automatic |-> written.automatic, manual |-> written.manual,
                                        failed |-> written.failed, due |-> FALSE]
  BY <1>4, RowReplaced
<1>7. row' \in Row /\ \A k \in Kinds : row'[k] = written[k]
  <2>1. CASE c.kind = "automatic"
    BY <1>4, <1>5, <1>6, <2>1 DEF Row, Kinds
  <2>2. CASE c.kind # "automatic"
    BY <1>4, <1>5, <2>2
  <2> QED
    BY <2>1, <2>2
<1> QED
  BY <1>1, <1>2, <1>3, <1>4, <1>7, NothingElse DEF c

LEMMA MapCommitted ==
  ASSUME MapsInv, NEW w \in Workers, MapCommit(w)
  PROVE  MapsInv'
<1> USE DEF MapsInv
<1> DEFINE kind == change[w].kind
           before == Before(change[w].read)
           after == change[w].after
<1>1. /\ change[w] \in Change /\ change[w] # Nothing /\ kind \in Kinds
      /\ after \in Row /\ after # Nothing
      /\ row = Nothing => change[w].read = Nothing
      /\ row' \in Row /\ row' # Nothing /\ disk' = disk
      /\ change' = [change EXCEPT ![w] = Nothing]
      /\ \A k \in Kinds : row'[k] = IF row # Nothing /\ after[k] = before[k]
                                    THEN row[k] ELSE after[k]
  BY MapCommitGives DEF Change
<1>2. \/ torn' = torn /\ (change[w].alone => kind = "automatic" /\ after.failed)
      \/ /\ torn' = torn \ {kind} /\ change[w].alone
         /\ kind = "automatic" => ~after.failed
  BY MapCommitGives
<1>3. row = Nothing => before = NewRow
  BY <1>1 DEF Before
<1>4. \A k \in Kinds \ {kind} : row'[k] = IF row # Nothing THEN row[k] ELSE Nothing
  <2>1. \A k \in Kinds \ {kind} : after[k] = before[k]
    BY <1>1 DEF Reads
  <2>2. NewRow["automatic"] = Nothing /\ NewRow["manual"] = Nothing
    BY DEF NewRow
  <2> HIDE DEF after, before
  <2> QED
    BY <1>1, <1>3, <2>1, <2>2 DEF Kinds
<1>5. /\ change' \in [Workers -> Change \cup {Nothing}]
      /\ change'[w] = Nothing /\ \A v \in Workers \ {w} : change'[v] = change[v]
      /\ Overlaps'
  <2>1. torn' \in SUBSET Kinds
    BY <1>2 DEF MapsTypeOK
  <2>2. \A v \in Workers \ {w} : change[v] # Nothing /\ change[v].kind \in torn
                                   => change[v].kind \in torn' \/ change[v].alone
    BY <1>1, <1>2 DEF Overlaps
  <2> QED
    BY <1>1, <2>1, <2>2, EndedGives
<1>6. MapsTypeOK' /\ Reads'
  BY <1>1, <1>2, <1>5 DEF MapsTypeOK, Reads
<1>7. Undisturbed'
  <2> SUFFICES ASSUME NEW v \in Workers, change'[v] # Nothing, change'[v].alone
               PROVE  IF change'[v].kind = "automatic" THEN Refreshing(change[v])'
                      ELSE IF change'[v].after = Nothing THEN Removing(change[v])'
                      ELSE Uploading(change[v])'
    BY DEF Undisturbed
  <2>1. v # w /\ change'[v] = change[v] /\ change[v] # Nothing /\ change[v].alone
    BY <1>5
  <2>2. change[v].kind \in Kinds /\ change[v].kind # kind
    BY <1>1, <2>1 DEF Overlaps, MapsTypeOK, Change
  <2>3. row = Nothing => Before(change[v].read) = NewRow
    BY <2>1 DEF Reads, Before
  <2>4. CASE change[v].kind = "automatic"
    <3>1. Refreshing(change[v])
      BY <2>1, <2>4 DEF Undisturbed
    <3>2. row'.automatic = Before(change[v].read).automatic
      BY <1>4, <2>2, <2>3, <2>4, <3>1 DEF Refreshing, NewRow
    <3> QED
      BY <1>1, <2>1, <2>4, <3>1, <3>2 DEF Refreshing, Before
  <2>5. CASE change[v].kind = "manual"
    <3>1. IF change[v].after = Nothing THEN Removing(change[v]) ELSE Uploading(change[v])
      BY <2>1, <2>5 DEF Undisturbed
    <3>2. row'.manual = IF row # Nothing THEN row.manual ELSE Nothing
      BY <1>4, <2>2, <2>5
    <3>3. CASE change[v].after = Nothing
      BY <1>1, <2>1, <2>5, <3>1, <3>2, <3>3 DEF Removing
    <3>4. CASE change[v].after # Nothing
      <4>1. Before(change[v].read).manual = row'.manual
        BY <2>3, <3>1, <3>2, <3>4 DEF Uploading, NewRow
      <4> QED
        BY <1>1, <2>1, <2>5, <3>1, <3>4, <4>1 DEF Uploading, Before
    <3> QED
      BY <3>3, <3>4
  <2> QED
    BY <2>2, <2>4, <2>5 DEF Kinds
<1>8. Whole'
  <2> SUFFICES ASSUME NEW k \in Kinds, k \notin torn', row'[k] # Nothing,
                      \A v \in Workers : change'[v] # Nothing /\ change'[v].kind = k
                                          => ~change'[v].wrote
               PROVE  disk[k] = row'[k]
    BY <1>1 DEF Whole
  <2>1. CASE k # kind
    <3>1. k \notin torn /\ row # Nothing /\ row'[k] = row[k]
      BY <1>2, <1>4, <2>1
    <3>2. \A v \in Workers : change[v] # Nothing /\ change[v].kind = k => ~change[v].wrote
      BY <1>5, <2>1
    <3> QED
      BY <3>1, <3>2 DEF Whole
  <2>2. CASE k = kind
    <3>1. change[w].alone
      BY <1>1, <1>2, <2>2 DEF Overlaps
    <3>2. CASE kind = "manual"
      <4>1. Uploading(change[w])
        BY <1>1, <3>1, <3>2 DEF Undisturbed
      <4> QED
        BY <1>1, <2>2, <3>2, <4>1 DEF Uploading
    <3>3. CASE kind = "automatic"
      <4>1. Refreshing(change[w])
        BY <1>1, <3>1, <3>3 DEF Undisturbed
      <4>2. row'.automatic = after.automatic
        BY <1>1, <3>3, <4>1 DEF Refreshing
      <4>3. CASE change[w].wrote \/ ~after.failed
        BY <1>1, <2>2, <3>3, <4>1, <4>2, <4>3 DEF Refreshing
      <4>4. CASE ~change[w].wrote /\ after.failed
        <5>1. after.automatic = before.automatic
          BY <1>1, <4>1, <4>4 DEF Refreshing
        <5>2. row # Nothing /\ row.automatic = row'.automatic
          BY <1>1, <1>3, <2>2, <3>3, <4>1, <4>2, <5>1 DEF Refreshing, NewRow
        <5>3. k \notin torn
          BY <1>2, <2>2, <3>3, <4>4
        <5>4. \A v \in Workers : change[v] # Nothing /\ change[v].kind = k => ~change[v].wrote
          BY <1>1, <2>2, <3>1, <4>4 DEF Overlaps
        <5> QED
          BY <2>2, <3>3, <5>2, <5>3, <5>4 DEF Whole
      <4> QED
        BY <4>3, <4>4
    <3> QED
      BY <1>1, <3>2, <3>3 DEF Kinds
  <2> QED
    BY <2>1, <2>2
<1> QED
  BY <1>5, <1>6, <1>7, <1>8

LEMMA MapsInvInit == MapInit => MapsInv
<1> SUFFICES ASSUME MapInit PROVE MapsInv
  OBVIOUS
<1>1. PICK upload \in Uploads \cup {Nothing} :
        /\ disk = [k \in Kinds |-> IF k = "manual" THEN upload ELSE Nothing]
        /\ row = IF upload = Nothing THEN Nothing ELSE [NewRow EXCEPT !.manual = upload]
  BY DEF MapInit
<1>2. upload \in Sizes \cup {Nothing} /\ NewRow \in Row
  BY NothingElse DEF NewRow, Row
<1>3. [NewRow EXCEPT !.manual = upload] =
        [automatic |-> Nothing, manual |-> upload, failed |-> FALSE, due |-> TRUE]
  <2>1. [NewRow EXCEPT !.manual = upload] =
          [automatic |-> NewRow.automatic, manual |-> upload, failed |-> NewRow.failed, due |-> NewRow.due]
    BY <1>2, RowReplaced
  <2>2. NewRow.automatic = Nothing /\ NewRow.failed = FALSE /\ NewRow.due = TRUE
    BY DEF NewRow
  <2> QED
    BY <2>1, <2>2
<1>4. row # Nothing => row \in Row /\ row.automatic = Nothing /\ row.manual = upload
  BY <1>1, <1>2, <1>3 DEF Row
<1>5. torn = {} /\ change = [w \in Workers |-> Nothing]
  BY DEF MapInit
<1>6. MapsTypeOK
  BY <1>1, <1>2, <1>4, <1>5 DEF MapsTypeOK
<1>7. Overlaps /\ Reads /\ Undisturbed
  BY <1>5 DEF Overlaps, Reads, Undisturbed
<1>8. Whole
  BY <1>1, <1>4 DEF Whole, Kinds
<1> QED
  BY <1>6, <1>7, <1>8 DEF MapsInv

LEMMA MapsInvStep ==
  MapsInv /\ [SchedulerNext]_schedulerVars => MapsInv'
<1> SUFFICES ASSUME MapsInv, [SchedulerNext]_schedulerVars PROVE MapsInv'
  OBVIOUS
<1>1. UNCHANGED mapVars \/ CheckAgain \/ \E w \in Workers : MapAct(w)
  BY MapSteps
<1>2. ASSUME UNCHANGED mapVars PROVE MapsInv'
  <2>1. row' = row /\ disk' = disk /\ change' = change /\ torn' = torn
    BY <1>2 DEF mapVars
  <2> QED
    BY <2>1 DEF MapsInv, MapsTypeOK, Overlaps, Reads, Undisturbed, Whole, Refreshing, Removing,
                Uploading
<1>3. ASSUME NEW w \in Workers, MapAct(w) PROVE MapsInv'
  BY <1>3, RefreshBegun, MapRefreshed, MapCommitted, MapRolledBack, MapReset, MapUnlinked, MapSaved
     DEF MapAct
<1> QED
  BY <1>1, <1>2, <1>3, MapChecked

\* The file of a map is the one that its row describes, unless a crash or an
\* overlap parted them and no check that found an image has put that right since.
THEOREM MapsAlwaysWhole == SchedulerSpec => []MapsWhole
<1>1. SchedulerInit => MapsInv
  BY MapsInvInit DEF SchedulerInit
<1>2. MapsInv => MapsWhole
  BY DEF MapsInv, Whole, MapsWhole, FullyValidMap
<1> QED
  BY <1>1, <1>2, MapsInvStep, PTL DEF SchedulerSpec
=============================================================================
