-------------------------- MODULE ExternalCalendar --------------------------
(* Racing meetings as providers publish them, the canonical event that their *)
(* observations are reconciled into, and the private Workday draft that a    *)
(* Manager builds from an event.                                             *)
(*                                                                           *)
(* One Track and one meeting per provider; the meeting may be observed on    *)
(* another date.  `time` stands for the programme's times, counts and name,  *)
(* and for what a draft derives from them.                                   *)
EXTENDS Naturals, FiniteSets

CONSTANTS
  Providers, LoveRacing,  \* the one provider whose programme pages are read
  Dates, Times, NoFact,   \* NoFact is the null of a nullable column
  Runs,                   \* transactions that may overlap
  None,
  MaxSteps                \* bound on observations and on what Managers do

VARIABLES
  observations,  \* what was observed, and the date of the event it belongs to
  events,        \* by date
  mapped,        \* providers whose name for the Track is mapped to it
  work,          \* the Workday linked with the event of a date
  run,           \* a reconciliation that has read and not yet committed
  latest,        \* history: the last time that a provider gave of an event
  unsettled,     \* history: events with evidence that a mapping attached for review
  repeated,      \* history: events whose provider took a correction back, unheard
  unsynced,      \* history: events that changed without their draft
  overlapped,    \* history: a reconciliation committed over what it had not read
  edited,        \* history: drafts that a Manager has changed
  made, steps    \* revisions numbered so far; a bound

vars == <<observations, events, mapped, work, run, latest, unsettled, repeated,
          unsynced, overlapped, edited, made, steps>>

Programmes == {"AWAITING_SCHEDULE", "PARTIAL", "COMPLETE"}
Fact == Times \cup {NoFact}
Observation == [provider : Providers, id : BOOLEAN, date : Dates,
                time : Fact, programme : Programmes \cup {NoFact}]
Event == [time : Fact, programme : Programmes \cup {"DISCOVERED"}]
Revision == [number : Nat, time : Fact]
Work == [draft : Revision \cup {None}, published : Revision \cup {None}]
Reconciliation == [of : Observation, date : Dates \cup {None}, identified : BOOLEAN,
                   event : Event \cup {None}, work : Work]

\* A null and a missing row are none of the values there are.
ASSUME CalendarAssumption ==
  /\ LoveRacing \in Providers
  /\ NoFact \notin Times \cup Programmes \cup {"DISCOVERED"}
  /\ None \notin Dates \cup Event \cup Revision \cup Reconciliation

Listing(provider, id, date) ==
  [provider |-> provider, id |-> id, date |-> date, time |-> NoFact, programme |-> NoFact]
NewEvent == [time |-> NoFact, programme |-> "DISCOVERED"]
NoWork == [draft |-> None, published |-> None]
Rev(number, time) == [number |-> number, time |-> time]

Init ==
  /\ observations = {} /\ mapped \in SUBSET Providers
  /\ unsettled = {} /\ repeated = {} /\ unsynced = {} /\ edited = {}
  /\ events = [d \in Dates |-> None]
  /\ work = [d \in Dates |-> NoWork]
  /\ run = [r \in Runs |-> None]
  /\ latest = [d \in Dates |-> [p \in Providers |-> NoFact]]
  /\ overlapped = FALSE /\ made = 0 /\ steps = 0

Step == steps < MaxSteps /\ steps' = steps + 1
Numbered == made' = made + 1

(***************************************************************************)
(* Reconciliation.                                                         *)
(***************************************************************************)
Seen(o) == \E x \in observations : x.of = o
Identified(o) ==
  {x.event : x \in {x \in observations :
     x.event # None /\ o.id /\ x.of.id /\ x.of.provider = o.provider}}

\* The event of an observation: by the provider's identity, else by the date and
\* the mapped Track, existing or new; else none, and it waits for a mapping.
EventFor(o) ==
  IF Identified(o) # {} THEN Identified(o)
  ELSE IF o.provider \in mapped THEN {o.date} ELSE {None}

ValueFirst(current, incoming, new, mayCorrect) ==
  IF incoming = NoFact THEN current
  ELSE IF current = NoFact \/ new THEN incoming ELSE current

\* What is left for review instead of changing the event: a date that moved, and
\* another provider's word.  A provider may correct what it identifies itself.
Value(current, incoming, new, mayCorrect) ==
  IF incoming = NoFact THEN current
  ELSE IF current = NoFact \/ new \/ mayCorrect THEN incoming ELSE current

Reconciled(read, o) ==
  LET new        == read.event = None
      event      == IF new THEN NewEvent ELSE read.event
      mayCorrect == read.identified /\ read.date = o.date
      downgrade  == event.programme = "COMPLETE" /\ o.programme \in {"PARTIAL", "AWAITING_SCHEDULE"}
  IN  [time      |-> Value(event.time, o.time, new, mayCorrect),
       programme |-> IF downgrade THEN "COMPLETE"
                     ELSE Value(event.programme, o.programme, new, mayCorrect)]

\* A draft that was never published takes the event's fact where it has none or
\* still has the event's previous one.
SyncedByEvent(read, time) ==
  LET draft == read.work.draft
  IN  IF draft = None \/ read.work.published # None \/ time = NoFact THEN draft
      ELSE IF draft.time \in {NoFact, time} THEN Rev(draft.number, time) ELSE draft
Synced(read, time) ==
  LET draft    == read.work.draft
      previous == IF read.event = None THEN NoFact ELSE read.event.time
  IN  IF draft = None \/ read.work.published # None \/ time = NoFact THEN draft
      ELSE IF draft.time \in {NoFact, previous} THEN Rev(draft.number, time) ELSE draft

\* An observation that was made before, even if others came since, is a duplicate:
\* it changes nothing and nobody is told.
IgnoreDuplicate(o) ==
  /\ Seen(o)
  /\ LET x == CHOOSE x \in observations : x.of = o
     IN  IF x.event # o.date \/ o.time = NoFact \/ ~o.id THEN UNCHANGED <<latest, repeated>>
         ELSE /\ latest' = [latest EXCEPT ![x.event][o.provider] = o.time]
              /\ repeated' = IF events[x.event].time = o.time THEN repeated
                             ELSE repeated \cup {x.event}
  /\ UNCHANGED <<observations, events, mapped, work, run, unsettled, unsynced, overlapped,
                 edited, made>>

Read(r, o) ==
  /\ run[r] = None /\ ~Seen(o)
  /\ \E d \in EventFor(o) :
       run' = [run EXCEPT ![r] =
         [of |-> o, date |-> d, identified |-> Identified(o) # {},
          event |-> IF d = None THEN None ELSE events[d],
          work  |-> IF d = None THEN NoWork ELSE work[d]]]
  /\ UNCHANGED <<observations, events, mapped, work, latest, unsettled, repeated,
                 unsynced, overlapped, edited, made>>

\* A provider's calendar or an import, by date.
Observe(r, o) == Step /\ (Read(r, o) \/ IgnoreDuplicate(o))

\* A programme page: rows of race number and start, which may be missing, given
\* twice or disagree.
Races == 1..2
Pages == SUBSET (Races \X Fact)
Starts(page, race) == {row[2] : row \in {row \in page : row[1] = race}}
Disputed(page) == {race \in Races : Cardinality(Starts(page, race) \ {NoFact}) > 1}
Scheduled(page) == {race \in Races \ Disputed(page) : Starts(page, race) \ {NoFact} # {}}
Contiguous(page) ==
  LET numbers == {row[1] : row \in page}
  IN  numbers # {} /\ numbers = 1..Cardinality(numbers)

Parsed(page) ==
  [programme |->
     IF Contiguous(page) /\ Disputed(page) = {} /\ Scheduled(page) = {row[1] : row \in page}
     THEN "COMPLETE"
     ELSE IF Scheduled(page) \cup Disputed(page) # {} THEN "PARTIAL" ELSE "AWAITING_SCHEDULE",
   time |-> IF 1 \in Scheduled(page)
            THEN CHOOSE start \in Starts(page, 1) : start # NoFact ELSE NoFact]

\* Read for an event that the provider identifies.
ReadProgramme(r, d, parsed) ==
  /\ \E x \in observations : x.event = d /\ x.of.provider = LoveRacing /\ x.of.id
  /\ Observe(r, [Listing(LoveRacing, TRUE, d) EXCEPT
                  !.time = parsed.time, !.programme = parsed.programme])

\* Constraints, and rows that are gone, refuse the whole transaction.
Refused(t) ==
  \/ Seen(t.of) /\ t.of.id
  \/ t.date # None /\ t.event = None /\ events[t.date] # None
  \/ /\ t.date # None /\ t.work.draft # None
     /\ t.work.draft # Synced(t, Reconciled(t, t.of).time)
     /\ t.work.draft.number \notin
          {rev.number : rev \in {work[t.date].draft, work[t.date].published} \ {None}}

\* Only attributes that differ from what was read are written.
Over(current, before, after) ==
  IF current = None THEN after
  ELSE [f \in DOMAIN current |->
          IF before # None /\ before[f] = after[f] THEN current[f] ELSE after[f]]
Written(rev, before, after) ==
  IF rev # None /\ before # None /\ rev.number = before.number /\ before # after
  THEN after ELSE rev

Commit(r) ==
  LET t == run[r]
      after == Reconciled(t, t.of)
      moved == t.date # t.of.date
      draft == IF moved THEN t.work.draft ELSE Synced(t, after.time)
      stale == IF t.date = None THEN t.of.provider \in mapped
               ELSE \/ events[t.date] # t.event \/ work[t.date] # t.work
                    \/ t.identified # (Identified(t.of) # {})
      told  == t.date # None /\ t.of.id /\ t.of.time # NoFact /\ ~moved
  IN  /\ t # None /\ ~Refused(t)
      /\ observations' = observations \cup {[of |-> t.of, event |-> t.date]}
      /\ IF t.date = None THEN UNCHANGED <<events, work>>
         ELSE /\ events' = [events EXCEPT ![t.date] = Over(@, t.event, after)]
              /\ work' = [work EXCEPT ![t.date] =
                   [draft     |-> Written(@.draft, t.work.draft, draft),
                    published |-> Written(@.published, t.work.draft, draft)]]
      /\ latest' = IF told THEN [latest EXCEPT ![t.date][t.of.provider] = t.of.time] ELSE latest
      /\ IF told /\ t.identified
         THEN unsettled' = unsettled \ {t.date} /\ repeated' = repeated \ {t.date}
         ELSE UNCHANGED <<unsettled, repeated>>
      /\ unsynced' = IF moved /\ t.date # None /\ events'[t.date] # events[t.date]
                     THEN unsynced \cup {t.date} ELSE unsynced
      /\ overlapped' = (overlapped \/ stale)
      /\ run' = [run EXCEPT ![r] = None]
      /\ UNCHANGED <<mapped, edited, made, steps>>

Rollback(r) ==
  /\ run[r] # None
  /\ run' = [run EXCEPT ![r] = None]
  /\ UNCHANGED <<observations, events, mapped, work, latest, unsettled, repeated,
                 unsynced, overlapped, edited, made, steps>>

(***************************************************************************)
(* An administrator maps a provider's name; what was waiting is attached,  *)
(* in no given order, each observation filling what is still missing.      *)
(***************************************************************************)
Waiting(p, d) == {x \in observations : x.event = None /\ x.of.provider = p /\ x.of.date = d}
FirstTime(S, current) ==
  LET times == {x.of.time : x \in S} \ {NoFact}
  IN  IF current # NoFact \/ times = {} THEN {current} ELSE times

AttachedIdentified(p) ==
  {IF x.event = None /\ x.of.provider = p /\ x.of.id THEN [x EXCEPT !.event = x.of.date]
   ELSE x : x \in observations}
Attached(p) ==
  {IF x.event = None /\ x.of.provider = p THEN [x EXCEPT !.event = x.of.date] ELSE x :
     x \in observations}

ConfirmTrackMapping(p) ==
  /\ Step
  /\ mapped' = mapped \cup {p}
  /\ observations' = Attached(p)
  /\ events' \in [Dates -> Event \cup {None}]
  /\ \A d \in Dates :
       IF Waiting(p, d) = {} THEN events'[d] = events[d]
       ELSE LET event == IF events[d] = None THEN NewEvent ELSE events[d]
            IN  \E time \in FirstTime(Waiting(p, d), event.time) :
                  events'[d] = [event EXCEPT !.time = time]
  /\ LET attached == {d \in Dates : Waiting(p, d) # {}}
     IN  /\ unsettled' = unsettled \cup attached
         /\ unsynced' = unsynced \cup {d \in attached : events'[d] # events[d]}
  /\ UNCHANGED <<work, run, latest, repeated, overlapped, edited, made>>

(***************************************************************************)
(* Managers.                                                               *)
(***************************************************************************)
Revised(d, rec) == work' = [work EXCEPT ![d] = rec]
Source == <<observations, events, mapped, run, latest, unsettled, repeated, overlapped>>

\* The event's row is locked: a second Manager finds the first one's Workday.
AdoptExternalEvent(d) ==
  /\ Step /\ events[d] # None /\ work[d] = NoWork
  /\ Numbered
  /\ Revised(d, [NoWork EXCEPT !.draft = Rev(made', events[d].time)])
  /\ edited' = edited \ {d} /\ unsynced' = unsynced \ {d}
  /\ UNCHANGED Source

SaveDraft(d, time) ==
  /\ Step /\ work[d].draft # None /\ time # work[d].draft.time
  /\ Revised(d, [work[d] EXCEPT !.draft.time = time])
  /\ edited' = edited \cup {d}
  /\ UNCHANGED <<Source, unsynced, made>>

Publish(d) ==
  /\ Step /\ work[d].draft # None
  /\ Revised(d, [draft |-> None, published |-> work[d].draft])
  /\ UNCHANGED <<Source, unsynced, edited, made>>

\* The latest facts go into a private draft, which is made when there is none.
ApplyLatestProgramme(d) ==
  /\ Step /\ work[d] # NoWork
  /\ LET time(rev) == IF events[d].time = NoFact THEN rev.time ELSE events[d].time
     IN  IF work[d].draft = None
         THEN /\ Numbered
              /\ Revised(d, [work[d] EXCEPT !.draft = Rev(made', time(work[d].published))])
         ELSE /\ Revised(d, [work[d] EXCEPT !.draft.time = time(work[d].draft)])
              /\ UNCHANGED made
  /\ UNCHANGED <<Source, unsynced, edited>>

DeleteNeverPublished(d) ==
  /\ Step /\ work[d].draft # None /\ work[d].published = None
  /\ Revised(d, NoWork)
  /\ UNCHANGED <<Source, unsynced, edited, made>>

Next ==
  \/ \E r \in Runs :
       \/ Commit(r) \/ Rollback(r)
       \/ \E p \in Providers, id \in BOOLEAN, d \in Dates : Observe(r, Listing(p, id, d))
       \/ \E p \in Providers, id \in BOOLEAN, d \in Dates, time \in Times :
            Observe(r, [Listing(p, id, d) EXCEPT !.time = time])
       \/ \E d \in Dates, parsed \in {Parsed(page) : page \in Pages} : ReadProgramme(r, d, parsed)
  \/ \E p \in Providers : ConfirmTrackMapping(p)
  \/ \E d \in Dates :
       \/ AdoptExternalEvent(d) \/ Publish(d) \/ ApplyLatestProgramme(d) \/ DeleteNeverPublished(d)
       \/ \E time \in Times : SaveDraft(d, time)

Spec == Init /\ [][Next]_vars

(***************************************************************************)
(* Properties.                                                             *)
(***************************************************************************)
\* Types.
CalendarTypeOK ==
  /\ observations \subseteq [of : Observation, event : Dates \cup {None}]
  /\ events \in [Dates -> Event \cup {None}]
  /\ mapped \subseteq Providers
  /\ work \in [Dates -> Work]
  /\ run \in [Runs -> Reconciliation \cup {None}]
  /\ latest \in [Dates -> [Providers -> Fact]]
  /\ unsettled \subseteq Dates /\ repeated \subseteq Dates
  /\ unsynced \subseteq Dates /\ edited \subseteq Dates
  /\ overlapped \in BOOLEAN /\ made \in Nat /\ steps \in Nat

Supported(d) ==
  \/ \E p \in Providers : latest[d][p] = events[d].time
  \/ \E x \in observations : x.event = d /\ (~x.of.id \/ x.of.date # d) /\ x.of.time = events[d].time

Given(d) == \E x \in observations : x.event = d /\ x.of.time = events[d].time

\* An event shows a time that some provider still gives: a provider that
\* identifies the event corrects it, and one that does not cannot.  Where a
\* mapping attached what disagrees, for review, or where a provider returned to
\* what it had given before, which service.py:131 takes for a duplicate and
\* nobody reviews, the time is at least one that was given.  Reconciliations that
\* overlapped are excepted.
SourceAgrees ==
  \A d \in Dates :
    events[d] # None /\ events[d].time # NoFact =>
      \/ overlapped
      \/ Supported(d)
      \/ d \in unsettled \cup repeated /\ Given(d)

\* DECISIONS: a stable identity from the same provider may correct the facts.
CorrectionsFollowed ==
  \A d \in Dates, p \in Providers :
    events[d] # None /\ latest[d][p] # NoFact
      /\ (\A x \in observations : x.event = d => x.of.provider = p) =>
        events[d].time = latest[d][p]

\* A draft that no Manager changed and that was never published shows the event
\* it was built from, through all corrections, unless the event was changed
\* without it or a reconciliation overlapped.
DraftFollows ==
  \A d \in Dates \ (edited \cup unsynced) :
    work[d].draft # None /\ work[d].published = None =>
      overlapped \/ work[d].draft.time = events[d].time

\* No observation waits for a mapping that its provider's name has: it would be
\* taken for a duplicate whenever the provider repeats it.  A reconciliation that
\* looked for the mapping before it was confirmed leaves one behind.
NothingStranded ==
  \A x \in observations : x.event = None /\ x.of.provider \in mapped => overlapped

\* ARCHITECTURE: what is published does not change, whatever providers say.  A
\* reconciliation that read the revision while it was a draft still writes it.
PublishedUntouched ==
  [][\A d \in Dates :
       LET before == work[d].published
           after  == work'[d].published
       IN  before # None /\ after # None /\ before.number = after.number => before = after]_vars
=============================================================================
