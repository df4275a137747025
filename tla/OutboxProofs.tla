---------------------------- MODULE OutboxProofs ----------------------------
(***************************************************************************)
(* What module NotificationOutbox guarantees for every number of events,   *)
(* subscriptions, workers, attempts and faults.                            *)
(***************************************************************************)
EXTENDS NotificationOutbox, TLAPS

-----------------------------------------------------------------------------
(* The type invariant is inductive only with the limit on attempts: a      *)
(* delivery that waits has an attempt left, in the table and in the rows   *)
(* of every worker, and a row the worker has changed is one step ahead of  *)
(* the row it loaded.                                                      *)

AttemptLeft(d) == d.status \in Waiting => d.attempts < MaxAttempts

\* How the loop of process_event leaves a row it loaded.
Advanced(old, new) ==
  \/ new = old
  \/ /\ old.status \in Waiting
     /\ \/ new.attempts = old.attempts + 1 /\ new.status \notin {"NONE", "PENDING"}
        \/ new.attempts = old.attempts /\ new.status = "PERMANENT_FAILURE"

JobSound(w) ==
  /\ worker[w].stage # "IDLE" => worker[w].event \in Events
  /\ \A s \in Subs :
       /\ AttemptLeft(worker[w].loaded[s]) /\ AttemptLeft(worker[w].rows[s])
       /\ worker[w].stage = "SENDING" =>
            Advanced(worker[w].loaded[s], worker[w].rows[s])
       /\ s \in worker[w].left =>
            /\ worker[w].rows[s] = worker[w].loaded[s]
            /\ worker[w].rows[s].status \in Waiting

AttemptsLeft == \A e \in Events, s \in Subs : AttemptLeft(delivery[e][s])

TypeInv == TypeOK /\ AttemptsLeft /\ \A w \in Workers : JobSound(w)

-----------------------------------------------------------------------------
(* What the helpers build.                                                 *)

LEMMA NullTypes ==
  /\ NoEvent \in Event
  /\ NoDelivery \in Delivery /\ AttemptLeft(NoDelivery)
  /\ NewDelivery \in Delivery /\ AttemptLeft(NewDelivery)
  /\ NoJob \in Job
<1>1. NoEvent \in Event
  BY DEF NoEvent, Event, EventStatus
<1>2. /\ NoDelivery \in Delivery /\ AttemptLeft(NoDelivery)
      /\ NewDelivery \in Delivery /\ AttemptLeft(NewDelivery)
  BY OutboxAssumption DEF NoDelivery, NewDelivery, Delivery, DeliveryStatus, AttemptLeft,
                          Waiting
<1>3. NoRows \in [Subs -> Delivery] /\ 0 \in 0 .. NumEvents
  BY <1>2, OutboxAssumption DEF NoRows
<1>4. NoJob \in Job
  BY <1>3 DEF NoJob, Job
<1> QED
  BY <1>1, <1>2, <1>4

\* A push takes an attempt of a delivery that waits.
LEMMA AttemptedType ==
  ASSUME NEW d \in Delivery, d.status \in Waiting, AttemptLeft(d), NEW outcome \in Outcome
  PROVE  /\ Attempted(d, outcome) \in Delivery
         /\ AttemptLeft(Attempted(d, outcome))
         /\ Advanced(d, Attempted(d, outcome))
         /\ Attempted(d, outcome).attempts = d.attempts + 1
         /\ Attempted(d, outcome).status = "DELIVERED" <=> outcome = "ACCEPTED"
         /\ Attempted(d, outcome).status = "PERMANENT_FAILURE" <=> outcome = "GONE"
<1>1. d.attempts \in 0 .. MaxAttempts /\ d.attempts < MaxAttempts
  BY DEF Delivery, AttemptLeft
<1>2. d.attempts + 1 \in 0 .. MaxAttempts
  BY <1>1, OutboxAssumption
<1> DEFINE new == Attempted(d, outcome)
<1>3. new.attempts = d.attempts + 1 /\ new.due \in BOOLEAN
  BY DEF Attempted
<1>4. new.status = IF outcome = "ACCEPTED" THEN "DELIVERED"
                   ELSE IF outcome = "GONE" THEN "PERMANENT_FAILURE"
                   ELSE IF d.attempts + 1 >= MaxAttempts THEN "FAILED" ELSE "RETRY"
  BY DEF Attempted, Outcome
<1>5. new = [status |-> new.status, attempts |-> new.attempts, due |-> new.due]
  BY DEF Attempted
<1> HIDE DEF new
<1>6. new \in Delivery
  BY <1>2, <1>3, <1>4, <1>5 DEF Delivery, DeliveryStatus
<1>7. AttemptLeft(new)
  BY <1>1, <1>3, <1>4, OutboxAssumption DEF AttemptLeft, Waiting
<1>8. Advanced(d, new)
  BY <1>3, <1>4 DEF Advanced, Waiting
<1>9. /\ new.status = "DELIVERED" <=> outcome = "ACCEPTED"
      /\ new.status = "PERMANENT_FAILURE" <=> outcome = "GONE"
  BY <1>4 DEF Outcome
<1> QED
  BY <1>3, <1>6, <1>7, <1>8, <1>9 DEF new

\* Columns of two rows that are written together still leave an attempt.
LEMMA WrittenType ==
  ASSUME NEW loaded \in Delivery, NEW mine \in Delivery, NEW now \in Delivery,
         AttemptLeft(mine), AttemptLeft(now), Advanced(loaded, mine)
  PROVE  Written(loaded, mine, now) \in Delivery /\ AttemptLeft(Written(loaded, mine, now))
<1>1. Written(loaded, mine, now) \in Delivery
  BY DEF Written, Delivery
<1>2. CASE mine = loaded
  <2>1. Written(loaded, mine, now).status = now.status
        /\ Written(loaded, mine, now).attempts = now.attempts
    BY <1>2 DEF Written
  <2> QED
    BY <1>1, <2>1 DEF AttemptLeft
<1>3. CASE loaded.status \in Waiting /\ mine.attempts = loaded.attempts
                                     /\ mine.status = "PERMANENT_FAILURE"
  <2>1. Written(loaded, mine, now).status = "PERMANENT_FAILURE"
    BY <1>3 DEF Written, Waiting
  <2> QED
    BY <1>1, <2>1 DEF AttemptLeft, Waiting
<1>4. CASE loaded.status \in Waiting /\ mine.attempts = loaded.attempts + 1
  <2>1. Written(loaded, mine, now).attempts = mine.attempts
    BY <1>4 DEF Written, Delivery
  <2>2. Written(loaded, mine, now).status \in Waiting => mine.status \in Waiting
    BY <1>4 DEF Written
  <2> QED
    BY <1>1, <2>1, <2>2 DEF AttemptLeft
<1> QED
  BY <1>1, <1>2, <1>3, <1>4 DEF Advanced

LEMMA EventRowTypes ==
  ASSUME TypeOK, NEW e \in Events
  PROVE  /\ Finished(e) \in Event /\ Retried(e) \in Event
         /\ [Finished(e) EXCEPT !.dropped = TRUE] \in Event
BY DEF TypeOK, Finished, Retried, Event, EventStatus

LEMMA FaultsType ==
  ASSUME TypeOK
  PROVE  Faults \in Nat
<1>1. \A kind \in Fault : faults[kind] \in Nat
  BY OutboxAssumption DEF TypeOK
<1> QED
  BY <1>1 DEF Faults, Fault

LEMMA StrikesType ==
  ASSUME TypeOK, NEW kind \in Fault, Strikes(kind)
  PROVE  faults' \in [Fault -> 0 .. MaxFaults] /\ Faults' = Faults + 1
<1>1. /\ faults["CRASH"] \in Nat /\ faults["FAILURE"] \in Nat /\ faults["OVERRUN"] \in Nat
      /\ faults[kind] \in Nat
  BY OutboxAssumption DEF TypeOK, Fault
<1>2. faults' = [faults EXCEPT ![kind] = faults[kind] + 1]
  BY DEF Strikes
<1>3. faults[kind] <= Faults /\ Faults < MaxFaults
  BY <1>1 DEF Faults, Strikes, Fault
<1>4. faults[kind] + 1 \in 0 .. MaxFaults
  BY <1>1, <1>3, OutboxAssumption, FaultsType
<1>5. faults' \in [Fault -> 0 .. MaxFaults]
  BY <1>2, <1>4 DEF TypeOK
<1>6. Faults' = Faults + 1
  BY <1>1, <1>2 DEF Faults, Fault, TypeOK
<1> QED
  BY <1>5, <1>6

LEMMA CountedType ==
  ASSUME TypeOK, NEW e \in Events, NEW s \in Subs, NEW accepted \in BOOLEAN
  PROVE  Counted(e, s, accepted) \in [Events -> [Subs -> [pushes : Nat, accepted : Nat]]]
<1>1. sent[e][s] \in [pushes : Nat, accepted : Nat]
  BY DEF TypeOK
<1> QED
  BY <1>1 DEF TypeOK, Counted

-----------------------------------------------------------------------------
(* Steps that leave the deliveries and the workers' rows alone.            *)

LEMMA IdleJob ==
  ASSUME TypeOK, NEW w \in Workers, \A v \in Workers : JobSound(v),
         NEW job \in Job, job.loaded = NoRows, job.left = {}, job.stage # "SENDING",
         \A s \in Subs : AttemptLeft(job.rows[s]),
         job.stage # "IDLE" => job.event \in Events,
         worker' = [worker EXCEPT ![w] = job]
  PROVE  worker' \in [Workers -> Job] /\ \A v \in Workers : JobSound(v)'
<1>1. worker' \in [Workers -> Job] /\ worker'[w] = job
      /\ \A v \in Workers \ {w} : worker'[v] = worker[v]
  BY DEF TypeOK
<1>2. \A s \in Subs : AttemptLeft(NoRows[s])
  BY NullTypes DEF NoRows
<1>3. JobSound(w)'
  BY <1>1, <1>2 DEF JobSound
<1>4. \A v \in Workers \ {w} : JobSound(v)'
  BY <1>1 DEF JobSound
<1> QED
  BY <1>1, <1>3, <1>4

LEMMA NoJobSound ==
  ASSUME TypeOK, NEW w \in Workers, \A v \in Workers : JobSound(v),
         worker' = [worker EXCEPT ![w] = NoJob]
  PROVE  worker' \in [Workers -> Job] /\ \A v \in Workers : JobSound(v)'
<1>1. /\ NoJob.loaded = NoRows /\ NoJob.left = {} /\ NoJob.stage = "IDLE"
      /\ \A s \in Subs : AttemptLeft(NoJob.rows[s])
  BY NullTypes DEF NoJob, NoRows
<1> QED
  BY <1>1, NullTypes, IdleJob

-----------------------------------------------------------------------------
(* The steps of a worker that write deliveries.                            *)

\* The rows process_event expands an event to, and those its loop gives up.
LEMMA ExpandedType ==
  ASSUME TypeOK, AttemptsLeft, NEW e \in Events, NEW reach \in SUBSET Subs
  PROVE  /\ Expanded(e, reach) \in [Subs -> Delivery]
         /\ \A s \in Subs : /\ AttemptLeft(Expanded(e, reach)[s])
                            /\ s \in reach => Expanded(e, reach)[s].status # "NONE"
                            /\ \/ Expanded(e, reach)[s] = delivery[e][s]
                               \/ /\ delivery[e][s].status = "NONE"
                                  /\ Expanded(e, reach)[s] = NewDelivery
                                  /\ s \in reach
<1>1. delivery[e] \in [Subs -> Delivery]
  BY DEF TypeOK
<1>2. \A s \in Subs : Expanded(e, reach)[s] =
        IF s \in reach /\ delivery[e][s].status = "NONE" THEN NewDelivery
        ELSE delivery[e][s]
  BY DEF Expanded
<1>3. Expanded(e, reach) \in [Subs -> Delivery]
  BY <1>1, NullTypes DEF Expanded
<1>4. \A s \in Subs : AttemptLeft(Expanded(e, reach)[s])
  BY <1>2, NullTypes DEF AttemptsLeft
<1>5. NewDelivery.status # "NONE"
  BY DEF NewDelivery
<1> QED
  BY <1>2, <1>3, <1>4, <1>5

LEMMA UnreachableType ==
  ASSUME NEW rows \in [Subs -> Delivery], NEW S \in SUBSET DueNow(rows),
         \A s \in Subs : AttemptLeft(rows[s])
  PROVE  /\ Unreachable(rows, S) \in [Subs -> Delivery]
         /\ \A s \in Subs :
              /\ AttemptLeft(Unreachable(rows, S)[s])
              /\ Advanced(rows[s], Unreachable(rows, S)[s])
              /\ s \notin S => Unreachable(rows, S)[s] = rows[s]
              /\ s \in S => Unreachable(rows, S)[s].status = "PERMANENT_FAILURE"
<1>1. \A s \in Subs : Unreachable(rows, S)[s] =
        IF s \in S THEN [rows[s] EXCEPT !.status = "PERMANENT_FAILURE"] ELSE rows[s]
  BY DEF Unreachable
<1>2. \A d \in Delivery :
        LET given == [d EXCEPT !.status = "PERMANENT_FAILURE"]
        IN  /\ given \in Delivery /\ AttemptLeft(given)
            /\ given.status = "PERMANENT_FAILURE" /\ given.attempts = d.attempts
  BY DEF Delivery, DeliveryStatus, AttemptLeft, Waiting
<1>3. Unreachable(rows, S) \in [Subs -> Delivery]
  BY <1>2 DEF Unreachable
<1>4. \A s \in S : rows[s].status \in Waiting
  BY DEF DueNow
<1>5. ASSUME NEW s \in Subs
      PROVE  /\ AttemptLeft(Unreachable(rows, S)[s])
             /\ Advanced(rows[s], Unreachable(rows, S)[s])
             /\ s \notin S => Unreachable(rows, S)[s] = rows[s]
             /\ s \in S => Unreachable(rows, S)[s].status = "PERMANENT_FAILURE"
  <2>1. CASE s \in S
    <3>1. /\ rows[s] \in Delivery /\ rows[s].status \in Waiting
          /\ Unreachable(rows, S)[s] = [rows[s] EXCEPT !.status = "PERMANENT_FAILURE"]
      BY <1>1, <1>4, <2>1
    <3> QED
      BY <1>2, <2>1, <3>1 DEF Advanced
  <2>2. CASE s \notin S
    BY <1>1, <2>2 DEF Advanced
  <2> QED
    BY <2>1, <2>2
<1> QED
  BY <1>3, <1>5

LEMMA ExpandType ==
  ASSUME TypeInv, NEW w \in Workers, Expand(w)
  PROVE  TypeInv'
<1> USE DEF TypeInv
<1> DEFINE e == worker[w].event
           rows == Expanded(e, active)
           job == [stage |-> "SENDING", event |-> e, loaded |-> rows,
                   rows |-> Unreachable(rows, DueNow(rows) \ active),
                   reach |-> active, left |-> DueNow(rows) \cap active]
<1>1. e \in Events /\ e \in 0 .. NumEvents /\ active \in SUBSET Subs
  BY OutboxAssumption DEF Expand, JobSound, TypeOK, Events
<1>2. /\ delivery' = [delivery EXCEPT ![e] = rows]
      /\ worker' = [worker EXCEPT ![w] = job]
      /\ UNCHANGED <<event, active, current, sent, steady, faults>>
  BY DEF Expand
<1>3. rows \in [Subs -> Delivery] /\ \A s \in Subs : AttemptLeft(rows[s])
  BY <1>1, ExpandedType
<1> HIDE DEF e, rows
<1>4. DueNow(rows) \ active \in SUBSET DueNow(rows) /\ DueNow(rows) \in SUBSET Subs
  BY DEF DueNow
<1>5. /\ Unreachable(rows, DueNow(rows) \ active) \in [Subs -> Delivery]
      /\ \A s \in Subs :
           /\ AttemptLeft(Unreachable(rows, DueNow(rows) \ active)[s])
           /\ Advanced(rows[s], Unreachable(rows, DueNow(rows) \ active)[s])
           /\ s \in active => Unreachable(rows, DueNow(rows) \ active)[s] = rows[s]
  BY <1>3, <1>4, UnreachableType
<1>6. job \in Job
  BY <1>1, <1>3, <1>4, <1>5 DEF Job
<1>7. worker' \in [Workers -> Job] /\ worker'[w] = job
      /\ \A v \in Workers \ {w} : worker'[v] = worker[v]
  BY <1>2, <1>6 DEF TypeOK
<1>8. delivery' \in [Events -> [Subs -> Delivery]]
  BY <1>1, <1>2, <1>3 DEF TypeOK
<1>9. TypeOK'
  BY <1>2, <1>7, <1>8 DEF TypeOK
<1>10. AttemptsLeft'
  BY <1>1, <1>2, <1>3 DEF AttemptsLeft, TypeOK
<1>11. JobSound(w)'
  <2>1. /\ worker'[w].event = e /\ worker'[w].loaded = rows
        /\ worker'[w].rows = Unreachable(rows, DueNow(rows) \ active)
    BY <1>7
  <2>2. \A s \in worker'[w].left : s \in active /\ rows[s].status \in Waiting
    BY <1>7 DEF DueNow
  <2> QED
    BY <1>1, <1>3, <1>5, <2>1, <2>2 DEF JobSound
<1>12. \A v \in Workers \ {w} : JobSound(v)'
  BY <1>7 DEF JobSound
<1> QED
  BY <1>9, <1>10, <1>11, <1>12

LEMMA PushType ==
  ASSUME TypeInv, NEW w \in Workers, NEW s \in Subs, NEW outcome \in Outcome,
         Push(w, s, outcome)
  PROVE  TypeInv'
<1> USE DEF TypeInv
<1> DEFINE old == worker[w].rows[s]
           new == Attempted(old, outcome)
<1>1. /\ worker[w] \in Job /\ worker[w].event \in Events
      /\ old \in Delivery /\ old = worker[w].loaded[s]
      /\ old.status \in Waiting /\ AttemptLeft(old)
  BY DEF Push, JobSound, TypeOK, Job
<1>2. new \in Delivery /\ AttemptLeft(new) /\ Advanced(old, new)
  BY <1>1, AttemptedType
<1>3. /\ worker' = [worker EXCEPT ![w].left = @ \ {s}, ![w].rows[s] = new]
      /\ sent' = Counted(worker[w].event, s, outcome = "ACCEPTED")
      /\ UNCHANGED <<event, delivery, active, current, steady, faults>>
  BY DEF Push
<1> HIDE DEF new
<1>4. /\ worker' \in [Workers -> Job]
      /\ worker'[w] = [worker[w] EXCEPT !.left = @ \ {s}, !.rows[s] = new]
      /\ \A v \in Workers \ {w} : worker'[v] = worker[v]
  BY <1>1, <1>2, <1>3 DEF TypeOK, Job
<1>5. sent' \in [Events -> [Subs -> [pushes : Nat, accepted : Nat]]]
  BY <1>1, <1>3, CountedType
<1>6. TypeOK' /\ AttemptsLeft'
  BY <1>3, <1>4, <1>5 DEF TypeOK, AttemptsLeft
<1>7. JobSound(w)'
  <2>1. /\ worker'[w].stage = worker[w].stage /\ worker'[w].event = worker[w].event
        /\ worker'[w].loaded = worker[w].loaded
        /\ worker'[w].left = worker[w].left \ {s}
        /\ worker'[w].rows[s] = new
        /\ \A x \in Subs \ {s} : worker'[w].rows[x] = worker[w].rows[x]
    BY <1>1, <1>4 DEF Job
  <2> QED
    BY <1>1, <1>2, <2>1 DEF JobSound
<1>8. \A v \in Workers \ {w} : JobSound(v)'
  BY <1>4 DEF JobSound
<1> QED
  BY <1>6, <1>7, <1>8

LEMMA SaveOutcomesType ==
  ASSUME TypeInv, NEW w \in Workers, SaveOutcomes(w)
  PROVE  TypeInv'
<1> USE DEF TypeInv
<1> DEFINE job == worker[w]
           e == job.event
           saved == [s \in Subs |-> Written(job.loaded[s], job.rows[s], delivery[e][s])]
           next == [NoJob EXCEPT !.stage = "SENT", !.event = e, !.rows = job.rows]
<1>1. /\ job \in Job /\ e \in Events /\ e \in 0 .. NumEvents
      /\ delivery[e] \in [Subs -> Delivery]
      /\ \A s \in Subs : AttemptLeft(job.rows[s]) /\ Advanced(job.loaded[s], job.rows[s])
  BY DEF SaveOutcomes, JobSound, TypeOK, Job
<1>2. /\ delivery' = [delivery EXCEPT ![e] = saved]
      /\ active' = active \ Gone(job)
      /\ steady' = [f \in Events |-> steady[f] \ Gone(job)]
      /\ worker' = [worker EXCEPT ![w] = next]
      /\ UNCHANGED <<event, current, sent, faults>>
  BY DEF SaveOutcomes
<1>3. \A s \in Subs : saved[s] \in Delivery /\ AttemptLeft(saved[s])
  BY <1>1, WrittenType DEF AttemptsLeft, Job
<1>4. saved \in [Subs -> Delivery]
  BY <1>3
<1>5. /\ next \in Job /\ next.loaded = NoRows /\ next.left = {}
      /\ next.stage = "SENT" /\ next.event = e /\ next.rows = job.rows
  BY <1>1, NullTypes DEF NoJob, Job
<1> HIDE DEF saved, next
<1>6. worker' \in [Workers -> Job] /\ \A v \in Workers : JobSound(v)'
  BY <1>1, <1>2, <1>5, IdleJob
<1>7. delivery' \in [Events -> [Subs -> Delivery]] /\ AttemptsLeft'
  BY <1>1, <1>2, <1>3, <1>4 DEF TypeOK, AttemptsLeft
<1>8. active' \subseteq Subs /\ steady' \in [Events -> SUBSET Subs]
  BY <1>2 DEF TypeOK
<1> QED
  BY <1>2, <1>6, <1>7, <1>8 DEF TypeOK

-----------------------------------------------------------------------------
(* Every step keeps the types.                                             *)

LEMMA EventWritten ==
  ASSUME TypeOK, NEW e \in Events, NEW r \in Event, event' = [event EXCEPT ![e] = r]
  PROVE  /\ event' \in [Events -> Event] /\ event'[e] = r
         /\ \A f \in Events \ {e} : event'[f] = event[f]
BY DEF TypeOK

LEMMA RestStep ==
  ASSUME TypeInv, Environment \/ Clock
  PROVE  TypeInv'
<1> USE DEF TypeInv
<1>1. ASSUME NEW e \in Events, NEW due \in BOOLEAN, Record(e, due)
      PROVE  TypeInv'
  <2>1. [event[e] EXCEPT !.status = "PENDING", !.due = due] \in Event
    BY DEF TypeOK, Event, EventStatus
  <2>2. event' = [event EXCEPT ![e] = [event[e] EXCEPT !.status = "PENDING", !.due = due]]
    BY <1>1 DEF Record, TypeOK
  <2>3. event' \in [Events -> Event]
    BY <2>1, <2>2, EventWritten
  <2> QED
    BY <1>1, <2>3 DEF Record, TypeOK, AttemptsLeft, JobSound
<1>2. ASSUME NEW s \in Subs, Register(s) \/ Disable(s)
      PROVE  TypeInv'
  BY <1>2 DEF Register, Disable, TypeOK, AttemptsLeft, JobSound
<1>3. ASSUME NEW e \in Events, ChangeCurrency(e)
      PROVE  TypeInv'
  BY <1>3 DEF ChangeCurrency, TypeOK, AttemptsLeft, JobSound
<1>4. ASSUME NEW e \in Events, EventDue(e)
      PROVE  TypeInv'
  <2>1. [event[e] EXCEPT !.due = TRUE] \in Event
    BY DEF TypeOK, Event
  <2>2. event' = [event EXCEPT ![e] = [event[e] EXCEPT !.due = TRUE]]
    BY <1>4 DEF EventDue, TypeOK
  <2>3. event' \in [Events -> Event]
    BY <2>1, <2>2, EventWritten
  <2> QED
    BY <1>4, <2>3 DEF EventDue, TypeOK, AttemptsLeft, JobSound
<1>5. ASSUME NEW e \in Events, NEW s \in Subs, DeliveryDue(e, s)
      PROVE  TypeInv'
  <2>1. /\ delivery' = [delivery EXCEPT ![e][s].due = TRUE]
        /\ UNCHANGED <<event, active, current, worker, sent, steady, faults>>
    BY <1>5 DEF DeliveryDue
  <2>2. delivery[e][s] \in Delivery
    BY DEF TypeOK
  <2>3. /\ delivery' \in [Events -> [Subs -> Delivery]]
        /\ \A f \in Events, x \in Subs :
             /\ delivery'[f][x].status = delivery[f][x].status
             /\ delivery'[f][x].attempts = delivery[f][x].attempts
    BY <2>1, <2>2 DEF TypeOK, Delivery
  <2>4. TypeOK' /\ AttemptsLeft'
    BY <2>1, <2>3 DEF TypeOK, AttemptsLeft, AttemptLeft
  <2> QED
    BY <2>1, <2>4 DEF JobSound
<1> QED
  BY <1>1, <1>2, <1>3, <1>4, <1>5 DEF Environment, Clock

LEMMA ClaimType ==
  ASSUME TypeInv, NEW w \in Workers, NEW e \in Events, Claim(w, e)
  PROVE  TypeInv'
<1> USE DEF TypeInv
<1> DEFINE job == [NoJob EXCEPT !.stage = "CLAIMED", !.event = e]
           r == [event[e] EXCEPT !.status = "PROCESSING", !.due = FALSE, !.claim = w]
<1>1. /\ job \in Job /\ job.loaded = NoRows /\ job.left = {} /\ job.rows = NoRows
      /\ job.stage = "CLAIMED" /\ job.event = e
  <2>1. e \in 0 .. NumEvents
    BY OutboxAssumption DEF Events
  <2>2. job \in Job
    BY <2>1, NullTypes DEF Job
  <2> QED
    BY <2>2 DEF NoJob
<1>2. \A s \in Subs : AttemptLeft(NoRows[s])
  BY NullTypes DEF NoRows
<1>3. r \in Event
  BY DEF TypeOK, Event, EventStatus
<1>4. /\ event' = [event EXCEPT ![e] = r] /\ worker' = [worker EXCEPT ![w] = job]
      /\ UNCHANGED <<delivery, active, current, sent, steady>>
      /\ Strikes("OVERRUN") \/ UNCHANGED faults
  BY DEF Claim, TypeOK
<1> HIDE DEF job, r
<1>5. event' \in [Events -> Event]
  BY <1>3, <1>4, EventWritten
<1>6. worker' \in [Workers -> Job] /\ \A v \in Workers : JobSound(v)'
  BY <1>1, <1>2, <1>4, IdleJob
<1>7. faults' \in [Fault -> 0 .. MaxFaults]
  <2>1. "OVERRUN" \in Fault
    BY DEF Fault
  <2> QED
    BY <1>4, <2>1, StrikesType DEF TypeOK
<1> QED
  BY <1>4, <1>5, <1>6, <1>7 DEF TypeOK, AttemptsLeft

\* Whoever lets its claim go, whatever it leaves in the event row.
LEMMA LetGoType ==
  ASSUME TypeInv, NEW w \in Workers, worker' = [worker EXCEPT ![w] = NoJob],
         event' \in [Events -> Event],
         faults' \in [Fault -> 0 .. MaxFaults],
         sent' \in [Events -> [Subs -> [pushes : Nat, accepted : Nat]]],
         UNCHANGED <<delivery, active, current, steady>>
  PROVE  TypeInv'
BY NoJobSound DEF TypeInv, TypeOK, AttemptsLeft

LEMMA HandleFailureType ==
  ASSUME TypeInv, NEW w \in Workers, worker[w].stage # "IDLE", HandleFailure(w)
  PROVE  /\ event' \in [Events -> Event]
         /\ faults' \in [Fault -> 0 .. MaxFaults]
         /\ worker' = [worker EXCEPT ![w] = NoJob]
         /\ UNCHANGED <<delivery, active, current, steady>>
<1> DEFINE e == worker[w].event
           r == IF event[e].claim = w THEN Retried(e) ELSE event[e]
<1>1. e \in Events
  BY DEF TypeInv, JobSound
<1>2. r \in Event
  BY <1>1, EventRowTypes DEF TypeInv, TypeOK
<1>3. event' = [event EXCEPT ![e] = r]
  BY <1>1 DEF HandleFailure, TypeInv, TypeOK
<1>4. event' \in [Events -> Event]
  BY <1>1, <1>2, <1>3, EventWritten DEF TypeInv
<1>5. "FAILURE" \in Fault
  BY DEF Fault
<1> QED
  BY <1>4, <1>5, StrikesType DEF HandleFailure, TypeInv

LEMMA WorkerStepType ==
  ASSUME TypeInv, NEW w \in Workers, WorkerStep(w)
  PROVE  TypeInv'
<1>1. ASSUME NEW e \in Events, Claim(w, e)
      PROVE  TypeInv'
  BY <1>1, ClaimType
<1>2. ASSUME FinishStale(w)
      PROVE  TypeInv'
  <2> DEFINE e == worker[w].event
  <2>1. e \in Events
    BY <1>2 DEF FinishStale, TypeInv, JobSound
  <2>2. event' \in [Events -> Event]
    BY <1>2, <2>1, EventRowTypes, EventWritten DEF FinishStale, TypeInv
  <2> QED
    BY <1>2, <2>2, LetGoType DEF FinishStale, TypeInv, TypeOK
<1>3. ASSUME Expand(w)
      PROVE  TypeInv'
  BY <1>3, ExpandType
<1>4. ASSUME NEW s \in Subs, NEW outcome \in Outcome, Push(w, s, outcome)
      PROVE  TypeInv'
  BY <1>4, PushType
<1>5. ASSUME SaveOutcomes(w)
      PROVE  TypeInv'
  BY <1>5, SaveOutcomesType
<1>6. ASSUME Finish(w)
      PROVE  TypeInv'
  <2> DEFINE e == worker[w].event
  <2>1. e \in Events
    BY <1>6 DEF Finish, TypeInv, JobSound
  <2>2. Settled(e, worker[w].rows) \in Event
    BY <2>1, EventRowTypes DEF Settled, TypeInv
  <2>3. event' \in [Events -> Event]
    BY <1>6, <2>1, <2>2, EventWritten DEF Finish, TypeInv
  <2> QED
    BY <1>6, <2>3, LetGoType DEF Finish, TypeInv, TypeOK
<1>7. ASSUME Fail(w)
      PROVE  TypeInv'
  BY <1>7, HandleFailureType, LetGoType DEF Fail, TypeInv, TypeOK
<1>8. ASSUME NEW s \in Subs, NEW accepted \in BOOLEAN, PushBreaks(w, s, accepted)
      PROVE  TypeInv'
  <2>1. worker[w].stage # "IDLE" /\ worker[w].event \in Events /\ HandleFailure(w)
    BY <1>8 DEF PushBreaks, TypeInv, JobSound
  <2>2. sent' \in [Events -> [Subs -> [pushes : Nat, accepted : Nat]]]
    BY <1>8, <2>1, CountedType DEF PushBreaks, TypeInv
  <2> QED
    BY <2>1, <2>2, HandleFailureType, LetGoType
<1>9. ASSUME Crash(w)
      PROVE  TypeInv'
  <2>1. "CRASH" \in Fault
    BY DEF Fault
  <2>2. faults' \in [Fault -> 0 .. MaxFaults]
    BY <1>9, <2>1, StrikesType DEF Crash, TypeInv
  <2> QED
    BY <1>9, <2>2, LetGoType DEF Crash, TypeInv, TypeOK
<1> QED
  BY <1>1, <1>2, <1>3, <1>4, <1>5, <1>6, <1>7, <1>8, <1>9 DEF WorkerStep, Progress

LEMMA InitType == Init => TypeInv
<1> SUFFICES ASSUME Init PROVE TypeInv
  OBVIOUS
<1>1. TypeOK
  <2>1. NoRows \in [Subs -> Delivery] /\ 0 \in 0 .. MaxFaults
    BY NullTypes, OutboxAssumption DEF NoRows
  <2> QED
    BY <2>1, NullTypes DEF Init, TypeOK
<1>2. AttemptsLeft
  BY NullTypes DEF Init, AttemptsLeft, NoRows
<1>3. \A w \in Workers : JobSound(w)
  <2>1. /\ NoJob.stage = "IDLE" /\ NoJob.loaded = NoRows /\ NoJob.rows = NoRows
        /\ NoJob.left = {} /\ \A s \in Subs : AttemptLeft(NoRows[s])
    BY NullTypes DEF NoJob, NoRows
  <2> QED
    BY <2>1 DEF Init, JobSound
<1> QED
  BY <1>1, <1>2, <1>3 DEF TypeInv

LEMMA StepType == TypeInv /\ [Next]_vars => TypeInv'
<1> SUFFICES ASSUME TypeInv, [Next]_vars PROVE TypeInv'
  OBVIOUS
<1>1. CASE UNCHANGED vars
  BY <1>1 DEF vars, TypeInv, TypeOK, AttemptsLeft, JobSound
<1>2. CASE Next
  BY <1>2, RestStep, WorkerStepType DEF Next
<1> QED
  BY <1>1, <1>2

\* The tables, the workers' jobs and the histories keep their types, whatever
\* fails and whatever outlives its claim; no delivery is tried beyond the limit
\* (notifications/service.py, process_event).
THEOREM TypeCorrect == Spec => []TypeOK
<1>1. TypeInv => TypeOK
  BY DEF TypeInv
<1> QED
  BY InitType, StepType, <1>1, PTL DEF Spec

-----------------------------------------------------------------------------
(* When no worker outlives its claim, the claim in the row of an event is   *)
(* the right to write the event and its deliveries: Owned says who has it,  *)
(* Committed that nobody else has written what the owner loaded.            *)

Owned(w) ==
  worker[w].stage # "IDLE" =>
    /\ event[worker[w].event].status = "PROCESSING"
    /\ event[worker[w].event].claim = w

Committed(w) ==
  \A s \in Subs :
    LET now == delivery[worker[w].event][s]
    IN  /\ worker[w].stage = "SENDING" =>
             /\ worker[w].loaded[s].status = now.status
             /\ worker[w].loaded[s].attempts = now.attempts
             /\ now.status \notin Waiting => worker[w].loaded[s] = now
        /\ worker[w].stage = "SENT" => worker[w].rows[s].status = now.status

ClaimInv == TypeInv /\ \A w \in Workers : Owned(w) /\ Committed(w)

\* A subscription that has been reachable since the event was recorded is in
\* what every worker loads, and is never given up as gone.
Reached(w) ==
  LET e == worker[w].event
  IN  /\ worker[w].stage = "SENDING" =>
           /\ steady[e] \subseteq worker[w].reach
           /\ \A s \in worker[w].reach : delivery[e][s].status # "NONE"
      /\ worker[w].stage = "SENT" =>
           \A s \in steady[e] : delivery[e][s].status # "NONE"

SteadySound ==
  \A e \in Events :
    /\ steady[e] \subseteq active
    /\ \A s \in steady[e] : delivery[e][s].status # "PERMANENT_FAILURE"
    /\ event[e].status = "NONE" => \A s \in Subs : delivery[e][s].status = "NONE"

DoneInv == ClaimInv /\ SteadySound /\ (\A w \in Workers : Reached(w)) /\ ProcessedMeansDone

\* Every push is counted by an attempt, in the table or in memory, or was lost
\* with a fault; so is every acceptance by a delivery that says so.
Sending(w, e) == worker[w].stage = "SENDING" /\ worker[w].event = e

Accounted(e, s) ==
  /\ delivery[e][s].status = "NONE" => delivery[e][s].attempts = 0
  /\ sent[e][s].accepted <= 1 + Faults
  /\ \/ sent[e][s].accepted <= Faults
     \/ delivery[e][s].status = "DELIVERED"
     \/ \E w \in Workers : Sending(w, e) /\ worker[w].rows[s].status = "DELIVERED"
  /\ \/ sent[e][s].pushes <= delivery[e][s].attempts + Faults
     \/ \E w \in Workers :
          Sending(w, e) /\ sent[e][s].pushes <= worker[w].rows[s].attempts + Faults

CountInv == ClaimInv /\ \A e \in Events, s \in Subs : Accounted(e, s)

-----------------------------------------------------------------------------
(* A worker's step stays within the event it owns.                         *)

Alone(w, e) ==
  /\ \A v \in Workers \ {w} :
       worker'[v] = worker[v] /\ (worker[v].stage # "IDLE" => worker[v].event # e)
  /\ \A f \in Events \ {e} :
       event'[f] = event[f] /\ delivery'[f] = delivery[f] /\ sent'[f] = sent[f]
  /\ \A f \in Events : steady'[f] \subseteq steady[f]
  /\ Faults' \in Nat /\ Faults' >= Faults

LEMMA OwnersApart ==
  ASSUME ClaimInv, NEW v \in Workers, NEW w \in Workers, v # w,
         worker[v].stage # "IDLE", worker[w].stage # "IDLE"
  PROVE  worker[v].event # worker[w].event
BY DEF ClaimInv, Owned

LEMMA ClaimAlone ==
  ASSUME ClaimInv, "OVERRUN" \notin Perils, NEW w \in Workers, NEW e \in Events,
         Claim(w, e)
  PROVE  /\ Alone(w, e)
         /\ UNCHANGED <<delivery, active, current, sent, steady, faults>>
<1>1. ~Busy(w, e) /\ UNCHANGED faults
  BY DEF Claim, Strikes
<1>2. \A v \in Workers \ {w} :
        worker'[v] = worker[v] /\ (worker[v].stage # "IDLE" => worker[v].event # e)
  BY <1>1 DEF Claim, Busy, ClaimInv, TypeInv, TypeOK
<1>3. \A f \in Events \ {e} : event'[f] = event[f]
  BY DEF Claim, ClaimInv, TypeInv, TypeOK
<1>4. Faults' = Faults /\ Faults \in Nat
  BY <1>1, FaultsType DEF Faults, ClaimInv, TypeInv
<1>5. UNCHANGED <<delivery, active, current, sent, steady>>
  BY DEF Claim
<1> QED
  BY <1>1, <1>2, <1>3, <1>4, <1>5 DEF Alone

LEMMA JobAlone ==
  ASSUME ClaimInv, NEW w \in Workers, worker[w].stage # "IDLE",
         NEW e, e = worker[w].event,
         NEW job, worker' = [worker EXCEPT ![w] = job],
         \A f \in Events \ {e} :
           event'[f] = event[f] /\ delivery'[f] = delivery[f] /\ sent'[f] = sent[f],
         \A f \in Events : steady'[f] \subseteq steady[f],
         UNCHANGED faults \/ \E kind \in Fault : Strikes(kind)
  PROVE  Alone(w, e)
<1>1. \A v \in Workers \ {w} :
        worker'[v] = worker[v] /\ (worker[v].stage # "IDLE" => worker[v].event # e)
  BY OwnersApart DEF ClaimInv, TypeInv, TypeOK
<1>2. Faults' = Faults \/ Faults' = Faults + 1
  BY StrikesType DEF ClaimInv, TypeInv, Faults
<1>3. Faults \in Nat
  BY FaultsType DEF ClaimInv, TypeInv
<1> QED
  BY <1>1, <1>2, <1>3 DEF Alone

LEMMA CountedAt ==
  ASSUME TypeOK, NEW e \in Events, NEW s \in Subs, NEW accepted \in BOOLEAN,
         sent' = Counted(e, s, accepted)
  PROVE  /\ \A f \in Events \ {e} : sent'[f] = sent[f]
         /\ \A x \in Subs \ {s} : sent'[e][x] = sent[e][x]
         /\ sent'[e][s].pushes = sent[e][s].pushes + 1
         /\ sent'[e][s].accepted =
              IF accepted THEN sent[e][s].accepted + 1 ELSE sent[e][s].accepted
<1>1. sent[e][s] \in [pushes : Nat, accepted : Nat]
  BY DEF TypeOK
<1> QED
  BY <1>1 DEF TypeOK, Counted

LEMMA HeldAlone ==
  ASSUME ClaimInv, NEW w \in Workers,
         Progress(w) \/ Fail(w)
           \/ (\E s \in Subs, accepted \in BOOLEAN : PushBreaks(w, s, accepted))
           \/ Crash(w)
  PROVE  worker[w].stage # "IDLE" /\ Alone(w, worker[w].event)
<1> USE DEF ClaimInv, TypeInv
<1> DEFINE e == worker[w].event
<1>1. worker[w].stage # "IDLE" /\ e \in Events
  BY DEF Progress, FinishStale, Expand, Push, SaveOutcomes, Finish, Fail, PushBreaks, Crash,
         JobSound
<1>2. CASE FinishStale(w)
  BY <1>1, <1>2, JobAlone DEF FinishStale, TypeOK
<1>3. CASE Expand(w)
  <2>1. PICK job : worker' = [worker EXCEPT ![w] = job]
    BY <1>3 DEF Expand
  <2> QED
    BY <1>1, <1>3, <2>1, JobAlone DEF Expand, TypeOK
<1>4. ASSUME NEW s \in Subs, NEW outcome \in Outcome, Push(w, s, outcome)
      PROVE  Alone(w, e)
  <2>1. PICK job : worker' = [worker EXCEPT ![w] = job]
    <3>1. worker' = [worker EXCEPT ![w] = [worker[w] EXCEPT
            !.left = @ \ {s}, !.rows[s] = Attempted(@, outcome)]]
      BY <1>4 DEF Push, TypeOK
    <3> QED
      BY <3>1
  <2>2. \A f \in Events \ {e} : sent'[f] = sent[f]
    BY <1>1, <1>4, CountedAt DEF Push
  <2>3. UNCHANGED <<event, delivery, steady, faults>>
    BY <1>4 DEF Push
  <2> QED
    BY <1>1, <2>1, <2>2, <2>3, JobAlone
<1>5. CASE SaveOutcomes(w)
  <2>1. PICK job : worker' = [worker EXCEPT ![w] = job]
    BY <1>5 DEF SaveOutcomes
  <2>2. \A f \in Events : steady'[f] \subseteq steady[f]
    BY <1>5 DEF SaveOutcomes
  <2> QED
    BY <1>1, <1>5, <2>1, <2>2, JobAlone DEF SaveOutcomes, TypeOK
<1>6. CASE Finish(w)
  BY <1>1, <1>6, JobAlone DEF Finish, TypeOK
<1>7. ASSUME HandleFailure(w), \A f \in Events \ {e} : sent'[f] = sent[f]
      PROVE  Alone(w, e)
  <2>1. "FAILURE" \in Fault
    BY DEF Fault
  <2>2. \A f \in Events \ {e} : event'[f] = event[f]
    BY <1>7 DEF HandleFailure, TypeOK
  <2> QED
    BY <1>1, <1>7, <2>1, <2>2, JobAlone DEF HandleFailure
<1>8. CASE Fail(w)
  BY <1>7, <1>8 DEF Fail
<1>9. ASSUME NEW s \in Subs, NEW accepted \in BOOLEAN, PushBreaks(w, s, accepted)
      PROVE  Alone(w, e)
  BY <1>1, <1>7, <1>9, CountedAt DEF PushBreaks
<1>10. CASE Crash(w)
  <2>1. "CRASH" \in Fault
    BY DEF Fault
  <2> QED
    BY <1>1, <1>10, <2>1, JobAlone DEF Crash
<1> QED
  BY <1>1, <1>2, <1>3, <1>4, <1>5, <1>6, <1>8, <1>9, <1>10 DEF Progress

-----------------------------------------------------------------------------
(* Claims are exclusive.                                                   *)

LEMMA OthersClaim ==
  ASSUME ClaimInv, NEW w \in Workers, NEW e \in Events, Alone(w, e)
  PROVE  \A v \in Workers \ {w} : Owned(v)' /\ Committed(v)'
<1> SUFFICES ASSUME NEW v \in Workers \ {w} PROVE Owned(v)' /\ Committed(v)'
  OBVIOUS
<1>1. worker'[v] = worker[v] /\ Owned(v) /\ Committed(v)
  BY DEF Alone, ClaimInv
<1>2. CASE worker[v].stage = "IDLE"
  BY <1>1, <1>2 DEF Owned, Committed
<1>3. CASE worker[v].stage # "IDLE"
  <2>1. worker[v].event \in Events \ {e}
    BY <1>3 DEF Alone, ClaimInv, TypeInv, JobSound
  <2>2. /\ event'[worker[v].event] = event[worker[v].event]
        /\ delivery'[worker[v].event] = delivery[worker[v].event]
    BY <2>1 DEF Alone
  <2> QED
    BY <1>1, <2>2 DEF Owned, Committed
<1> QED
  BY <1>2, <1>3

\* A worker that is sending has changed only rows that wait in the table.
LEMMA SendersRows ==
  ASSUME ClaimInv, NEW w \in Workers, worker[w].stage = "SENDING", NEW s \in Subs,
         NEW now, now = delivery[worker[w].event][s]
  PROVE  /\ now \in Delivery /\ worker[w].loaded[s] \in Delivery
         /\ worker[w].rows[s] \in Delivery
         /\ worker[w].loaded[s].status = now.status
         /\ worker[w].loaded[s].attempts = now.attempts
         /\ now.status \notin Waiting =>
              worker[w].loaded[s] = now /\ worker[w].rows[s] = now
         /\ \/ worker[w].rows[s].attempts = now.attempts
            \/ worker[w].rows[s].attempts = now.attempts + 1
         /\ \/ worker[w].rows[s].status = now.status
            \/ /\ now.status \in Waiting
               /\ worker[w].rows[s].status \notin {"NONE", "PENDING"}
<1>1. /\ worker[w] \in Job /\ worker[w].event \in Events
      /\ Advanced(worker[w].loaded[s], worker[w].rows[s])
  BY DEF ClaimInv, TypeInv, TypeOK, JobSound
<1>2. now \in Delivery /\ worker[w].loaded[s] \in Delivery /\ worker[w].rows[s] \in Delivery
  BY <1>1 DEF Job, ClaimInv, TypeInv, TypeOK
<1>3. /\ worker[w].loaded[s].status = now.status
      /\ worker[w].loaded[s].attempts = now.attempts
      /\ now.status \notin Waiting => worker[w].loaded[s] = now
  BY DEF ClaimInv, Committed
<1>4. now.status \notin Waiting => worker[w].rows[s] = now
  BY <1>1, <1>3 DEF Advanced
<1>5. CASE worker[w].rows[s] = worker[w].loaded[s]
  <2>1. /\ worker[w].rows[s].attempts = now.attempts
        /\ worker[w].rows[s].status = now.status
    BY <1>3, <1>5
  <2> QED
    BY <1>2, <1>3, <1>4, <2>1
<1>6. CASE /\ worker[w].loaded[s].status \in Waiting
           /\ worker[w].rows[s].attempts = worker[w].loaded[s].attempts + 1
           /\ worker[w].rows[s].status \notin {"NONE", "PENDING"}
  BY <1>2, <1>3, <1>4, <1>6
<1>7. CASE /\ worker[w].loaded[s].status \in Waiting
           /\ worker[w].rows[s].attempts = worker[w].loaded[s].attempts
           /\ worker[w].rows[s].status = "PERMANENT_FAILURE"
  BY <1>2, <1>3, <1>4, <1>7
<1> QED
  BY <1>1, <1>5, <1>6, <1>7 DEF Advanced

LEMMA SavedRow ==
  ASSUME ClaimInv, NEW w \in Workers, SaveOutcomes(w), NEW s \in Subs,
         NEW e, e = worker[w].event
  PROVE  /\ delivery'[e][s].status = worker[w].rows[s].status
         /\ delivery'[e][s].attempts = worker[w].rows[s].attempts
         /\ delivery[e][s].status \notin Waiting => delivery'[e][s] = delivery[e][s]
<1>1. worker[w].stage = "SENDING" /\ e \in Events
  BY DEF SaveOutcomes, ClaimInv, TypeInv, JobSound
<1>2. delivery'[e][s] =
        Written(worker[w].loaded[s], worker[w].rows[s], delivery[e][s])
  BY <1>1 DEF SaveOutcomes, ClaimInv, TypeInv, TypeOK
<1>3. /\ worker[w].loaded[s].status = delivery[e][s].status
      /\ worker[w].loaded[s].attempts = delivery[e][s].attempts
      /\ delivery[e][s] \in Delivery
      /\ delivery[e][s].status \notin Waiting =>
           worker[w].loaded[s] = delivery[e][s] /\ worker[w].rows[s] = delivery[e][s]
  BY <1>1, SendersRows
<1>4. \A d \in Delivery : d = [status |-> d.status, attempts |-> d.attempts, due |-> d.due]
  BY DEF Delivery
<1>5. delivery[e][s].status \notin Waiting => delivery'[e][s] = delivery[e][s]
  BY <1>2, <1>3, <1>4 DEF Written
<1> QED
  BY <1>2, <1>3, <1>5 DEF Written

LEMMA WorkerClaims ==
  ASSUME ClaimInv, "OVERRUN" \notin Perils, NEW w \in Workers, WorkerStep(w)
  PROVE  ClaimInv'
<1>1. TypeInv'
  BY WorkerStepType DEF ClaimInv
<1>2. ASSUME worker[w].stage # "IDLE", Alone(w, worker[w].event), Owned(w)' /\ Committed(w)'
      PROVE  ClaimInv'
  <2>1. worker[w].event \in Events
    BY <1>2 DEF ClaimInv, TypeInv, JobSound
  <2> QED
    BY <1>1, <1>2, <2>1, OthersClaim DEF ClaimInv
<1>3. ASSUME worker' = [worker EXCEPT ![w] = NoJob]
      PROVE  Owned(w)' /\ Committed(w)'
  BY <1>3 DEF ClaimInv, TypeInv, TypeOK, NoJob, Owned, Committed
<1>4. ASSUME NEW e \in Events, Claim(w, e)
      PROVE  ClaimInv'
  <2>1. \A v \in Workers \ {w} : Owned(v)' /\ Committed(v)'
    BY <1>4, ClaimAlone, OthersClaim
  <2>2. /\ worker'[w].stage = "CLAIMED" /\ worker'[w].event = e
        /\ event'[e].status = "PROCESSING" /\ event'[e].claim = w
    BY <1>4 DEF Claim, ClaimInv, TypeInv, TypeOK, NoJob, Event
  <2>3. Owned(w)' /\ Committed(w)'
    BY <2>2 DEF Owned, Committed
  <2> QED
    BY <1>1, <2>1, <2>3 DEF ClaimInv
<1>5. CASE FinishStale(w)
  BY <1>2, <1>3, <1>5, HeldAlone DEF FinishStale, Progress
<1>6. CASE Expand(w)
  <2> DEFINE e == worker[w].event
  <2>1. worker[w].stage # "IDLE" /\ e \in Events /\ Alone(w, e)
    BY <1>6, HeldAlone DEF Progress, ClaimInv, TypeInv, JobSound
  <2>2. /\ worker'[w].stage = "SENDING" /\ worker'[w].event = e
        /\ worker'[w].loaded = delivery'[e] /\ event' = event
    BY <1>6, <2>1 DEF Expand, ClaimInv, TypeInv, TypeOK
  <2>3. Owned(w)' /\ Committed(w)'
    BY <2>1, <2>2 DEF ClaimInv, Owned, Committed
  <2> QED
    BY <1>2, <2>1, <2>3
<1>7. ASSUME NEW s \in Subs, NEW outcome \in Outcome, Push(w, s, outcome)
      PROVE  ClaimInv'
  <2>1. worker[w].stage # "IDLE" /\ Alone(w, worker[w].event)
    BY <1>7, HeldAlone DEF Progress
  <2>2. /\ worker'[w].stage = "SENDING" /\ worker'[w].event = worker[w].event
        /\ worker'[w].loaded = worker[w].loaded /\ worker[w].stage = "SENDING"
        /\ UNCHANGED <<event, delivery>>
    BY <1>7 DEF Push, ClaimInv, TypeInv, TypeOK, Job
  <2>3. Owned(w)' /\ Committed(w)'
    BY <2>2 DEF ClaimInv, Owned, Committed
  <2> QED
    BY <1>2, <2>1, <2>3
<1>8. CASE SaveOutcomes(w)
  <2> DEFINE e == worker[w].event
  <2>1. worker[w].stage # "IDLE" /\ e \in Events /\ Alone(w, e)
    BY <1>8, HeldAlone DEF Progress, ClaimInv, TypeInv, JobSound
  <2>2. /\ worker'[w].stage = "SENT" /\ worker'[w].event = e
        /\ worker'[w].rows = worker[w].rows /\ event' = event
    BY <1>8 DEF SaveOutcomes, ClaimInv, TypeInv, TypeOK, NoJob
  <2>3. \A s \in Subs : delivery'[e][s].status = worker[w].rows[s].status
    BY <1>8, SavedRow
  <2>4. Owned(w)' /\ Committed(w)'
    BY <2>1, <2>2, <2>3 DEF ClaimInv, Owned, Committed
  <2> QED
    BY <1>2, <2>1, <2>4
<1>9. CASE Finish(w)
  BY <1>2, <1>3, <1>9, HeldAlone DEF Finish, Progress
<1>10. CASE Fail(w)
  BY <1>2, <1>3, <1>10, HeldAlone DEF Fail, HandleFailure
<1>11. ASSUME NEW s \in Subs, NEW accepted \in BOOLEAN, PushBreaks(w, s, accepted)
      PROVE  ClaimInv'
  BY <1>2, <1>3, <1>11, HeldAlone DEF PushBreaks, HandleFailure
<1>12. CASE Crash(w)
  BY <1>2, <1>3, <1>12, HeldAlone DEF Crash
<1> QED
  BY <1>4, <1>5, <1>6, <1>7, <1>8, <1>9, <1>10, <1>11, <1>12 DEF WorkerStep, Progress

\* What the rest of the program and the clock may do to an event and a delivery.
LEMMA RestFrame ==
  ASSUME TypeInv, Environment \/ Clock
  PROVE  /\ UNCHANGED <<worker, sent, faults>>
         /\ \A e \in Events :
              /\ event'[e].status = event[e].status \/ event[e].status = "NONE"
              /\ event'[e].status = "PROCESSED" => event'[e] = event[e]
              /\ event'[e].status = "NONE" => event[e].status = "NONE"
              /\ event[e].status # "NONE" => event'[e].claim = event[e].claim
              /\ steady'[e] \subseteq steady[e] \/ event[e].status = "NONE"
              /\ \A s \in Subs :
                   /\ delivery'[e][s].status = delivery[e][s].status
                   /\ delivery'[e][s].attempts = delivery[e][s].attempts
                   /\ delivery[e][s].status \notin Waiting => delivery'[e][s] = delivery[e][s]
<1> USE DEF TypeInv
<1>1. ASSUME NEW e \in Events, NEW due \in BOOLEAN, Record(e, due)
      PROVE  /\ UNCHANGED <<worker, sent, faults, delivery>>
             /\ event'[e].status = "PENDING" /\ event[e].status = "NONE"
             /\ \A f \in Events \ {e} : event'[f] = event[f] /\ steady'[f] = steady[f]
  BY <1>1 DEF Record, TypeOK, Event
<1>2. ASSUME NEW s \in Subs, Register(s) \/ Disable(s)
      PROVE  /\ UNCHANGED <<worker, sent, faults, delivery, event>>
             /\ \A f \in Events : steady'[f] \subseteq steady[f]
  BY <1>2 DEF Register, Disable
<1>3. ASSUME NEW e \in Events, ChangeCurrency(e)
      PROVE  UNCHANGED <<worker, sent, faults, delivery, event, steady>>
  BY <1>3 DEF ChangeCurrency
<1>4. ASSUME NEW e \in Events, EventDue(e)
      PROVE  /\ UNCHANGED <<worker, sent, faults, delivery, steady>>
             /\ event[e].status \notin {"NONE", "PROCESSED"}
             /\ event'[e].status = event[e].status /\ event'[e].claim = event[e].claim
             /\ \A f \in Events \ {e} : event'[f] = event[f]
  BY <1>4 DEF EventDue, Open, TypeOK, Event
<1>5. ASSUME NEW e \in Events, NEW s \in Subs, DeliveryDue(e, s)
      PROVE  /\ UNCHANGED <<worker, sent, faults, event, steady>>
             /\ \A f \in Events, x \in Subs :
                  /\ delivery'[f][x].status = delivery[f][x].status
                  /\ delivery'[f][x].attempts = delivery[f][x].attempts
                  /\ delivery[f][x].status \notin Waiting => delivery'[f][x] = delivery[f][x]
  <2>1. delivery[e][s] \in Delivery
    BY DEF TypeOK
  <2> QED
    BY <1>5, <2>1 DEF DeliveryDue, TypeOK, Delivery
<1> QED
  BY <1>1, <1>2, <1>3, <1>4, <1>5 DEF Environment, Clock

LEMMA RestClaims ==
  ASSUME ClaimInv, Environment \/ Clock
  PROVE  ClaimInv'
<1>1. TypeInv'
  BY RestStep DEF ClaimInv
<1>2. ASSUME NEW w \in Workers
      PROVE  Owned(w)' /\ Committed(w)'
  <2>1. worker' = worker /\ Owned(w) /\ Committed(w)
    BY RestFrame DEF ClaimInv
  <2>2. CASE worker[w].stage = "IDLE"
    BY <2>1, <2>2 DEF Owned, Committed
  <2>3. CASE worker[w].stage # "IDLE"
    <3>1. worker[w].event \in Events
      BY <2>3 DEF ClaimInv, TypeInv, JobSound
    <3>2. Owned(w)'
      BY <2>1, <3>1, RestFrame DEF ClaimInv, Owned
    <3>3. Committed(w)'
      BY <2>1, <3>1, RestFrame DEF ClaimInv, Committed
    <3> QED
      BY <3>2, <3>3
  <2> QED
    BY <2>2, <2>3
<1> QED
  BY <1>1, <1>2 DEF ClaimInv

LEMMA InitClaims == Init => ClaimInv
<1>1. NoJob.stage = "IDLE"
  BY DEF NoJob
<1> QED
  BY <1>1, InitType DEF Init, ClaimInv, Owned, Committed

LEMMA StepClaims ==
  ASSUME "OVERRUN" \notin Perils
  PROVE  ClaimInv /\ [Next]_vars => ClaimInv'
<1> SUFFICES ASSUME ClaimInv, [Next]_vars PROVE ClaimInv'
  OBVIOUS
<1>1. CASE UNCHANGED vars
  <2>1. TypeInv'
    BY StepType DEF ClaimInv
  <2> QED
    BY <1>1, <2>1 DEF vars, ClaimInv, Owned, Committed
<1>2. CASE Next
  BY <1>2, RestClaims, WorkerClaims DEF Next
<1> QED
  BY <1>1, <1>2

-----------------------------------------------------------------------------
(* Outcomes are final.                                                     *)

LEMMA OutcomesStep ==
  ASSUME ClaimInv, "OVERRUN" \notin Perils, [Next]_vars, NEW e \in Events
  PROVE  /\ event[e].status = "PROCESSED" => event'[e] = event[e]
         /\ \A s \in Subs : delivery[e][s].status \in Terminal =>
              delivery'[e][s] = delivery[e][s]
<1> DEFINE Kept(f) == /\ event[f].status = "PROCESSED" => event'[f] = event[f]
                      /\ \A s \in Subs : delivery[f][s].status \in Terminal =>
                           delivery'[f][s] = delivery[f][s]
<1>1. \A s \in Subs : delivery[e][s].status \in Terminal =>
        delivery[e][s].status \notin Waiting /\ delivery[e][s].status # "NONE"
  BY DEF Terminal, Waiting
<1>2. CASE UNCHANGED vars
  BY <1>2 DEF vars
<1>3. CASE Environment \/ Clock
  <2>1. ClaimInv => TypeInv
    BY DEF ClaimInv
  <2>2. event[e].status = "PROCESSED" => event'[e].status = "PROCESSED"
    BY <1>3, <2>1, RestFrame
  <2> QED
    BY <1>1, <1>3, <2>1, <2>2, RestFrame
<1>4. ASSUME NEW w \in Workers, NEW f \in Events, Claim(w, f)
      PROVE  Kept(e)
  <2>1. UNCHANGED delivery /\ event[f].status # "PROCESSED"
    BY <1>4, ClaimAlone DEF Claim, Claimable, Open
  <2> QED
    BY <1>4, <2>1, ClaimAlone DEF Alone
<1>5. ASSUME NEW w \in Workers, worker[w].stage # "IDLE", Alone(w, worker[w].event),
             \A s \in Subs : delivery[worker[w].event][s].status \in Terminal =>
               delivery'[worker[w].event][s] = delivery[worker[w].event][s]
      PROVE  Kept(e)
  <2>1. event[worker[w].event].status # "PROCESSED"
    BY <1>5 DEF ClaimInv, Owned
  <2> QED
    BY <1>5, <2>1 DEF Alone
<1>6. ASSUME NEW w \in Workers, Expand(w)
      PROVE  Kept(e)
  <2> DEFINE f == worker[w].event
  <2>1. worker[w].stage # "IDLE" /\ Alone(w, f) /\ f \in Events
    BY <1>6, HeldAlone DEF Progress, ClaimInv, TypeInv, JobSound
  <2>2. delivery'[f] = Expanded(f, active) /\ active \in SUBSET Subs
    BY <1>6, <2>1 DEF Expand, ClaimInv, TypeInv, TypeOK
  <2>3. \A s \in Subs : delivery[f][s].status \in Terminal => delivery'[f][s] = delivery[f][s]
    BY <2>1, <2>2, ExpandedType DEF Terminal, ClaimInv, TypeInv
  <2> QED
    BY <1>5, <2>1, <2>3
<1>7. ASSUME NEW w \in Workers, SaveOutcomes(w)
      PROVE  Kept(e)
  <2>1. worker[w].stage # "IDLE" /\ Alone(w, worker[w].event)
    BY <1>7, HeldAlone DEF Progress
  <2>2. \A s \in Subs : delivery[worker[w].event][s].status \in Terminal =>
          delivery'[worker[w].event][s] = delivery[worker[w].event][s]
    BY <1>7, SavedRow DEF Terminal, Waiting
  <2> QED
    BY <1>5, <2>1, <2>2
<1>8. ASSUME NEW w \in Workers, WorkerStep(w), UNCHANGED delivery,
             ~\E f \in Events : Claim(w, f)
      PROVE  Kept(e)
  <2>1. worker[w].stage # "IDLE" /\ Alone(w, worker[w].event)
    BY <1>8, HeldAlone DEF WorkerStep
  <2> QED
    BY <1>5, <1>8, <2>1
<1>9. ASSUME NEW w \in Workers, WorkerStep(w)
      PROVE  Kept(e)
  <2>1. \/ \E f \in Events : Claim(w, f)
        \/ Expand(w)
        \/ SaveOutcomes(w)
        \/ UNCHANGED delivery
    BY <1>9 DEF WorkerStep, Progress, FinishStale, Push, Finish, Fail, PushBreaks,
                HandleFailure, Crash
  <2> QED
    BY <1>4, <1>6, <1>7, <1>8, <1>9, <2>1
<1> QED
  BY <1>2, <1>3, <1>9 DEF Next

\* Unless a worker outlives its claim, a processed event and a delivery at its
\* end are never written again, whatever crashes, fails or is claimed anew
\* (notifications/service.py, process_event and process_pending).
THEOREM OutcomesAlwaysFinal ==
  ASSUME "OVERRUN" \notin Perils
  PROVE  Spec => OutcomesFinal
<1>1. ClaimInv /\ [Next]_vars =>
        [\A e \in Events :
           /\ event[e].status = "PROCESSED" => event'[e] = event[e]
           /\ \A s \in Subs : delivery[e][s].status \in Terminal =>
                delivery'[e][s] = delivery[e][s]]_vars
  BY OutcomesStep
<1> QED
  BY InitClaims, StepClaims, <1>1, PTL DEF Spec, OutcomesFinal

-----------------------------------------------------------------------------
(* A processed event has forgotten no one.                                 *)

LEMMA DoneFrom ==
  ASSUME DoneInv, ClaimInv', NEW w \in Workers, NEW e \in Events, Alone(w, e),
         \A f \in Events : steady'[f] \subseteq active',
         \A s \in steady'[e] : delivery'[e][s].status # "PERMANENT_FAILURE",
         event'[e].status # "NONE",
         Reached(w)',
         event'[e].status = "PROCESSED" /\ ~event'[e].dropped =>
           /\ \A s \in Subs : delivery'[e][s].status \notin Waiting
           /\ \A s \in steady'[e] : delivery'[e][s].status \in {"DELIVERED", "FAILED"}
  PROVE  DoneInv'
<1>1. SteadySound'
  BY DEF DoneInv, SteadySound, Alone
<1>2. ASSUME NEW v \in Workers \ {w}
      PROVE  Reached(v)'
  <2>1. worker'[v] = worker[v] /\ Reached(v)
    BY DEF Alone, DoneInv
  <2>2. CASE worker[v].stage = "IDLE"
    BY <2>1, <2>2 DEF Reached
  <2>3. CASE worker[v].stage # "IDLE"
    <3>1. worker[v].event \in Events \ {e}
      BY <2>3 DEF Alone, DoneInv, ClaimInv, TypeInv, JobSound
    <3>2. /\ delivery'[worker[v].event] = delivery[worker[v].event]
          /\ steady'[worker[v].event] \subseteq steady[worker[v].event]
      BY <3>1 DEF Alone
    <3> QED
      BY <2>1, <3>2 DEF Reached
  <2> QED
    BY <2>2, <2>3
<1>3. ProcessedMeansDone'
  BY DEF DoneInv, ProcessedMeansDone, Alone
<1> QED
  BY <1>1, <1>2, <1>3 DEF DoneInv

LEMMA SaveOutcomesDone ==
  ASSUME DoneInv, ClaimInv', NEW w \in Workers, SaveOutcomes(w)
  PROVE  DoneInv'
<1> DEFINE job == worker[w]
           e == job.event
<1>1. /\ job.stage = "SENDING" /\ e \in Events /\ Alone(w, e)
      /\ event[e].status = "PROCESSING"
  BY HeldAlone DEF SaveOutcomes, Progress, DoneInv, ClaimInv, TypeInv, JobSound, Owned
<1>2. /\ active' = active \ Gone(job) /\ event' = event
      /\ \A f \in Events : steady'[f] = steady[f] \ Gone(job)
      /\ worker'[w].stage = "SENT" /\ worker'[w].event = e
  BY DEF SaveOutcomes, DoneInv, ClaimInv, TypeInv, TypeOK, NoJob
<1>3. \A f \in Events : steady'[f] \subseteq active'
  BY <1>2 DEF DoneInv, SteadySound
<1>4. ASSUME NEW s \in steady'[e]
      PROVE  delivery'[e][s].status \notin {"NONE", "PERMANENT_FAILURE"}
  <2>1. s \in steady[e] /\ s \notin Gone(job)
    BY <1>1, <1>2
  <2>2. s \in Subs
    BY <1>1, <2>1 DEF DoneInv, ClaimInv, TypeInv, TypeOK
  <2>3. s \in job.reach /\ delivery[e][s].status \notin {"NONE", "PERMANENT_FAILURE"}
    BY <1>1, <2>1 DEF DoneInv, SteadySound, Reached
  <2>4. /\ job.loaded[s].status = delivery[e][s].status
        /\ \/ job.rows[s].status = delivery[e][s].status
           \/ job.rows[s].status \notin {"NONE", "PENDING"}
    BY <1>1, <2>2, SendersRows DEF DoneInv
  <2>5. job.rows[s].status # "PERMANENT_FAILURE"
    <3> SUFFICES ASSUME job.rows[s].status = "PERMANENT_FAILURE" PROVE FALSE
      OBVIOUS
    <3>1. job.rows[s] # job.loaded[s]
      BY <2>3, <2>4
    <3> QED
      BY <2>1, <2>3, <3>1 DEF Gone
  <2>6. delivery'[e][s].status = job.rows[s].status
    BY <2>2, SavedRow DEF DoneInv
  <2> QED
    BY <2>3, <2>4, <2>5, <2>6
<1>5. Reached(w)'
  BY <1>2, <1>4 DEF Reached
<1> QED
  BY <1>1, <1>2, <1>3, <1>4, <1>5, DoneFrom

LEMMA FinishDone ==
  ASSUME DoneInv, ClaimInv', NEW w \in Workers, Finish(w)
  PROVE  DoneInv'
<1> DEFINE job == worker[w]
           e == job.event
<1>1. job.stage = "SENT" /\ e \in Events /\ Alone(w, e)
  BY HeldAlone DEF Finish, Progress, DoneInv, ClaimInv, TypeInv, JobSound
<1>2. /\ event'[e] = Settled(e, job.rows)
      /\ worker'[w].stage = "IDLE" /\ UNCHANGED <<delivery, active, steady>>
  BY <1>1 DEF Finish, DoneInv, ClaimInv, TypeInv, TypeOK, NoJob
<1>3. event[e] \in Event /\ delivery[e] \in [Subs -> Delivery] /\ steady[e] \subseteq Subs
  BY <1>1 DEF DoneInv, ClaimInv, TypeInv, TypeOK
<1>4. /\ Finished(e).status = "PROCESSED" /\ Retried(e).status = "RETRY"
  BY <1>3 DEF Finished, Retried, Event
<1>5. event'[e].status # "NONE"
  BY <1>2, <1>4 DEF Settled
<1>6. ASSUME event'[e].status = "PROCESSED"
      PROVE  /\ \A s \in Subs : delivery'[e][s].status \notin Waiting
             /\ \A s \in steady'[e] : delivery'[e][s].status \in {"DELIVERED", "FAILED"}
  <2>1. \A s \in Subs : job.rows[s].status \notin Waiting
    BY <1>2, <1>4, <1>6 DEF Settled
  <2>2. \A s \in Subs : delivery[e][s].status \notin Waiting
    BY <1>1, <2>1 DEF DoneInv, ClaimInv, Committed
  <2>3. \A s \in steady[e] : delivery[e][s].status \notin {"NONE", "PERMANENT_FAILURE"}
    BY <1>1 DEF DoneInv, SteadySound, Reached
  <2> QED
    BY <1>2, <1>3, <2>2, <2>3 DEF Delivery, DeliveryStatus, Waiting
<1>7. \A f \in Events : steady'[f] \subseteq active'
  BY <1>2 DEF DoneInv, SteadySound
<1>8. \A s \in steady'[e] : delivery'[e][s].status # "PERMANENT_FAILURE"
  BY <1>1, <1>2 DEF DoneInv, SteadySound
<1>9. Reached(w)'
  BY <1>2 DEF Reached
<1> QED
  BY <1>1, <1>5, <1>6, <1>7, <1>8, <1>9, DoneFrom

LEMMA ExpandDone ==
  ASSUME DoneInv, ClaimInv', NEW w \in Workers, Expand(w)
  PROVE  DoneInv'
<1> DEFINE e == worker[w].event
<1>1. /\ worker[w].stage # "IDLE" /\ e \in Events /\ Alone(w, e)
      /\ event[e].status = "PROCESSING"
  BY HeldAlone DEF Expand, Progress, DoneInv, ClaimInv, TypeInv, JobSound, Owned
<1>2. /\ delivery'[e] = Expanded(e, active)
      /\ worker'[w].stage = "SENDING" /\ worker'[w].event = e /\ worker'[w].reach = active
      /\ UNCHANGED <<event, active, steady>>
  BY <1>1 DEF Expand, DoneInv, ClaimInv, TypeInv, TypeOK
<1>3. active \in SUBSET Subs /\ steady[e] \subseteq active
  BY <1>1 DEF DoneInv, SteadySound, ClaimInv, TypeInv, TypeOK
<1>4. \A s \in Subs :
        /\ s \in active => delivery'[e][s].status # "NONE"
        /\ delivery'[e][s] = delivery[e][s] \/ delivery'[e][s] = NewDelivery
  BY <1>1, <1>2, <1>3, ExpandedType DEF DoneInv, ClaimInv, TypeInv
<1>5. \A s \in steady'[e] : delivery'[e][s].status # "PERMANENT_FAILURE"
  BY <1>1, <1>2, <1>3, <1>4 DEF DoneInv, SteadySound, NewDelivery
<1>6. Reached(w)'
  BY <1>2, <1>3, <1>4 DEF Reached
<1>7. \A f \in Events : steady'[f] \subseteq active'
  BY <1>2 DEF DoneInv, SteadySound
<1> QED
  BY <1>1, <1>2, <1>5, <1>6, <1>7, DoneFrom

\* Steps of a worker that write neither a delivery nor a subscription, and do
\* not settle the event.
LEMMA QuietDone ==
  ASSUME DoneInv, ClaimInv', NEW w \in Workers, NEW e \in Events, Alone(w, e),
         UNCHANGED <<delivery, active, steady>>,
         event[e].status # "NONE",
         event'[e].status \notin {"NONE", "PROCESSED"} \/ event'[e].dropped,
         event'[e].status # "NONE",
         \/ worker'[w].stage \notin {"SENDING", "SENT"}
         \/ /\ worker'[w].stage = worker[w].stage /\ worker'[w].event = worker[w].event
            /\ worker'[w].reach = worker[w].reach
  PROVE  DoneInv'
<1>1. Reached(w)'
  BY DEF DoneInv, Reached
<1>2. \A s \in steady'[e] : delivery'[e][s].status # "PERMANENT_FAILURE"
  BY DEF DoneInv, SteadySound
<1>3. \A f \in Events : steady'[f] \subseteq active'
  BY DEF DoneInv, SteadySound
<1> QED
  BY <1>1, <1>2, <1>3, DoneFrom

LEMMA WorkerDone ==
  ASSUME DoneInv, "OVERRUN" \notin Perils, NEW w \in Workers, WorkerStep(w)
  PROVE  DoneInv'
<1> DEFINE e == worker[w].event
<1>1. ClaimInv' /\ ClaimInv
  BY WorkerClaims DEF DoneInv
<1>2. ASSUME worker[w].stage # "IDLE"
      PROVE  e \in Events /\ event[e] \in Event /\ event[e].status = "PROCESSING"
  BY <1>1, <1>2 DEF ClaimInv, TypeInv, TypeOK, JobSound, Owned
<1>3. ASSUME NEW f \in Events, Claim(w, f)
      PROVE  DoneInv'
  <2>1. Alone(w, f) /\ UNCHANGED <<delivery, active, steady>>
    BY <1>1, <1>3, ClaimAlone
  <2>2. /\ event[f].status # "NONE" /\ event'[f].status = "PROCESSING"
        /\ worker'[w].stage = "CLAIMED"
    BY <1>1, <1>3 DEF Claim, Claimable, Open, ClaimInv, TypeInv, TypeOK, Event, NoJob
  <2> QED
    BY <1>1, <2>1, <2>2, QuietDone
<1>4. CASE FinishStale(w)
  <2>1. worker[w].stage # "IDLE" /\ Alone(w, e)
    BY <1>1, <1>4, HeldAlone DEF Progress
  <2>2. /\ event'[e].status = "PROCESSED" /\ event'[e].dropped
        /\ worker'[w].stage = "IDLE" /\ UNCHANGED <<delivery, active, steady>>
    BY <1>1, <1>2, <1>4, <2>1
    DEF FinishStale, Finished, ClaimInv, TypeInv, TypeOK, NoJob, Event
  <2> QED
    BY <1>1, <1>2, <2>1, <2>2, QuietDone
<1>5. CASE Expand(w)
  BY <1>1, <1>5, ExpandDone
<1>6. ASSUME NEW s \in Subs, NEW outcome \in Outcome, Push(w, s, outcome)
      PROVE  DoneInv'
  <2>1. worker[w].stage # "IDLE" /\ Alone(w, e)
    BY <1>1, <1>6, HeldAlone DEF Progress
  <2>2. /\ worker'[w].stage = worker[w].stage /\ worker'[w].event = worker[w].event
        /\ worker'[w].reach = worker[w].reach
        /\ UNCHANGED <<event, delivery, active, steady>>
    BY <1>1, <1>6 DEF Push, ClaimInv, TypeInv, TypeOK, Job
  <2> QED
    BY <1>1, <1>2, <2>1, <2>2, QuietDone
<1>7. CASE SaveOutcomes(w)
  BY <1>1, <1>7, SaveOutcomesDone
<1>8. CASE Finish(w)
  BY <1>1, <1>8, FinishDone
<1>9. ASSUME worker[w].stage # "IDLE", Alone(w, e), HandleFailure(w)
      PROVE  DoneInv'
  <2>1. /\ event'[e].status \in {"PROCESSING", "RETRY"}
        /\ worker'[w].stage = "IDLE" /\ UNCHANGED <<delivery, active, steady>>
    BY <1>1, <1>2, <1>9
    DEF HandleFailure, Retried, ClaimInv, TypeInv, TypeOK, NoJob, Event
  <2> QED
    BY <1>1, <1>2, <1>9, <2>1, QuietDone
<1>10. CASE Fail(w)
  BY <1>1, <1>9, <1>10, HeldAlone DEF Fail
<1>11. ASSUME NEW s \in Subs, NEW accepted \in BOOLEAN, PushBreaks(w, s, accepted)
      PROVE  DoneInv'
  BY <1>1, <1>9, <1>11, HeldAlone DEF PushBreaks
<1>12. CASE Crash(w)
  <2>1. worker[w].stage # "IDLE" /\ Alone(w, e)
    BY <1>1, <1>12, HeldAlone
  <2>2. worker'[w].stage = "IDLE" /\ UNCHANGED <<event, delivery, active, steady>>
    BY <1>1, <1>12 DEF Crash, ClaimInv, TypeInv, TypeOK, NoJob
  <2> QED
    BY <1>1, <1>2, <2>1, <2>2, QuietDone
<1> QED
  BY <1>3, <1>4, <1>5, <1>6, <1>7, <1>8, <1>10, <1>11, <1>12 DEF WorkerStep, Progress

LEMMA RestDone ==
  ASSUME DoneInv, Environment \/ Clock
  PROVE  DoneInv'
<1>1. ClaimInv' /\ TypeInv
  BY RestClaims DEF DoneInv, ClaimInv
<1>2. \A e \in Events : steady'[e] \subseteq active'
  <2>1. ASSUME NEW e \in Events, NEW due \in BOOLEAN, Record(e, due)
        PROVE  \A f \in Events : steady'[f] \subseteq active'
    BY <1>1, <2>1 DEF Record, DoneInv, SteadySound, TypeInv, TypeOK
  <2>2. ASSUME NEW s \in Subs, Register(s) \/ Disable(s)
        PROVE  \A f \in Events : steady'[f] \subseteq active'
    BY <2>2 DEF Register, Disable, DoneInv, SteadySound
  <2>3. ASSUME UNCHANGED <<active, steady>>
        PROVE  \A f \in Events : steady'[f] \subseteq active'
    BY <2>3 DEF DoneInv, SteadySound
  <2> QED
    BY <2>1, <2>2, <2>3 DEF Environment, Clock, ChangeCurrency, EventDue, DeliveryDue
<1>3. SteadySound'
  <2> SUFFICES ASSUME NEW e \in Events
               PROVE  /\ \A s \in steady'[e] : delivery'[e][s].status # "PERMANENT_FAILURE"
                      /\ event'[e].status = "NONE" =>
                           \A s \in Subs : delivery'[e][s].status = "NONE"
    BY <1>2 DEF SteadySound
  <2>1. \A s \in Subs : delivery'[e][s].status = delivery[e][s].status
    BY <1>1, RestFrame
  <2>2. CASE event[e].status = "NONE"
    <3>1. \A s \in Subs : delivery'[e][s].status = "NONE"
      BY <2>1, <2>2 DEF DoneInv, SteadySound
    <3>2. steady'[e] \subseteq Subs
      BY <1>1 DEF ClaimInv, TypeInv, TypeOK
    <3> QED
      BY <3>1, <3>2
  <2>3. CASE event[e].status # "NONE"
    <3>1. steady'[e] \subseteq steady[e] /\ steady[e] \subseteq Subs
      BY <1>1, <2>3, RestFrame DEF TypeInv, TypeOK
    <3>2. event'[e].status # "NONE"
      BY <1>1, <2>3, RestFrame
    <3> QED
      BY <2>1, <3>1, <3>2 DEF DoneInv, SteadySound
  <2> QED
    BY <2>2, <2>3
<1>4. ASSUME NEW w \in Workers
      PROVE  Reached(w)'
  <2>1. worker' = worker /\ Reached(w)
    BY <1>1, RestFrame DEF DoneInv
  <2>2. CASE worker[w].stage = "IDLE"
    BY <2>1, <2>2 DEF Reached
  <2>3. CASE worker[w].stage # "IDLE"
    <3> DEFINE e == worker[w].event
    <3>1. e \in Events /\ event[e].status = "PROCESSING" /\ worker[w].reach \subseteq Subs
      BY <2>3 DEF DoneInv, ClaimInv, TypeInv, TypeOK, JobSound, Owned, Job
    <3>2. steady'[e] \subseteq steady[e] /\ steady[e] \subseteq Subs
      BY <1>1, <3>1, RestFrame DEF TypeInv, TypeOK
    <3>3. \A s \in Subs : delivery'[e][s].status = delivery[e][s].status
      BY <1>1, <3>1, RestFrame
    <3> QED
      BY <2>1, <3>1, <3>2, <3>3 DEF Reached
  <2> QED
    BY <2>2, <2>3
<1>5. ProcessedMeansDone'
  <2> SUFFICES ASSUME NEW e \in Events,
                      event'[e].status = "PROCESSED", ~event'[e].dropped
               PROVE  /\ \A s \in Subs : delivery'[e][s].status \notin Waiting
                      /\ \A s \in steady'[e] :
                           delivery'[e][s].status \in {"DELIVERED", "FAILED"}
    BY DEF ProcessedMeansDone
  <2>1. event'[e] = event[e] /\ steady'[e] \subseteq steady[e] /\ steady[e] \subseteq Subs
    BY <1>1, RestFrame DEF TypeInv, TypeOK
  <2> QED
    BY <1>1, <2>1, RestFrame DEF DoneInv, ProcessedMeansDone
<1> QED
  BY <1>1, <1>3, <1>4, <1>5 DEF DoneInv

\* Unless a worker outlives its claim, an event is processed only when no
\* delivery waits and every subscription reachable since it was recorded has
\* been delivered to or tried up to the limit: a registration that comes late, a
\* disable, a retry or a crash between the two commits forgets no one
\* (notifications/service.py, process_event).
THEOREM ProcessedAlwaysDone ==
  ASSUME "OVERRUN" \notin Perils
  PROVE  Spec => []ProcessedMeansDone
<1>1. Init => DoneInv
  <2> SUFFICES ASSUME Init PROVE DoneInv
    OBVIOUS
  <2>1. ClaimInv /\ NoJob.stage = "IDLE" /\ NoDelivery.status = "NONE"
        /\ NoEvent.status = "NONE"
    BY InitClaims DEF NoJob, NoDelivery, NoEvent
  <2> QED
    BY <2>1 DEF Init, DoneInv, SteadySound, Reached, ProcessedMeansDone, NoRows
<1>2. DoneInv /\ [Next]_vars => DoneInv'
  <2> SUFFICES ASSUME DoneInv, [Next]_vars PROVE DoneInv'
    OBVIOUS
  <2>1. CASE UNCHANGED vars
    <3>1. ClaimInv'
      BY StepClaims DEF DoneInv
    <3> QED
      BY <2>1, <3>1 DEF vars, DoneInv, SteadySound, Reached, ProcessedMeansDone
  <2>2. CASE Next
    BY <2>2, RestDone, WorkerDone DEF Next
  <2> QED
    BY <2>1, <2>2
<1>3. DoneInv => ProcessedMeansDone
  BY DEF DoneInv
<1> QED
  BY <1>1, <1>2, <1>3, PTL DEF Spec

-----------------------------------------------------------------------------
(* Every push and every acceptance is accounted for.                       *)

LEMMA CountFrom ==
  ASSUME CountInv, ClaimInv', NEW w \in Workers, NEW e \in Events, Alone(w, e),
         worker[w].stage # "IDLE" => worker[w].event = e,
         \A s \in Subs : Accounted(e, s)'
  PROVE  CountInv'
<1> SUFFICES ASSUME NEW f \in Events \ {e}, NEW s \in Subs
             PROVE  Accounted(f, s)'
  BY DEF CountInv
<1>1. /\ sent[f][s].accepted \in Nat /\ sent[f][s].pushes \in Nat
      /\ delivery[f][s].attempts \in Nat
      /\ \A v \in Workers : worker[v].rows[s].attempts \in Nat
  BY OutboxAssumption DEF CountInv, ClaimInv, TypeInv, TypeOK, Delivery, Job
<1>2. Faults \in Nat /\ Faults' \in Nat /\ Faults <= Faults'
  BY FaultsType DEF Alone, CountInv, ClaimInv, TypeInv
<1>3. sent'[f] = sent[f] /\ delivery'[f] = delivery[f]
  BY DEF Alone
<1>4. \A v \in Workers : Sending(v, f) => Sending(v, f)' /\ worker'[v] = worker[v]
  BY DEF Sending, Alone
<1>5. Accounted(f, s)
  BY DEF CountInv
<1>6. /\ sent[f][s].accepted <= 1 + Faults'
      /\ sent[f][s].accepted <= Faults => sent[f][s].accepted <= Faults'
      /\ sent[f][s].pushes <= delivery[f][s].attempts + Faults =>
           sent[f][s].pushes <= delivery[f][s].attempts + Faults'
      /\ \A v \in Workers :
           sent[f][s].pushes <= worker[v].rows[s].attempts + Faults =>
             sent[f][s].pushes <= worker[v].rows[s].attempts + Faults'
  BY <1>1, <1>2, <1>5 DEF Accounted
<1> QED
  BY <1>3, <1>4, <1>5, <1>6 DEF Accounted

\* What is known of a delivery of the event a worker has in hand: nobody else
\* is sending it.
LEMMA Account ==
  ASSUME CountInv, NEW w \in Workers, NEW e \in Events, NEW s \in Subs,
         \A v \in Workers \ {w} : worker[v].stage # "IDLE" => worker[v].event # e,
         worker[w].stage # "IDLE" => worker[w].event = e,
         NEW now, now = delivery[e][s], NEW row, row = worker[w].rows[s],
         NEW pushes, pushes = sent[e][s].pushes,
         NEW accepted, accepted = sent[e][s].accepted
  PROVE  /\ pushes \in Nat /\ accepted \in Nat /\ now.attempts \in Nat
         /\ row.attempts \in Nat /\ Faults \in Nat
         /\ now.status = "NONE" => now.attempts = 0
         /\ accepted <= 1 + Faults
         /\ worker[w].stage # "SENDING" =>
              /\ accepted <= Faults \/ now.status = "DELIVERED"
              /\ pushes <= now.attempts + Faults
         /\ worker[w].stage = "SENDING" =>
              /\ accepted <= Faults \/ row.status = "DELIVERED"
              /\ pushes <= row.attempts + Faults
              /\ now.attempts <= row.attempts /\ row.attempts <= now.attempts + 1
<1>1. /\ accepted \in Nat /\ pushes \in Nat /\ now.attempts \in Nat
      /\ row.attempts \in Nat /\ Faults \in Nat
  BY OutboxAssumption, FaultsType DEF CountInv, ClaimInv, TypeInv, TypeOK, Delivery, Job
<1>2. Accounted(e, s)
  BY DEF CountInv
<1>3. \A v \in Workers : Sending(v, e) => v = w
  BY DEF Sending
<1>4. CASE worker[w].stage # "SENDING"
  <2>1. ~\E v \in Workers : Sending(v, e)
    BY <1>3, <1>4 DEF Sending
  <2> QED
    BY <1>1, <1>2, <1>4, <2>1 DEF Accounted
<1>5. CASE worker[w].stage = "SENDING"
  <2>1. /\ now.status \notin Waiting => row = now
        /\ row.attempts = now.attempts \/ row.attempts = now.attempts + 1
    BY <1>5, SendersRows DEF CountInv
  <2>2. now.status = "DELIVERED" => row.status = "DELIVERED"
    BY <2>1 DEF Waiting
  <2>3. accepted <= Faults \/ row.status = "DELIVERED"
    BY <1>2, <1>3, <2>2 DEF Accounted
  <2>4. pushes <= now.attempts + Faults \/ pushes <= row.attempts + Faults
    BY <1>2, <1>3 DEF Accounted
  <2>5. pushes <= row.attempts + Faults
    BY <1>1, <2>1, <2>4
  <2> QED
    BY <1>1, <1>2, <1>5, <2>1, <2>3, <2>5 DEF Accounted
<1> QED
  BY <1>4, <1>5

\* What is enough to know after the step.
LEMMA AccountedAfter ==
  ASSUME NEW e \in Events, NEW s \in Subs, NEW w \in Workers,
         delivery'[e][s].status = "NONE" => delivery'[e][s].attempts = 0,
         sent'[e][s].accepted <= 1 + Faults',
         \/ /\ sent'[e][s].accepted <= Faults' \/ delivery'[e][s].status = "DELIVERED"
            /\ sent'[e][s].pushes <= delivery'[e][s].attempts + Faults'
         \/ /\ worker'[w].stage = "SENDING" /\ worker'[w].event = e
            /\ sent'[e][s].accepted <= Faults' \/ worker'[w].rows[s].status = "DELIVERED"
            /\ sent'[e][s].pushes <= worker'[w].rows[s].attempts + Faults'
  PROVE  Accounted(e, s)'
BY DEF Accounted, Sending

\* A worker lets its event go: if it was sending, a fault pays for what is lost.
LEMMA LetGoCount ==
  ASSUME CountInv, NEW w \in Workers, worker[w].stage # "IDLE",
         NEW e \in Events, e = worker[w].event, Alone(w, e),
         UNCHANGED delivery, NEW s \in Subs, sent'[e][s] = sent[e][s],
         worker[w].stage = "SENDING" => Faults' = Faults + 1
  PROVE  Accounted(e, s)'
<1> DEFINE now == delivery[e][s]
           row == worker[w].rows[s]
           pushes == sent[e][s].pushes
           accepted == sent[e][s].accepted
<1>1. \A v \in Workers \ {w} : worker[v].stage # "IDLE" => worker[v].event # e
  BY DEF Alone
<1>2. /\ pushes \in Nat /\ accepted \in Nat /\ now.attempts \in Nat
      /\ row.attempts \in Nat /\ Faults \in Nat
      /\ now.status = "NONE" => now.attempts = 0
      /\ accepted <= 1 + Faults
      /\ worker[w].stage # "SENDING" =>
           /\ accepted <= Faults \/ now.status = "DELIVERED"
           /\ pushes <= now.attempts + Faults
      /\ worker[w].stage = "SENDING" =>
           /\ pushes <= row.attempts + Faults
           /\ row.attempts <= now.attempts + 1
  BY <1>1, Account
<1>3. Faults' \in Nat /\ Faults' >= Faults
  BY DEF Alone
<1>4. delivery'[e][s] = now /\ sent'[e][s].pushes = pushes /\ sent'[e][s].accepted = accepted
  OBVIOUS
<1> HIDE DEF now, row, pushes, accepted
<1>5. accepted <= 1 + Faults'
  <2>1. accepted \in Nat /\ Faults \in Nat /\ accepted <= 1 + Faults
    BY <1>2
  <2>2. \A a, f, g \in Nat : a <= 1 + f /\ g >= f => a <= 1 + g
    OBVIOUS
  <2> QED
    BY <1>3, <2>1, <2>2
<1>6. /\ accepted <= Faults' \/ now.status = "DELIVERED"
      /\ pushes <= now.attempts + Faults'
  <2>1. CASE worker[w].stage = "SENDING"
    BY <1>2, <1>3, <2>1
  <2>2. CASE worker[w].stage # "SENDING"
    BY <1>2, <1>3, <2>2
  <2> QED
    BY <2>1, <2>2
<1> QED
  BY <1>2, <1>4, <1>5, <1>6, AccountedAfter

LEMMA ClaimCount ==
  ASSUME CountInv, "OVERRUN" \notin Perils, ClaimInv', NEW w \in Workers,
         NEW e \in Events, Claim(w, e)
  PROVE  CountInv'
<1>1. Alone(w, e) /\ UNCHANGED <<delivery, sent, faults>> /\ worker[w].stage = "IDLE"
  BY ClaimAlone DEF CountInv, Claim
<1>2. ASSUME NEW s \in Subs
      PROVE  Accounted(e, s)'
  <2>1. \A v \in Workers \ {w} : worker[v].stage # "IDLE" => worker[v].event # e
    BY <1>1 DEF Alone
  <2>2. /\ delivery[e][s].status = "NONE" => delivery[e][s].attempts = 0
        /\ sent[e][s].accepted <= 1 + Faults
        /\ sent[e][s].accepted <= Faults \/ delivery[e][s].status = "DELIVERED"
        /\ sent[e][s].pushes <= delivery[e][s].attempts + Faults
    BY <1>1, <2>1, Account
  <2>3. Faults' = Faults
    BY <1>1 DEF Faults
  <2> QED
    BY <1>1, <2>2, <2>3, AccountedAfter
<1> QED
  BY <1>1, <1>2, CountFrom

LEMMA ExpandCount ==
  ASSUME CountInv, ClaimInv', NEW w \in Workers, Expand(w)
  PROVE  CountInv'
<1>0. PICK e \in Events : e = worker[w].event
  BY DEF Expand, CountInv, ClaimInv, TypeInv, JobSound
<1>1. /\ worker[w].stage = "CLAIMED" /\ Alone(w, e)
  BY <1>0, HeldAlone DEF Expand, Progress, CountInv, ClaimInv, TypeInv, JobSound
<1>2. /\ delivery'[e] = Expanded(e, active) /\ active \in SUBSET Subs
      /\ UNCHANGED <<sent, faults>>
  BY <1>0, <1>1 DEF Expand, CountInv, ClaimInv, TypeInv, TypeOK
<1>3. ASSUME NEW s \in Subs
      PROVE  Accounted(e, s)'
  <2>1. \A v \in Workers \ {w} : worker[v].stage # "IDLE" => worker[v].event # e
    BY <1>0, <1>1 DEF Alone
  <2>2. /\ delivery[e][s].status = "NONE" => delivery[e][s].attempts = 0
        /\ sent[e][s].accepted <= 1 + Faults
        /\ sent[e][s].accepted <= Faults \/ delivery[e][s].status = "DELIVERED"
        /\ sent[e][s].pushes <= delivery[e][s].attempts + Faults
    BY <1>0, <1>1, <2>1, Account
  <2>3. Faults' = Faults
    BY <1>0, <1>2 DEF Faults
  <2>4. \/ delivery'[e][s] = delivery[e][s]
        \/ delivery[e][s].status = "NONE" /\ delivery'[e][s] = NewDelivery
    BY <1>0, <1>1, <1>2, ExpandedType DEF CountInv, ClaimInv, TypeInv
  <2>5. NewDelivery.status = "PENDING" /\ NewDelivery.attempts = 0
    BY DEF NewDelivery
  <2>6. CASE delivery'[e][s] = delivery[e][s]
    BY <1>0, <1>2, <2>2, <2>3, <2>6, AccountedAfter
  <2>7. CASE delivery[e][s].status = "NONE" /\ delivery'[e][s] = NewDelivery
    BY <1>0, <1>2, <2>2, <2>3, <2>5, <2>7, AccountedAfter
  <2> QED
    BY <2>4, <2>6, <2>7
<1> QED
  BY <1>0, <1>1, <1>3, CountFrom

LEMMA PushCount ==
  ASSUME CountInv, ClaimInv', NEW w \in Workers, NEW s \in Subs,
         NEW outcome \in Outcome, Push(w, s, outcome)
  PROVE  CountInv'
<1>0. PICK e \in Events : e = worker[w].event
  BY DEF Push, CountInv, ClaimInv, TypeInv, JobSound
<1> DEFINE old == worker[w].rows[s]
<1>1. /\ worker[w].stage = "SENDING" /\ Alone(w, e)
      /\ s \in worker[w].left
  BY <1>0, HeldAlone DEF Push, Progress, CountInv, ClaimInv, TypeInv, JobSound
<1>2. /\ worker'[w].stage = "SENDING" /\ worker'[w].event = e
      /\ worker'[w].rows[s] = Attempted(old, outcome)
      /\ \A x \in Subs \ {s} : worker'[w].rows[x] = worker[w].rows[x]
      /\ UNCHANGED <<delivery, faults>>
  BY <1>0, <1>1 DEF Push, CountInv, ClaimInv, TypeInv, TypeOK, Job
<1>3. Faults' = Faults /\ Faults \in Nat
  BY <1>0, <1>2, FaultsType DEF Faults, CountInv, ClaimInv, TypeInv
<1>4. /\ sent'[e][s].pushes = sent[e][s].pushes + 1
      /\ sent'[e][s].accepted =
           IF outcome = "ACCEPTED" THEN sent[e][s].accepted + 1 ELSE sent[e][s].accepted
      /\ \A x \in Subs \ {s} : sent'[e][x] = sent[e][x]
  BY <1>0, <1>1, CountedAt DEF Push, CountInv, ClaimInv, TypeInv
<1>5. \A v \in Workers \ {w} : worker[v].stage # "IDLE" => worker[v].event # e
  BY <1>0, <1>1 DEF Alone
<1>6. old \in Delivery /\ old.status \in Waiting /\ AttemptLeft(old)
  BY <1>0, <1>1 DEF CountInv, ClaimInv, TypeInv, TypeOK, JobSound, Job
<1>7. ASSUME NEW x \in Subs
      PROVE  /\ sent[e][x].pushes \in Nat /\ sent[e][x].accepted \in Nat
             /\ delivery[e][x].status = "NONE" => delivery[e][x].attempts = 0
             /\ sent[e][x].accepted <= 1 + Faults
             /\ sent[e][x].accepted <= Faults \/ worker[w].rows[x].status = "DELIVERED"
             /\ sent[e][x].pushes <= worker[w].rows[x].attempts + Faults
             /\ worker[w].rows[x].attempts \in Nat
  BY <1>0, <1>1, <1>5, Account
<1>8. Accounted(e, s)'
  <2>1. /\ Attempted(old, outcome).attempts = old.attempts + 1
        /\ Attempted(old, outcome).status = "DELIVERED" <=> outcome = "ACCEPTED"
    BY <1>0, <1>6, AttemptedType
  <2>2. sent[e][s].accepted <= Faults
    BY <1>0, <1>6, <1>7 DEF Waiting
  <2>3. sent'[e][s].pushes <= Attempted(old, outcome).attempts + Faults
    BY <1>0, <1>3, <1>4, <1>7, <2>1
  <2>4. sent'[e][s].accepted <= 1 + Faults
    BY <1>0, <1>3, <1>4, <1>7, <2>2
  <2>5. sent'[e][s].accepted <= Faults \/ Attempted(old, outcome).status = "DELIVERED"
    BY <1>0, <1>4, <2>1, <2>2
  <2> QED
    BY <1>0, <1>1, <1>2, <1>3, <1>7, <2>3, <2>4, <2>5, AccountedAfter
<1>9. ASSUME NEW x \in Subs \ {s}
      PROVE  Accounted(e, x)'
  BY <1>0, <1>1, <1>2, <1>3, <1>4, <1>7, AccountedAfter
<1> QED
  BY <1>0, <1>1, <1>8, <1>9, CountFrom

LEMMA PushBreaksCount ==
  ASSUME CountInv, ClaimInv', NEW w \in Workers, NEW s \in Subs,
         NEW accepted \in BOOLEAN, PushBreaks(w, s, accepted)
  PROVE  CountInv'
<1>0. PICK e \in Events : e = worker[w].event
  BY DEF PushBreaks, CountInv, ClaimInv, TypeInv, JobSound
<1> DEFINE old == worker[w].rows[s]
<1>1. /\ worker[w].stage = "SENDING" /\ Alone(w, e)
      /\ s \in worker[w].left /\ UNCHANGED delivery
  BY <1>0, HeldAlone DEF PushBreaks, HandleFailure, CountInv, ClaimInv, TypeInv, JobSound
<1>2. Faults' = Faults + 1 /\ Faults \in Nat
  <2>1. "FAILURE" \in Fault
    BY DEF Fault
  <2> QED
    BY <2>1, StrikesType, FaultsType
    DEF PushBreaks, HandleFailure, CountInv, ClaimInv, TypeInv
<1>3. /\ sent'[e][s].pushes = sent[e][s].pushes + 1
      /\ sent'[e][s].accepted =
           IF accepted THEN sent[e][s].accepted + 1 ELSE sent[e][s].accepted
      /\ \A x \in Subs \ {s} : sent'[e][x] = sent[e][x]
  BY <1>0, <1>1, CountedAt DEF PushBreaks, CountInv, ClaimInv, TypeInv
<1>4. \A v \in Workers \ {w} : worker[v].stage # "IDLE" => worker[v].event # e
  BY <1>0, <1>1 DEF Alone
<1>5. old.status \in Waiting /\ old.attempts = delivery[e][s].attempts
  <2>1. old.status \in Waiting /\ old = worker[w].loaded[s]
    BY <1>0, <1>1 DEF CountInv, ClaimInv, TypeInv, JobSound
  <2> QED
    BY <1>0, <1>1, <2>1, SendersRows DEF CountInv
<1>6. /\ sent[e][s].pushes \in Nat /\ sent[e][s].accepted \in Nat
      /\ delivery[e][s].status = "NONE" => delivery[e][s].attempts = 0
      /\ sent[e][s].accepted <= Faults \/ old.status = "DELIVERED"
      /\ sent[e][s].pushes <= old.attempts + Faults /\ old.attempts \in Nat
  BY <1>0, <1>1, <1>4, Account
<1>7. sent[e][s].accepted <= Faults
  BY <1>0, <1>5, <1>6 DEF Waiting
<1>8. /\ sent'[e][s].accepted <= Faults' /\ sent'[e][s].accepted <= 1 + Faults'
      /\ sent'[e][s].pushes <= delivery[e][s].attempts + Faults'
  BY <1>0, <1>2, <1>3, <1>5, <1>6, <1>7
<1>9. Accounted(e, s)'
  BY <1>0, <1>1, <1>6, <1>8, AccountedAfter
<1>10. ASSUME NEW x \in Subs \ {s}
       PROVE  Accounted(e, x)'
  BY <1>0, <1>1, <1>2, <1>3, LetGoCount
<1> QED
  BY <1>0, <1>1, <1>9, <1>10, CountFrom

LEMMA SaveOutcomesCount ==
  ASSUME CountInv, ClaimInv', NEW w \in Workers, SaveOutcomes(w)
  PROVE  CountInv'
<1>0. PICK e \in Events : e = worker[w].event
  BY DEF SaveOutcomes, CountInv, ClaimInv, TypeInv, JobSound
<1>1. /\ worker[w].stage = "SENDING" /\ Alone(w, e)
      /\ UNCHANGED <<sent, faults>>
  BY <1>0, HeldAlone DEF SaveOutcomes, Progress, CountInv, ClaimInv, TypeInv, JobSound
<1>2. ASSUME NEW s \in Subs
      PROVE  Accounted(e, s)'
  <2> DEFINE row == worker[w].rows[s]
  <2>1. \A v \in Workers \ {w} : worker[v].stage # "IDLE" => worker[v].event # e
    BY <1>0, <1>1 DEF Alone
  <2>2. /\ delivery[e][s].status = "NONE" => delivery[e][s].attempts = 0
        /\ sent[e][s].accepted <= 1 + Faults
        /\ sent[e][s].accepted <= Faults \/ row.status = "DELIVERED"
        /\ sent[e][s].pushes <= row.attempts + Faults
    BY <1>0, <1>1, <2>1, Account
  <2>3. delivery'[e][s].status = row.status /\ delivery'[e][s].attempts = row.attempts
    BY <1>0, SavedRow DEF CountInv
  <2>4. row.status = "NONE" => row.attempts = 0
    <3>1. \/ row.status = delivery[e][s].status
          \/ row.status \notin {"NONE", "PENDING"}
      BY <1>0, <1>1, SendersRows DEF CountInv
    <3>2. delivery[e][s].status \notin Waiting => row = delivery[e][s]
      BY <1>0, <1>1, SendersRows DEF CountInv
    <3> QED
      BY <2>2, <3>1, <3>2 DEF Waiting
  <2>5. Faults' = Faults
    BY <1>0, <1>1 DEF Faults
  <2> QED
    BY <1>0, <1>1, <2>2, <2>3, <2>4, <2>5, AccountedAfter
<1> QED
  BY <1>0, <1>1, <1>2, CountFrom

LEMMA WorkerCount ==
  ASSUME CountInv, "OVERRUN" \notin Perils, NEW w \in Workers, WorkerStep(w)
  PROVE  CountInv'
<1>1. ClaimInv' /\ ClaimInv
  BY WorkerClaims DEF CountInv
<1>2. ASSUME worker[w].stage # "IDLE", Alone(w, worker[w].event), UNCHANGED <<delivery, sent>>,
             worker[w].stage = "SENDING" => Faults' = Faults + 1
      PROVE  CountInv'
  <2>1. PICK e \in Events : e = worker[w].event
    BY <1>1, <1>2 DEF ClaimInv, TypeInv, JobSound
  <2>2. \A s \in Subs : Accounted(e, s)'
    BY <1>2, <2>1, LetGoCount
  <2> QED
    BY <1>1, <1>2, <2>1, <2>2, CountFrom
<1>3. ASSUME NEW f \in Events, Claim(w, f)
      PROVE  CountInv'
  BY <1>1, <1>3, ClaimCount
<1>4. CASE FinishStale(w)
  BY <1>1, <1>2, <1>4, HeldAlone DEF FinishStale, Progress
<1>5. CASE Expand(w)
  BY <1>1, <1>5, ExpandCount
<1>6. ASSUME NEW s \in Subs, NEW outcome \in Outcome, Push(w, s, outcome)
      PROVE  CountInv'
  BY <1>1, <1>6, PushCount
<1>7. CASE SaveOutcomes(w)
  BY <1>1, <1>7, SaveOutcomesCount
<1>8. CASE Finish(w)
  BY <1>1, <1>2, <1>8, HeldAlone DEF Finish, Progress
<1>9. CASE Fail(w)
  <2>1. "FAILURE" \in Fault
    BY DEF Fault
  <2>2. Faults' = Faults + 1
    BY <1>1, <1>9, <2>1, StrikesType DEF Fail, HandleFailure, ClaimInv, TypeInv
  <2> QED
    BY <1>1, <1>2, <1>9, <2>2, HeldAlone DEF Fail, HandleFailure
<1>10. ASSUME NEW s \in Subs, NEW accepted \in BOOLEAN, PushBreaks(w, s, accepted)
       PROVE  CountInv'
  BY <1>1, <1>10, PushBreaksCount
<1>11. CASE Crash(w)
  <2>1. "CRASH" \in Fault
    BY DEF Fault
  <2>2. Faults' = Faults + 1
    BY <1>1, <1>11, <2>1, StrikesType DEF Crash, ClaimInv, TypeInv
  <2> QED
    BY <1>1, <1>2, <1>11, <2>2, HeldAlone DEF Crash
<1> QED
  BY <1>3, <1>4, <1>5, <1>6, <1>7, <1>8, <1>9, <1>10, <1>11 DEF WorkerStep, Progress

LEMMA InitCount == Init => CountInv
<1> SUFFICES ASSUME Init PROVE CountInv
  OBVIOUS
<1>1. ClaimInv
  BY InitClaims
<1>2. Faults = 0
  BY DEF Init, Faults, Fault
<1>3. ASSUME NEW e \in Events, NEW s \in Subs
      PROVE  Accounted(e, s)
  <2>1. /\ sent[e][s].pushes = 0 /\ sent[e][s].accepted = 0
        /\ delivery[e][s].attempts = 0
    BY DEF Init, NoRows, NoDelivery
  <2> QED
    BY <1>2, <2>1 DEF Accounted
<1> QED
  BY <1>1, <1>3 DEF CountInv

LEMMA StepCount ==
  ASSUME "OVERRUN" \notin Perils
  PROVE  CountInv /\ [Next]_vars => CountInv'
<1> SUFFICES ASSUME CountInv, [Next]_vars PROVE CountInv'
  OBVIOUS
<1>1. ClaimInv /\ ClaimInv' /\ TypeInv
  BY StepClaims DEF CountInv, ClaimInv
<1>2. CASE UNCHANGED vars
  BY <1>1, <1>2 DEF vars, CountInv, Accounted, Sending, Faults
<1>3. CASE Environment \/ Clock
  <2>1. UNCHANGED <<worker, sent, faults>>
    BY <1>1, <1>3, RestFrame
  <2>2. \A e \in Events, s \in Subs :
          /\ delivery'[e][s].status = delivery[e][s].status
          /\ delivery'[e][s].attempts = delivery[e][s].attempts
    BY <1>1, <1>3, RestFrame
  <2> QED
    BY <1>1, <2>1, <2>2 DEF CountInv, Accounted, Sending, Faults
<1>4. ASSUME NEW w \in Workers, WorkerStep(w)
      PROVE  CountInv'
  BY <1>4, WorkerCount
<1> QED
  BY <1>2, <1>3, <1>4 DEF Next

\* Unless a worker outlives its claim, a push is accepted again only when a
\* crash or a failure lost the outcome of the one before
\* (notifications/service.py, process_event and process_pending).
THEOREM DuplicatesAlwaysPaidFor ==
  ASSUME "OVERRUN" \notin Perils
  PROVE  Spec => []DuplicatesPaidFor
<1>1. CountInv => DuplicatesPaidFor
  BY DEF CountInv, Accounted, DuplicatesPaidFor
<1> QED
  BY InitCount, StepCount, <1>1, PTL DEF Spec

\* Unless a worker outlives its claim, the pushes beyond the configured limit
\* are no more than the crashes and failures that lost an outcome
\* (notifications/service.py, process_event).
THEOREM RetriesAlwaysStop ==
  ASSUME "OVERRUN" \notin Perils
  PROVE  Spec => []RetriesStopButForFaults
<1>1. CountInv => RetriesStopButForFaults
  <2> SUFFICES ASSUME CountInv, NEW e \in Events, NEW s \in Subs
               PROVE  sent[e][s].pushes <= MaxAttempts + Faults
    BY DEF RetriesStopButForFaults
  <2>1. /\ sent[e][s].pushes \in Nat
        /\ delivery[e][s].attempts \in Nat /\ delivery[e][s].attempts <= MaxAttempts
        /\ \A w \in Workers :
             worker[w].rows[s].attempts \in Nat /\ worker[w].rows[s].attempts <= MaxAttempts
    BY OutboxAssumption DEF CountInv, ClaimInv, TypeInv, TypeOK, Delivery, Job
  <2>2. Faults \in Nat
    BY FaultsType DEF CountInv, ClaimInv, TypeInv
  <2>3. CASE sent[e][s].pushes <= delivery[e][s].attempts + Faults
    BY <2>1, <2>2, <2>3, OutboxAssumption
  <2>4. ASSUME NEW w \in Workers, sent[e][s].pushes <= worker[w].rows[s].attempts + Faults
        PROVE  sent[e][s].pushes <= MaxAttempts + Faults
    BY <2>1, <2>2, <2>4, OutboxAssumption
  <2> QED
    BY <2>3, <2>4 DEF CountInv, Accounted
<1> QED
  BY InitCount, StepCount, <1>1, PTL DEF Spec

=============================================================================
