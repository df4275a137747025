------------------------- MODULE NotificationOutbox -------------------------
(***************************************************************************)
(* The notification outbox (app/notifications): events recorded by roster  *)
(* transactions and by the reminder and digest generators, workers that    *)
(* claim them under a five-minute lease, one delivery row per event and    *)
(* push subscription, retries with backoff, and what is lost or repeated   *)
(* when a worker crashes, fails or outlives its lease.                     *)
(*                                                                         *)
(* A commit ends an action.  Between two commits a worker works on the     *)
(* rows its session has loaded (expire_on_commit=False), so those copies   *)
(* are state of the worker.  Instants are abstracted to whether they have  *)
(* been reached; actions of the clock reach them.                          *)
(***************************************************************************)
EXTENDS Integers

CONSTANTS
  NumEvents,     \* bound: events, numbered in the order of their created_at
  Subs,          \* push subscriptions
  Workers,       \* processes that run process_pending
  Scheduler,     \* the worker that runs for ever; others run on demand
  NoWorker,      \* null claim token
  MaxAttempts,   \* notification_max_attempts
  Perils,        \* kinds of fault that happen
  MaxFaults      \* bound: faults in a behaviour

Events == 1 .. NumEvents

\* A worker is killed while it holds a claim; an exception leaves process_event;
\* an event is claimed while another worker still works on it.
Fault == {"CRASH", "FAILURE", "OVERRUN"}

ASSUME OutboxAssumption ==
  /\ NumEvents \in Nat
  /\ Scheduler \in Workers
  /\ NoWorker \notin Workers
  /\ MaxAttempts \in Nat \ {0}
  /\ Perils \subseteq Fault
  /\ MaxFaults \in Nat

VARIABLES
  event,      \* the notification_events table
  delivery,   \* the notification_deliveries table
  active,     \* active subscriptions of users who take notifications
  current,    \* whether each event is still worth sending at the moment
  worker,     \* what each worker is doing and the rows in its session
  sent,       \* history: pushes made, and pushes the provider accepted
  steady,     \* history: subscriptions reachable since the event was recorded
  faults      \* history: faults of each kind so far

vars == <<event, delivery, active, current, worker, sent, steady, faults>>

-----------------------------------------------------------------------------
EventStatus == {"NONE", "PENDING", "PROCESSING", "RETRY", "PROCESSED"}
DeliveryStatus ==
  {"NONE", "PENDING", "RETRY", "DELIVERED", "PERMANENT_FAILURE", "FAILED"}
Terminal == {"DELIVERED", "PERMANENT_FAILURE", "FAILED"}
Waiting == {"PENDING", "RETRY"}

\* due: available_at has been reached or, of a claimed event, claimed_at is five
\* minutes ago.  dropped: it was finished because it was no longer current.
Event == [status : EventStatus, due : BOOLEAN, claim : Workers \cup {NoWorker},
          dropped : BOOLEAN]
NoEvent == [status |-> "NONE", due |-> FALSE, claim |-> NoWorker, dropped |-> FALSE]

\* due: next_attempt_at has been reached.
Delivery == [status : DeliveryStatus, attempts : 0 .. MaxAttempts, due : BOOLEAN]
NoDelivery == [status |-> "NONE", attempts |-> 0, due |-> FALSE]
NewDelivery == [status |-> "PENDING", attempts |-> 0, due |-> TRUE]

\* loaded: the deliveries as committed when the worker read them; rows: as it
\* has changed them since; reach: the active subscriptions it read; left: the
\* deliveries its loop has still to send.
Job == [stage : {"IDLE", "CLAIMED", "SENDING", "SENT"}, event : 0 .. NumEvents,
        loaded : [Subs -> Delivery], rows : [Subs -> Delivery],
        reach : SUBSET Subs, left : SUBSET Subs]
NoRows == [s \in Subs |-> NoDelivery]
NoJob == [stage |-> "IDLE", event |-> 0, loaded |-> NoRows, rows |-> NoRows,
          reach |-> {}, left |-> {}]

Faults == faults["CRASH"] + faults["FAILURE"] + faults["OVERRUN"]

Strikes(kind) ==
  /\ kind \in Perils
  /\ Faults < MaxFaults
  /\ faults' = [faults EXCEPT ![kind] = @ + 1]

TypeOK ==
  /\ event \in [Events -> Event]
  /\ delivery \in [Events -> [Subs -> Delivery]]
  /\ active \subseteq Subs
  /\ current \in [Events -> BOOLEAN]
  /\ worker \in [Workers -> Job]
  /\ sent \in [Events -> [Subs -> [pushes : Nat, accepted : Nat]]]
  /\ steady \in [Events -> SUBSET Subs]
  /\ faults \in [Fault -> 0 .. MaxFaults]

Init ==
  /\ event = [e \in Events |-> NoEvent]
  /\ delivery = [e \in Events |-> NoRows]
  /\ active = {}
  /\ current = [e \in Events |-> TRUE]
  /\ worker = [w \in Workers |-> NoJob]
  /\ sent = [e \in Events |-> [s \in Subs |-> [pushes |-> 0, accepted |-> 0]]]
  /\ steady = [e \in Events |-> {}]
  /\ faults = [kind \in Fault |-> 0]

-----------------------------------------------------------------------------
(* The rest of the program, and the clock.                                 *)

Open(e) == event[e].status \notin {"NONE", "PROCESSED"}

\* record_event and the reminder and digest inserts: a known key changes nothing.
Record(e, due) ==
  /\ event[e].status = "NONE"
  /\ \A f \in 1 .. e - 1 : event[f].status # "NONE"
  /\ event' = [event EXCEPT ![e].status = "PENDING", ![e].due = due]
  /\ steady' = [steady EXCEPT ![e] = active]
  /\ UNCHANGED <<delivery, active, current, worker, sent, faults>>

\* save_subscription, or the preference that lets the events through.
Register(s) ==
  /\ active' = active \cup {s}
  /\ UNCHANGED <<event, delivery, current, worker, sent, steady, faults>>

\* disable_subscription, or the preference that keeps the events out.
Disable(s) ==
  /\ active' = active \ {s}
  /\ steady' = [e \in Events |-> steady[e] \ {s}]
  /\ UNCHANGED <<event, delivery, current, worker, sent, faults>>

\* The Workday is cancelled or scheduled again, the slot filled or opened, the
\* reminder's grace over: the event's subject is current no longer, or again.
ChangeCurrency(e) ==
  /\ Open(e)
  /\ current' = [current EXCEPT ![e] = ~@]
  /\ UNCHANGED <<event, delivery, active, worker, sent, steady, faults>>

\* available_at is reached, or the lease of a claim ends.
EventDue(e) ==
  /\ Open(e)
  /\ ~event[e].due
  /\ event' = [event EXCEPT ![e].due = TRUE]
  /\ UNCHANGED <<delivery, active, current, worker, sent, steady, faults>>

\* next_attempt_at is reached.
DeliveryDue(e, s) ==
  /\ delivery[e][s].status \in Waiting
  /\ ~delivery[e][s].due
  /\ delivery' = [delivery EXCEPT ![e][s].due = TRUE]
  /\ UNCHANGED <<event, active, current, worker, sent, steady, faults>>

-----------------------------------------------------------------------------
(* A worker.                                                               *)

ClaimableUnclaimed(e) == event[e].status \in {"PENDING", "RETRY"} /\ event[e].due
Claimable(e) == Open(e) /\ event[e].due

Busy(w, e) == \E v \in Workers \ {w} : worker[v].stage # "IDLE" /\ worker[v].event = e

\* process_pending claims the oldest event that is due, one whose claim has
\* expired included, and commits.
Claim(w, e) ==
  /\ worker[w].stage = "IDLE"
  /\ Claimable(e)
  /\ \A f \in 1 .. e - 1 : ~Claimable(f)
  /\ event' = [event EXCEPT ![e].status = "PROCESSING", ![e].due = FALSE,
                            ![e].claim = w]
  /\ worker' = [worker EXCEPT ![w] = [NoJob EXCEPT !.stage = "CLAIMED", !.event = e]]
  /\ IF Busy(w, e) THEN Strikes("OVERRUN") ELSE UNCHANGED faults
  /\ UNCHANGED <<delivery, active, current, sent, steady>>

\* The event row as a worker leaves it, whoever holds its claim by then.
Finished(e) == [event[e] EXCEPT !.status = "PROCESSED", !.due = FALSE, !.claim = NoWorker]
Retried(e) == [event[e] EXCEPT !.status = "RETRY", !.due = FALSE, !.claim = NoWorker]

\* _finish_stale_event: the deliveries stay as they are.
FinishStale(w) ==
  LET e == worker[w].event
  IN  /\ worker[w].stage = "CLAIMED"
      /\ ~current[e]
      /\ event' = [event EXCEPT ![e] = [Finished(e) EXCEPT !.dropped = TRUE]]
      /\ worker' = [worker EXCEPT ![w] = NoJob]
      /\ UNCHANGED <<delivery, active, current, sent, steady, faults>>

ExpandedAfresh(e, reach) ==
  [s \in Subs |-> IF s \in reach THEN NewDelivery ELSE delivery[e][s]]
Expanded(e, reach) ==
  [s \in Subs |-> IF s \in reach /\ delivery[e][s].status = "NONE" THEN NewDelivery
                  ELSE delivery[e][s]]

AnyDue(rows) == {s \in Subs : rows[s].status # "NONE" /\ rows[s].due}
DueNow(rows) == {s \in Subs : rows[s].status \in Waiting /\ rows[s].due}

Unreachable(rows, S) ==
  [s \in Subs |-> IF s \in S THEN [rows[s] EXCEPT !.status = "PERMANENT_FAILURE"]
                  ELSE rows[s]]

\* process_event commits a delivery for every active subscription it is for;
\* its loop then gives up those that are due and no longer reachable.
Expand(w) ==
  LET e == worker[w].event
      reach == active
      rows == Expanded(e, reach)
  IN  /\ worker[w].stage = "CLAIMED"
      /\ current[e]
      /\ delivery' = [delivery EXCEPT ![e] = rows]
      /\ worker' = [worker EXCEPT ![w] =
                      [stage |-> "SENDING", event |-> e, loaded |-> rows,
                       rows |-> Unreachable(rows, DueNow(rows) \ reach),
                       reach |-> reach, left |-> DueNow(rows) \cap reach]]
      /\ UNCHANGED <<event, active, current, sent, steady, faults>>

\* How the provider answers: with success, with 404 or 410, or otherwise.
Outcome == {"ACCEPTED", "GONE", "REJECTED"}

AttemptedUncounted(d, outcome) ==
  [status |-> CASE outcome = "ACCEPTED" -> "DELIVERED"
                [] outcome = "GONE" -> "PERMANENT_FAILURE"
                [] OTHER -> "RETRY",
   attempts |-> d.attempts, due |-> outcome # "REJECTED"]

\* A delivery after an attempt: 404 and 410 are permanent, anything else that the
\* provider or the configuration refuses is retried until the limit.
Attempted(d, outcome) ==
  LET attempts == d.attempts + 1
      status == CASE outcome = "ACCEPTED" -> "DELIVERED"
                  [] outcome = "GONE" -> "PERMANENT_FAILURE"
                  [] OTHER -> IF attempts >= MaxAttempts THEN "FAILED" ELSE "RETRY"
  IN  [status |-> status, attempts |-> attempts, due |-> status # "RETRY"]

Counted(e, s, accepted) ==
  [sent EXCEPT ![e][s].pushes = @ + 1,
               ![e][s].accepted = IF accepted THEN @ + 1 ELSE @]

\* One turn of the loop: the outcome is kept in memory, not committed.
Push(w, s, outcome) ==
  /\ worker[w].stage = "SENDING"
  /\ s \in worker[w].left
  /\ worker' = [worker EXCEPT ![w].left = @ \ {s},
                              ![w].rows[s] = Attempted(@, outcome)]
  /\ sent' = Counted(worker[w].event, s, outcome = "ACCEPTED")
  /\ UNCHANGED <<event, delivery, active, current, steady, faults>>

\* A column is written only if the worker changed it.
Written(loaded, mine, now) ==
  [status |-> IF mine.status # loaded.status THEN mine.status ELSE now.status,
   attempts |-> IF mine.attempts # loaded.attempts THEN mine.attempts ELSE now.attempts,
   due |-> IF mine.due # loaded.due THEN mine.due ELSE now.due]

\* Subscriptions the provider has reported gone.
Gone(job) ==
  {s \in job.reach : /\ job.rows[s].status = "PERMANENT_FAILURE"
                     /\ job.rows[s] # job.loaded[s]}

\* The commit after the loop.
SaveOutcomes(w) ==
  LET job == worker[w]
      e == job.event
  IN  /\ job.stage = "SENDING"
      /\ job.left = {}
      /\ delivery' = [delivery EXCEPT ![e] = [s \in Subs |->
                        Written(job.loaded[s], job.rows[s], delivery[e][s])]]
      /\ active' = active \ Gone(job)
      /\ steady' = [f \in Events |-> steady[f] \ Gone(job)]
      /\ worker' = [worker EXCEPT ![w] =
                      [NoJob EXCEPT !.stage = "SENT", !.event = e, !.rows = job.rows]]
      /\ UNCHANGED <<event, current, sent, faults>>

SettledWithFirst(e, rows) ==
  IF \A s \in Subs : rows[s].status \in Waiting THEN Retried(e) ELSE Finished(e)
Settled(e, rows) ==
  IF \E s \in Subs : rows[s].status \in Waiting THEN Retried(e) ELSE Finished(e)

\* The last commit: the event's outcome, from the deliveries in memory.
Finish(w) ==
  LET job == worker[w]
      e == job.event
  IN  /\ job.stage = "SENT"
      /\ event' = [event EXCEPT ![e] = Settled(e, job.rows)]
      /\ worker' = [worker EXCEPT ![w] = NoJob]
      /\ UNCHANGED <<delivery, active, current, sent, steady, faults>>

\* process_pending's handler of an exception: what was not committed is rolled
\* back, and the event is retried if the claim is still this worker's.
HandleFailure(w) ==
  LET e == worker[w].event
  IN  /\ Strikes("FAILURE")
      /\ event' = [event EXCEPT ![e] = IF @.claim = w THEN Retried(e) ELSE @]
      /\ worker' = [worker EXCEPT ![w] = NoJob]
      /\ UNCHANGED <<delivery, active, current, steady>>

\* A database error, at any point ...
Fail(w) ==
  /\ worker[w].stage # "IDLE"
  /\ HandleFailure(w)
  /\ UNCHANGED sent

\* ... or a connection error or timeout of the push, which is neither a
\* WebPushException nor a RuntimeError or ValueError.
PushBreaks(w, s, accepted) ==
  /\ worker[w].stage = "SENDING"
  /\ s \in worker[w].left
  /\ HandleFailure(w)
  /\ sent' = Counted(worker[w].event, s, accepted)

\* The process dies with its claim; whoever restarts it starts idle.
Crash(w) ==
  /\ worker[w].stage # "IDLE"
  /\ Strikes("CRASH")
  /\ worker' = [worker EXCEPT ![w] = NoJob]
  /\ UNCHANGED <<event, delivery, active, current, sent, steady>>

-----------------------------------------------------------------------------
\* What a worker does with its claim when nothing goes wrong.
Progress(w) ==
  \/ FinishStale(w)
  \/ Expand(w)
  \/ \E s \in Subs, outcome \in Outcome : Push(w, s, outcome)
  \/ SaveOutcomes(w)
  \/ Finish(w)

Environment ==
  \/ \E e \in Events, due \in BOOLEAN : Record(e, due)
  \/ \E s \in Subs : Register(s) \/ Disable(s)
  \/ \E e \in Events : ChangeCurrency(e)

Clock ==
  \E e \in Events : EventDue(e) \/ \E s \in Subs : DeliveryDue(e, s)

WorkerStep(w) ==
  \/ \E e \in Events : Claim(w, e)
  \/ Progress(w)
  \/ Fail(w)
  \/ \E s \in Subs, accepted \in BOOLEAN : PushBreaks(w, s, accepted)
  \/ Crash(w)

Next == Environment \/ Clock \/ \E w \in Workers : WorkerStep(w)

\* Time passes; a worker that holds a claim goes on until it is done or dies,
\* because every push has a timeout; the scheduler never stops claiming.
Fairness ==
  /\ \A e \in Events :
       /\ WF_vars(EventDue(e))
       /\ \A s \in Subs : WF_vars(DeliveryDue(e, s))
  /\ \A w \in Workers : WF_vars(Progress(w))
  /\ WF_vars(\E e \in Events : Claim(Scheduler, e))

Spec == Init /\ [][Next]_vars /\ Fairness

-----------------------------------------------------------------------------
\* A push is accepted again only if a crash or a failure lost the outcome of the
\* one before: a committed outcome is never repeated.
DuplicatesPaidFor ==
  \A e \in Events, s \in Subs : sent[e][s].accepted <= 1 + Faults

\* Pushes beyond the configured limit are those whose outcome was lost.
RetriesStopButForFaults ==
  \A e \in Events, s \in Subs : sent[e][s].pushes <= MaxAttempts + Faults

\* Transient failures stop at the configured limit.
RetriesStop ==
  \A e \in Events, s \in Subs : sent[e][s].pushes <= MaxAttempts

\* No delivery is made twice: workers do not own the same event at the same time,
\* and a completed delivery is not repeated.
DeliveredOnce ==
  \A e \in Events, s \in Subs : sent[e][s].accepted <= 1

\* An event that was not dropped as stale is processed only when no delivery of
\* it waits, and every subscription that could be reached all along has been
\* delivered to or tried up to the limit: no one is forgotten.
ProcessedMeansDone ==
  \A e \in Events :
    event[e].status = "PROCESSED" /\ ~event[e].dropped =>
      /\ \A s \in Subs : delivery[e][s].status \notin Waiting
      /\ \A s \in steady[e] : delivery[e][s].status \in {"DELIVERED", "FAILED"}

\* A delivery that has reached its end is never opened again, nor is an event.
OutcomesFinal ==
  [][\A e \in Events :
       /\ event[e].status = "PROCESSED" => event'[e] = event[e]
       /\ \A s \in Subs :
            delivery[e][s].status \in Terminal => delivery'[e][s] = delivery[e][s]]_vars

\* Every recorded event is processed in the end: no claim is lost with its
\* worker, and no retry goes on for ever.
EventuallyProcessed ==
  \A e \in Events :
    event[e].status = "PENDING" ~> event[e].status = "PROCESSED"
=============================================================================
