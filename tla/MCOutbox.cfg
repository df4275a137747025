\* One event, two subscriptions, the scheduler and a manual run; one crash or
\* failure; no worker outlives its claim.
SPECIFICATION Spec
CONSTANTS
  NumEvents = 1
  Subs = {s1, s2}
  Workers = {scheduler, manual}
  Scheduler = scheduler
  NoWorker = NoWorker
  MaxAttempts = 2
  Perils = {"CRASH", "FAILURE"}
  MaxFaults = 1
INVARIANTS
  DuplicatesPaidFor
  RetriesStopButForFaults
  ProcessedMeansDone
PROPERTIES
  OutcomesFinal
  EventuallyProcessed
CHECK_DEADLOCK FALSE
