------------------------------ MODULE Scheduler ------------------------------
(* The scheduler's tick: sources in a fixed order, programmes, maps, then    *)
(* Contractor access, in one session that keeps what it first read; and      *)
(* administrators who refresh and switch sources and maps at any time.       *)
EXTENDS TrackMaps, Sequences

CONSTANTS
  Schedulers, Requests,    \* processes that tick; requests of administrators
  Order,                   \* the providers as a tick visits them
  MaxRequests, MaxFaults   \* bounds on requests and on crashes and exceptions

ASSUME SchedulerAssumption == Workers = Schedulers \cup Requests /\ Schedulers \cap Requests = {}

VARIABLES
  sources,    \* the providers' rows
  job,        \* what a worker is doing, and the rows its session keeps
  requests, faults

ownVars == <<sources, job, requests, faults>>
schedulerVars == <<mapVars, ownVars>>

Visited == {Order[i] : i \in 1..Len(Order)}
SourceRow == [enabled : BOOLEAN,
           status : {"DISABLED", "FETCHING", "SETTLED"},  \* READY, OK, PARTIAL or ERROR
           lately : BOOLEAN,                              \* tried within ten minutes
           due : BOOLEAN]
NewSource == [enabled |-> TRUE, status |-> "SETTLED", lately |-> FALSE, due |-> TRUE]
Idle == [at |-> "idle"]

SchedulerInit ==
  /\ MapInit
  /\ sources = [p \in Visited |-> NewSource]
  /\ job = [w \in Workers |-> Idle]
  /\ requests = 0 /\ faults = 0

At(w, step) == job[w].at = step
Goes(w, step) == job' = [job EXCEPT ![w].at = step]
Stops(w) == job' = [job EXCEPT ![w] = Idle]
Asked == requests < MaxRequests /\ requests' = requests + 1
Fault == faults < MaxFaults /\ faults' = faults + 1

\* The advisory lock is kept on a connection of its own for the whole tick.
Locked == \E s \in Schedulers : ~At(s, "idle")

(***************************************************************************)
(* Refreshing a source.  A row that a session has loaded is not read again *)
(* by the locking select; it is, after a rollback.                         *)
(***************************************************************************)
InProgressForGood(read) == read.status = "FETCHING"
InProgress(read) == read.status = "FETCHING" /\ read.lately
Stored(read, current, new) == IF read = new THEN current ELSE new

MarkFetching(w, p, read) ==
  /\ ~InProgress(read[p])
  /\ sources' = [sources EXCEPT ![p].status = Stored(read[p].status, @, "FETCHING"),
                               ![p].lately = TRUE]
  /\ job' = [job EXCEPT ![w] = [at |-> "fetching", of |-> p,
       read |-> [read EXCEPT ![p].status = "FETCHING", ![p].lately = TRUE]]]

\* A tick goes on to the next source that, by what it has read, is enabled and
\* due; then to the programmes, which ExternalCalendar reads, and the maps.
Position(p) == CHOOSE i \in 1..Len(Order) : Order[i] = p
FromSource(i, read) ==
  LET left == {j \in i..Len(Order) : read[Order[j]].enabled /\ read[Order[j]].due}
  IN  IF left = {} THEN [at |-> "maps"]
      ELSE [at |-> "source", of |-> Order[CHOOSE j \in left : \A k \in left : j <= k],
            read |-> read]
AfterFetch(w, p, read) ==
  IF w \in Schedulers THEN FromSource(Position(p) + 1, read) ELSE Idle

FetchedOK(w) ==
  LET p == job[w].of  read == job[w].read
  IN  /\ At(w, "fetching")
      /\ sources' = [sources EXCEPT ![p].status = Stored(read[p].status, @, "SETTLED"),
                                   ![p].due = FALSE]
      /\ job' = [job EXCEPT ![w] =
           AfterFetch(w, p, [read EXCEPT ![p].status = "SETTLED", ![p].due = FALSE])]
      /\ UNCHANGED <<requests, faults, mapVars>>

\* The error is recorded after a rollback, on rows read anew.
FetchFailed(w) ==
  LET p == job[w].of
  IN  /\ At(w, "fetching")
      /\ sources' = [sources EXCEPT ![p].status = "SETTLED", ![p].due = FALSE]
      /\ job' = [job EXCEPT ![w] = AfterFetch(w, p, sources')]
      /\ UNCHANGED <<requests, faults, mapVars>>

(***************************************************************************)
(* A tick.                                                                 *)
(***************************************************************************)
TickBegin(s) ==
  /\ At(s, "idle") /\ ~Locked
  /\ job' = [job EXCEPT ![s] = FromSource(1, sources)]
  /\ UNCHANGED <<sources, requests, faults, mapVars>>

SourceBegun(s) ==
  /\ At(s, "source")
  /\ MarkFetching(s, job[s].of, job[s].read)
  /\ UNCHANGED <<requests, faults, mapVars>>

\* The exception ends the tick: what follows waits for the next one.
SourceRefused(s) ==
  /\ At(s, "source") /\ InProgress(job[s].read[job[s].of])
  /\ Stops(s)
  /\ UNCHANGED <<sources, requests, faults, mapVars>>

MapStage(s) ==
  /\ At(s, "maps")
  /\ \/ /\ ~MapRefreshDue /\ change[s] = Nothing
        /\ Goes(s, "contractors") /\ UNCHANGED mapVars
     \/ /\ MapRefreshDue /\ RefreshBegin(s)
        /\ UNCHANGED job
     \/ /\ RefreshAutomaticMap(s)
        /\ UNCHANGED job
     \/ /\ MapCommit(s)
        /\ Goes(s, "contractors")
  /\ UNCHANGED <<sources, requests, faults>>

\* The insert of a map's row is refused: the exception ends the tick.
MapRefused(s) ==
  /\ At(s, "maps") /\ change[s] # Nothing /\ change[s].after # Nothing /\ InsertRefused(s)
  /\ MapRollback(s)
  /\ Stops(s)
  /\ UNCHANGED <<sources, requests, faults>>

RefreshContractors(s) ==
  /\ At(s, "contractors")
  /\ Stops(s)
  /\ UNCHANGED <<sources, requests, faults, mapVars>>

\* A crash, or an exception on the way: the lock goes, uncommitted work is lost.
Crash(w) ==
  /\ Fault
  /\ ~At(w, "idle") \/ change[w] # Nothing
  /\ Stops(w)
  /\ MapRollback(w)
  /\ UNCHANGED <<sources, requests>>

(***************************************************************************)
(* Administrators and Managers.                                            *)
(***************************************************************************)
Free(r) == At(r, "idle") /\ change[r] = Nothing

RefreshSource(r, p) ==
  /\ Asked /\ Free(r) /\ sources[p].enabled
  /\ MarkFetching(r, p, sources)
  /\ UNCHANGED <<faults, mapVars>>

ToggleProvider(p) ==
  /\ Asked
  /\ sources' = [sources EXCEPT ![p].enabled = ~@,
                ![p].status = IF sources[p].enabled THEN "DISABLED" ELSE "SETTLED"]
  /\ UNCHANGED <<job, faults, mapVars>>

RequestMap(r) ==
  /\ Asked /\ Free(r)
  /\ RefreshBegin(r) \/ ResetManualMap(r) \/ \E size \in Uploads : SaveManualMap(r, size)
  /\ UNCHANGED <<sources, job, faults>>

ContinueMap(r) ==
  /\ \/ RefreshAutomaticMap(r) \/ MapCommit(r) \/ Unlink(r)
     \/ change[r] # Nothing /\ change[r].after # Nothing /\ InsertRefused(r) /\ MapRollback(r)
  /\ UNCHANGED <<sources, job, requests, faults>>

(***************************************************************************)
(* Time.                                                                   *)
(***************************************************************************)
Older(p) ==
  /\ sources[p].lately
  /\ sources' = [sources EXCEPT ![p].lately = FALSE]
  /\ job' = [w \in Workers |-> IF At(w, "source") \/ At(w, "fetching")
                               THEN [job[w] EXCEPT !.read = [@ EXCEPT ![p].lately = FALSE]]
                               ELSE job[w]]
  /\ UNCHANGED <<requests, faults, mapVars>>

DueAgain(p) ==
  /\ ~sources[p].due
  /\ sources' = [sources EXCEPT ![p].due = TRUE]
  /\ UNCHANGED <<job, requests, faults, mapVars>>

MapDueAgain == CheckAgain /\ UNCHANGED ownVars

Tick(s) ==
  \/ TickBegin(s) \/ SourceBegun(s) \/ SourceRefused(s) \/ FetchedOK(s) \/ FetchFailed(s)
  \/ MapStage(s) \/ MapRefused(s) \/ RefreshContractors(s)

SchedulerNext ==
  \/ \E s \in Schedulers : Tick(s)
  \/ \E w \in Workers : Crash(w)
  \/ \E r \in Requests :
       \/ RequestMap(r) \/ ContinueMap(r) \/ FetchedOK(r) \/ FetchFailed(r)
       \/ \E p \in Visited : RefreshSource(r, p)
  \/ \E p \in Visited : ToggleProvider(p) \/ Older(p) \/ DueAgain(p)
  \/ MapDueAgain

\* A scheduler loops, and time passes.
Fairness ==
  /\ \A s \in Schedulers : WF_schedulerVars(Tick(s))
  /\ \A p \in Visited : WF_schedulerVars(Older(p))

SchedulerSpec == SchedulerInit /\ [][SchedulerNext]_schedulerVars /\ Fairness

(***************************************************************************)
(* Properties.                                                             *)
(***************************************************************************)
\* Whatever crashes, overlaps and exceptions there were: an enabled source that
\* is due is tried, the maps are checked when due, and Contractor access is
\* refreshed, again and again.
AllServed ==
  /\ \A p \in Visited : []<>~(sources[p].enabled /\ sources[p].due)
  /\ []<>~MapRefreshDue
  /\ []<>(\E s \in Schedulers : At(s, "contractors"))
=============================================================================
