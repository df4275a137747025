# On Track rostering: TLA+ verification project

On Track is a web application in which regional Managers build rosters of race
days and other work days, publish them to crew, and crew read them, decline,
apply for open positions and receive notifications. It is a FastAPI program on
PostgreSQL: every request runs in one SQLAlchemy session, and one scheduler
process runs beside the web workers. All shared state is in the database, so the
hard questions are those of transactions: what a request read before it took a
row lock, what another request committed in between, and what a crash leaves.

This directory models the part of the program where those questions matter
most, checks the models with TLC on small instances and proves the main results
with TLAPS for every value of the constants. Paths below are relative to the
repository; the modules are beside this file.

Two settings of the database session (`app/core/database.py`) shape every model:

- `autoflush=False`: a query does not see what the same transaction has changed
  in memory and not yet flushed;
- `expire_on_commit=False`: an object keeps the attributes it was loaded with
  after a commit, and a later `SELECT ... FOR UPDATE` returns *those* unless it
  asks for `populate_existing`.

## 1. Inventory

### The components that carry the program's logic

| Component | State | Operations | What is hard | What makes it correct | Module |
|---|---|---|---|---|---|
| **Rostering** (`app/rostering`) | `workdays` (status, `lock_version`, current published and draft revision, replacement link), `workday_revisions` with `assignments` (stable slot keys), human changes | create, edit and save the shared draft, publish, decline, change status, reschedule, delete; GET of the Builder creates a draft | several Managers on one draft; declines against publications; routes that read before they lock; numbering of revisions | a stale page is refused; no publication is lost; published revisions never change; crew see only published rosters | `Roster` |
| **Open positions** (`app/open_positions`) | `open_position_applications` per revision and slot | apply, select into the draft, decide at publication, carry over at a decline | application, draft and publication are rows of three transactions | an application is decided with the publication that answers it; an accepted applicant has the slot | `Roster` |
| **Generated Travel Day** (`_sync_standard_travel`) | operation, legs, hotel stays and a second Workday that follows its race day | written by every save of the parent, published, cancelled and reinstated with it | works on unflushed rows; two Workdays, two version counters | those who travel are on the Travel Day that crew see; conflicts of either day are confirmed | `GeneratedTravel` |
| **Timing, conflicts, diff** (`rostering/timing.py`, `conflicts.py`, `diff.py`, `participation.py`) | none | pure calculations on stored clocks | midnight, rounding, missing values, the date a clock has lost | storing loses nothing; every change that matters is announced | `WorkdayTiming`, `RosterPages` |
| **Pages and hours** (`app/employee`, `app/hours`, reminders and digests) | a Person's own times | the month, the day, its offline copy, the crew page, hours, exports, reminders | each filters the rows for itself | they agree on which days count for whom, and on the times | `RosterPages` |
| **Notifications** (`app/notifications`) | event outbox, one delivery per event and subscription, subscriptions, preferences | record, claim, expand, push, settle, fail; register and disable a device | crash between push and commit, expiring claims, retries, partial failure of a batch | nobody is forgotten, nothing is repeated without cause, everything is processed in the end | `NotificationOutbox` |
| **Scheduler** (`app/scheduler.py`) | an advisory lock, heartbeat | one tick: notifications, provider refresh, programmes, maps, Contractor access | a step fails, a tick goes by what it read first, administrators work beside it | every duty is served again and again | `Scheduler` |
| **Track maps** (`app/track_maps`) | one row and two files per Track | automatic refresh, upload, reset | file and row are not one transaction | row and file agree again after the next good check | `TrackMaps` |
| **Sign-in and sessions** (`app/auth`) | users with `auth_epoch`, trusted devices, challenges, resets, authenticator, passkeys, recovery codes | sign in with one or two factors, reset, change credential, enrol and remove factors, revoke devices | requests keep attributes they read before other commits | a session ends with what ends it; one code opens one session; staged authority comes with its credential and factor | `Sessions` |
| **Accounts and roles** (`app/auth/service.py`, `app/admin`, `app/accounts`) | account status, role grants from staging to revocation | create, stage, activate, revoke, enable, disable | administrators act on each other; forms with different checks | Contractors have no other role; an Admin grant remains | `Authority` |
| **Contractor access** (`app/identity/contractor_access.py`) | status and expiry of each Contractor's account | refreshed by publication, extension and the scheduler | writes over rows read earlier | access lasts as long as the roster says, no shorter, and a disabled account stays disabled | `Authority` |
| **People and onboarding** (`app/crew`, `app/accounts`, `app/identity`) | People, login emails, the links between them, invitations, sign-ups | profile, email batch, archive, invite, activate, approve, reject | checks on one email while the Person moves to another | a linked Person and account have one email; an email has one open invitation | `People` |
| **External calendar** (`app/external_calendar`) | observations, canonical events, mappings, adopted Workdays, provider state | refresh with backoff, reconcile, map, adopt, apply the programme, import | providers in any order, repeated and ambiguous observations, drafts open in a page | an event shows a time some provider gives; an untouched draft follows; nothing is stranded | `ExternalCalendar`, `Scheduler` |
| **Positions and eligibility** (`app/positions`) | the catalogue, capability signals and their source | decide, infer from work, import, create, rename, archive, converge | rows that share an identity; signals of several sources; unflushed rows | restrictions stand; two days of work qualify; convergence changes nobody's eligibility | `Positions` |
| **Unavailability** (`app/unavailability`) | periods per Person | add, cancel, apply pasted rows | the import checks without the lock | no date is covered twice | |

### The others

Notices, branding, help, housekeeping, system settings and the rest of the
catalogue are forms over one record at a time; the audit trail, exports and error
reports are only written; the transition import is run once (only what it leaves
for eligibility is modelled); templates and browser code present what the server
computed. `PROJECT.json` lists each with its status.

### How they interact

Every Manager route goes through `lock_current_draft`, which locks the Workday
row and compares the page's version. Publication is the meeting point: it
promotes the draft (and the Travel Day's), decides applications, records work,
refreshes Contractor access and records notification events, in one transaction.
A decline does the corresponding things for one slot. The scheduler reads what
publication recorded, drives the external calendar and the maps, and refreshes
Contractor access again. The external calendar writes into drafts. A session is
worth what the account, its grants and its factors are worth at each request.
Everything else reads.

The modules meet where the code does: `RosterPages` extends `GeneratedTravel`,
which extends `WorkdayTiming`, so the pages are judged on the days that saves and
publications really leave; `Scheduler` extends `TrackMaps`, so ticks and Managers
work on one map; `Roster` implements `RosterAuthority`. `Sessions`, `Authority`
and `People` share the code of `app/auth/service.py` and each keep the part of
its state that their properties are about: `Sessions` the epoch and the factors,
`Authority` the status and the grants, `People` the emails and links. The last
two extend `Accounts`, the set of accounts that they have in common.

## 2. The modules

| Module | What it is | Runs |
|---|---|---|
| `Roster` | Workdays, revisions, the shared draft, publication, decline, applications, status, reschedule, deletion, Manager pages | `roster*` |
| `RosterAuthority` | the abstract promise `Roster` implements: what crew see and how it may change | `roster_overlaps` |
| `RosterProofs`, `RosterLineageProofs` | the proofs about `Roster`: what holds whatever overlaps, and what needs declines or pages to be undisturbed | |
| `OutboxProofs`, `SessionsProofs`, `PositionsProofs` | the proofs about the components they are named after (section 5) | |
| `AccessProofs` | the proofs about `Authority` and `People` | |
| `ExternalProofs` | the proofs about `ExternalCalendar` and about `TrackMaps` under `Scheduler` | |
| `TravelProofs` | the proofs about `WorkdayTiming`, `GeneratedTravel` and `RosterPages` | |
| `WorkdayTiming` | the clock arithmetic of a day and of a row, and overlaps | `travel` |
| `GeneratedTravel` | a race day with the overnight plan, its Travel Day, another Workday | `travel` |
| `RosterPages` | what each page, reminder and export shows of those days; the preview of changes | `travel` |
| `NotificationOutbox` | events, deliveries, subscriptions, claims, pushes, retries, crashes | `outbox` |
| `Sessions` | credentials, sessions, second factors, challenges, resets, staged grants | `sessions` |
| `Accounts` | the accounts, for the two that follow | |
| `Authority` | account status, role grants, Contractor access | `authority` |
| `People` | People, accounts, emails, links, invitations, sign-ups | `people` |
| `ExternalCalendar` | observations, events, mappings, programmes, drafts built from events | `calendar` |
| `TrackMaps`, `Scheduler` | one Track's map; the tick and the administrators beside it | `scheduler` |
| `Positions` | the catalogue, capability signals, recorded work, convergence | `positions` |

The `MC` modules give these to TLC: symmetry over interchangeable names, the
sheets and scopes a run works on and, for `Sessions`, a view that leaves out what
no action reads any more.

### `Roster`

*State.* `row[w]` is the `workdays` row; `rev[w][n]` is the revision with
number `n`, with its slots (`crew`) and one abstract value (`facts`) for title,
times, notes, equipment and the other day-level fields; `issued[w]` is the slot
keys ever used, because a new assignment always gets a fresh UUID; `app` is the
applications table; `page[m]` is what a Manager's open page shows; `req[q]` is a
request between its unlocked read and its commit. There is no pointer to a
revision other than its number, because (workday, number) is unique.

*Atomicity.* PostgreSQL's row lock makes a transaction that holds the Workday
row from its first read to its commit one action: `SaveDraft`, `Publish`,
`Reschedule` and the other draft mutations, `CreateWorkday` and `DeleteWorkday`.
What is not covered by the lock is split:

- a Manager's page: `OpenDraft` is one read, `OpenPublished` is the commit of a
  new draft followed by a later `RenderPage` (`ensure_draft` commits, which
  releases the lock), and `OpenPreview` never locks;
- `DeclineRead` and `DeclineCommit`: the route loads the Workday, commits, and
  `decline_published_assignment` selects it for update without
  `populate_existing`, so it decides on the attributes loaded before the lock.
  Only attributes it changes are written (`DeclinedRow`);
- `StatusRead` and `StatusCommit`: the status route never locks. It writes the
  status when it differs from the one it read, and the version it read plus one.

`ApplyProgramme` is one action, but it changes a draft without advancing the
version. `Overlaps` says which of the three kinds, `"DECLINE"`, `"STATUS"` and
`"PROGRAMME"`, other transactions may overlap. With a kind left out, a request
of that kind commits only on the row it read (`Undisturbed`), and a programme is
applied only while no page has the Workday open. The code excludes none of the
overlaps, so each property is checked and proved with as many kinds as it stands:
`PointersSound`, `PublishedImmutable`, `AcceptedHoldsSlot` and `VersionAdvances`
with all three (section 5), what is about drafts, publications and numbers with
`"STATUS"` and `"PROGRAMME"`, and only `PageFresh` with none. What an overlap
breaks is a finding or a known limit in section 4.

`VersionAdvances` lets a request that commits over a row it had not read
(`OvertakenCommit`) write whatever it likes for a version, since it writes the one
it had read plus one; and lets programme facts leave the version alone. Every
other write to the row, to a revision's crew or lineage, or of a Manager's facts
must advance it.

*What is abstracted.* Any person may apply (eligibility is left out); conflicts
are absent or confirmed; notifications, audit and human changes are not state of
this module; a form's fields other than the crew are one value of `Facts`; the
Workdays have no generated Travel Day. `SaveDraft` takes any crew the Builder's
form can store, so it covers the whole form.

### `RosterAuthority`

Two sets per Workday, the visible roster and the proposal. The visible roster
changes in three ways only: the proposal replaces it as a whole, a person who
declines leaves exactly one slot, or it is moved to a new Workday. `Roster`
implements it with `visible` the crew of the published revision and `proposal`
the crew of the current draft.

### `NotificationOutbox`

*State.* `event[e]` is the outbox row, `delivery[e][s]` the delivery row,
`active` the subscriptions that may be sent to, `current[e]` whether the event's
subject is still current, and `worker[w]` the step a worker has reached with the
rows its session holds. `sent`, `steady` and `faults` are history.

*Actions.* `Claim` is the claim of `process_pending`; `FinishStale`, `Expand`,
`Push`, `SaveOutcomes` and `Finish` are the steps of `process_event` between its
commits; `Fail`, `PushBreaks` and `Crash` are what may go wrong at any of them.
`SaveOutcomes` writes only the columns the worker changed, and `Finish` writes
the event whoever owns its claim by then, as the code does.

*Time.* Instants are replaced by whether they have been reached: `EventDue` ends
a wait or a claim, `DeliveryDue` ends a backoff. An event may therefore become
due before any of its deliveries, which the code's `min(retry_at)` avoids; the
model then claims it once more for nothing.

*What is abstracted.* The audience of an event is every active subscription; a
preference, account or access right that takes a user out of the audience is the
same as an inactive subscription. `ACCEPTED` is a success the worker saw;
`PushBreaks` covers a push whose fate it did not see. Rejection by the provider
and a failure of the configuration follow the same path.

### `WorkdayTiming`

No state. A moment is a number of minutes from midnight of the work date, and a
revision stores clocks, so a stored moment has lost its date. `Revision` is
what a save derives from what a Manager typed (a *sheet*), `EffectiveInterval`
what the pages make of the stored clocks again, `Overlap` the comparison of two
intervals, `InWindow` the work dates that are searched for one. `Sheet` and
`PersonalRow` are what validation lets a Manager type: clocks to the minute,
durations of up to a day. `Placed` is the premise of the
search, an interval near enough to its own day to be found. `TrueInterval` in
`RosterPages` is the reference: the same interval computed without ever storing a
clock.

### `GeneratedTravel`

*State.* `draft` and `published` of the race day are a plan (which sheet) and
one crew row; `travelDraft` and `travelPublished` are the People of the Travel
Day's rows; `optOut` is who makes their own way; `status` is of both days;
`other` is another Workday with its crew; `request` is a status change between
its read and its commit. *Actions* are saves of the whole draft and of one row,
the notes form with its opt-out, publication of the pair, declines on either day,
status changes, a reschedule and the publication of the other day. A save
projects the crew from the rows as the last flush left them
(`SyncStandardTravel`), which is where `stale` comes from; `missed`, `raced`,
`accepted` and `declined` are history that the properties except or need.

### `RosterPages`

Operators over the state of `GeneratedTravel`: the days of the month, the page of
a day, its offline copy, the crew page, hours, reminders, the digest and the
prefetch, each with the filter its own query has; `PublicationDiff` with the
columns that `rostering/diff.py` compares. The time properties are about
`Versions`: every timed sheet with every kind of row, which are computed once and
asked of the plan that is published.

### `Sessions`

*State.* `user` (epoch, credential, status), `grant` per user and role, `device`
(trusted devices, that is sessions), `challenge`, `reset`, `factor`, and `req`,
requests between their read and their commit. *Actions.* A sign-in and every
change made from a session is a read action that keeps the user's attributes and
a commit action that may use them: the epoch is computed as the attribute read
plus one. Consuming a code and creating the device are two commits in the code
with nothing between them that another request could change to the device's
disadvantage; they are one action here. A session's
request reads the user and the active grants at three kinds of instant: when the
middleware accepts it, when the route's own query runs (`RouteReads`, before the
request has loaded the users row for itself), and at the row's load, which is
either at once or as late as the commit (`Seen`). `DisableTotp` takes the policy
from the first query and the epoch from the second, as `factor_routes.py:417` and
`:63` do, and a sign-in may activate a role in between. *History.* `era` counts the
events that end a user's sessions; `overlapped`, `spared` and `early` name the
exceptions, `early` a factor that was given up while a role that needs it was
staged, or became active between those two queries. `SetStatus` is the form of `app/admin`,
which locks first; the one of the crew page is in `Authority`.

### `Authority`

*State.* `account` (status, expiry), `grant`, `work` (the last published day of
an account's Person), `today`, `disabling` (a disable between check and commit)
and `refresh` (a row read by a recomputation of Contractor access or by the crew
page's status form, before the transaction that writes it ends: `Readers`). The
crew page's form loads the account, asks whether the Manager may, and only then
locks the row, without loading it again: `AssistRead` is the load, `AssistDisable`
and `AssistEnable` write over whatever the row has become. `raced` is
history: an account that was written from a row which had changed since it was
read. *Actions* are the administration forms, the sign-in that activates grants, the
extension, publication (which changes `work` and refreshes from what it read),
the scheduler's refresh and the passing of a day. One Region. `scope` bounds
which grants, days and readers a behaviour uses and never changes; the scheduler is
always among the readers.

### `People`

*State.* `person`, `email` (of the account), `link`, `invite`, `signup` and
`req`. The lock of `validate_person_work_email` is on the email it is given, so
operations on one email are one action each; an edit, an activation, an
invitation without a Person and a rejection are a read and a commit.
`MaxExceptions` stops behaviours in which enough has gone wrong already.

### `ExternalCalendar`

*State.* `observations`, `events` by date, `mapped`, `work` (the Workday linked
with an event) and `run`, a reconciliation between its read and its commit, with
the event, the draft and the provider's identity as it found them. `overlapped` is
history: a commit over any of the three that had changed. `unsettled` and
`repeated` are history too: the events to which a mapping attached observations
that it did not let correct them, and those of which a provider took a correction
back. A provider that says A, then B, then A again repeats its first observation;
the code takes it for a duplicate, keeps B and leaves nothing for review
(`IgnoreDuplicate`).
*Actions* are one provider's observation, a programme page, mapping a Track name
(which reconciles what waited for it), adoption, the Manager's save, publication,
deletion and `apply_latest_programme_to_draft`. One Track; a provider has one
meeting that it may give another date; `time` stands for all facts of a
programme. Related trials, provenance and superseded revisions are left out.
An import of mappings is mapping followed by reconciliation. An observation is
committed in a transaction of its own, while `refresh.py:97-139` commits all of a
provider's together: others see the batch whole or not at all, and the rows that it
read first have had longer to change, which is what `overlapped` is about.

### `TrackMaps` and `Scheduler`

`TrackMaps` is one Track's `row`, its two files on `disk` and what each worker
has read and not committed: refresh is write the file, then commit the row;
upload the same; reset is commit the row, then unlink. Images are told apart by
size and have one file extension. `Scheduler` adds the `sources`, the tick's
stages (`job`) with the rows its session keeps from the beginning, the
administrator's refresh and switch of a source, and crashes. Source states that
lead to the same steps are merged as `SETTLED`. A second scheduler does nothing
while the advisory lock is held; the lock is dropped by a crash.

### `Positions`

*State.* `position` (the catalogue: a row's name stands for its canonical
identity, whatever alias it is), `signals` with their source, `published` (the
crew of each Workday's current publication), `scheduled` and `form` (a request
between its check and its commit). *Actions.* The catalogue's forms check the
identity and commit later (`NameRead`, `Create`, `Update`; an archived row's name
is not checked); a decision deletes its family's rows and adds one, and is rolled
back if another form has added it meanwhile (its last query, which finds the row
instead of adding it when the other form has committed by then, is part of the
commit: the outcome is that of the later form with one row less to write, and takes
three overlapping forms); publication records work slot by
slot without flushing; an imported day records nothing; convergence keeps one row
per identity and moves what was said of the others. Crew groups and the display
order decide which row is kept and are left open: any may be.

## 3. What is checked

All runs finish with `tlc -workers 2 -config <cfg> <module>`; the configurations
are named in `PROJECT.json`. `CHECK_DEADLOCK FALSE` is set throughout: when the
bounds are reached, or the outbox is empty, there is nothing left to do.

| Run | Instance | Properties | What it shows |
|---|---|---|---|
| `roster` | 1 Workday, 2 people, 2 pages on one slot or 1 page on two (`PagesOrSlots`), both decline policies, 3 revisions | `TypeOK`, `PageFresh`, `PendingOnCurrent`, `AcceptedHoldsSlot`, `PublishedImmutable` | the optimistic version works: a page that would be accepted shows what it would overwrite; no application is stranded; acceptance agrees with the crew |
| `roster_overlaps` | 2 Workdays of which one replaces the other, or 1 with 2 contents (`OneChain`); status changes and programme updates overlap everything | `PointersSound`, `DraftOnCurrent`, `EditableUnlessReplaced`, `NoPublicationLost`, `ImplementsAuthority`, `VersionAdvances` | whatever the unlocked forms meet, each publication is built on the one it replaces, crew see only what the authority allows, only replaced days can lose their editor, and a stale page stays stale |
| `roster_status_race` | a status form overlaps a reschedule | `ReplacedNotScheduled` violated | the second finding below |
| `roster_decline_race` | overlap of a decline | `NoPublicationLost` violated | the first finding below |
| `travel` | 2 People, 2 sheets for the actions, 7 sheets with 5 kinds of row for the times, 4 steps | `PagesAgree`, `TravellersListed`, `ClashesConfirmed`, `TimesAgree`, `TimesShown`, `ChangesTold` | pages count the same days; travellers are on the Travel Day; overlapping days are confirmed; storing clocks loses no date; shown times are counted times; changes are announced |
| `outbox` | 1 event, 2 subscriptions, 2 workers, 2 attempts, 1 crash or failure | `DuplicatesPaidFor`, `RetriesStopButForFaults`, `ProcessedMeansDone`, `OutcomesFinal`, `EventuallyProcessed` | the outbox forgets nobody, repeats nothing without cause, and ends |
| `sessions` | 1 user, 2 devices, 2 requests, 1 challenge, 1 reset, 1 recovery code, 2 events that end sessions, limits 1 and 2 | `SessionsEnd`, `OneSessionPerCode`, `FactorHolds` | no session outlives what ends it, no code opens two, a role that needs a factor has it |
| `authority` | an administrator and a crew account, three scopes, up to 2 days, 1 day of inactivity | `ContractorExclusive`, `AdminGrantRemains`, `DisabledStays`, `WorkReopensAccess` | roles exclude each other, an Admin grant remains, access is neither given back to the disabled nor withheld from those rostered again |
| `people` | 2 People, 1 account, 2 emails, 2 invitations, 1 sign-up, 1 overlapping request | `LinkedEmailsAgree`, `OneOpenInvitation` | the email goes on tying a Person to one account and one invitation |
| `calendar` | 2 providers, 2 dates, 2 times, 2 overlapping reconciliations, 4 steps | `SourceAgrees`, `DraftFollows`, `NothingStranded` | events show what some provider gives, untouched drafts follow, nothing waits for a mapping that exists |
| `scheduler` | 1 source, 1 map, 1 scheduler, 1 administrator with 2 requests, 2 sizes of image, 1 crash | `MapsWhole`, `AllServed` | whatever crashes and overlaps, every duty is served again and again; row and file agree again after the next good check |
| `positions` | 1 Person, 2 rows, 2 identities, 2 Workdays with 2 slots, 2 overlapping forms, 3 forms | `BlockStands`, `TwoDaysQualify`, `ConvergenceNeutral` | restrictions stand, work qualifies, convergence is neutral |

Several properties except what the code does not ensure, by naming a history
variable (`overlapped`, `raced`, `skewed`, `missed` and so on). The exceptions are
narrow on purpose: each is set by one kind of step only, and section 4 lists what
they let through. The type invariants of the modules after `Roster` are proved
and are not properties of their runs. Nor are `AdminsEligible` (`Sessions`),
`NeverShortened` (`Authority`), `ActiveEmailsUnique` (`People`) and
`OneActiveRow` (`Positions`): TLC finds them true with the same configurations,
and section 5 proves them.

The time properties speak of ordinary days where a condition is needed, so
`MCTravel` assumes `OrdinaryVersions`: TLC evaluates that every sheet and row of
the run satisfies it, day meetings, ones that end past midnight and trucks
included. A hypothesis of the theorems about times is therefore one that the
run's days satisfy.

*Bounds.* Roster: a history of three revisions holds a publication, its
successor and a draft or a detached draft; five to eight versions let a page, a
decline and a publication interleave with their answers. Two pages are what it
takes to be stale; a third adds no new pair. Two Workdays are a source and its
replacement; two slots are the declined one and another with applications. Two
constraints of `MCRoster` keep the histories apart that do not need each other:
`PagesOrSlots`, that of two pages (five versions), of two slots (six) and of one
page on one slot (seven, two publications with everything between); `OneChain`, that of two
Workdays and that of two contents of one (Workdays that do not replace each other
share no row). Two
deliveries are one that fails and one that suffers from it; two attempts are a
retry and the limit; two workers are what it takes to lose a claim. Sessions: two
requests are what it takes to work on stale attributes, two devices the one that
stays and the one that is revoked, two ending events one that is seen and one
that is not. Authority: the day of work, the day access runs out; one scope has the extension
form, one the crew page, one all readers and the forms for roles. People: an
email to leave and one to go to. Travel: four steps are a save, a publication, a
change and its publication, or a decline between them; the timed sheets cover a
day meeting, ones that end just before and after midnight, typed times and a
start before dawn. Calendar: four steps are an observation, its adoption, a
correction and a Manager's edit between. Maps: a worker whose file is written and
whose row is not, overtaken by an administrator who acts twice; the source
is one whose refusal ends the tick before the maps and the Contractors, which is
the order that could starve them. Positions: the shortest histories of
its properties take three forms (a restriction and two publications), and two
rows are what can be converged. `MaxRevision`, `MaxVersion`, `MaxSteps`,
`MaxForms`, `MaxEvents`, `MaxRequests`, `MaxDay` and `MaxExceptions`
disable the actions that would exceed them; `MaxFaults` ends the faults, not the
work.

*Fairness.* `Roster` has none and no liveness property: nobody has to press a
button, and the same holds of `Sessions`, `People`, `GeneratedTravel`,
`ExternalCalendar` and `Positions`. `NotificationOutbox` assumes that
time passes (`EventDue`, `DeliveryDue`), that a worker which holds a claim goes on
until it is done or dies (every push has a ten-second timeout), and that the
scheduler goes on claiming (`app/scheduler.py` loops for ever, catches every
exception of a cycle, and is restarted by `compose.yaml`). It assumes nothing of
the manual command's claiming. A bounded number of faults is part of the
assumption. `EventuallyProcessed` supposes push is configured and that the
generators which run before `process_pending` in the same cycle do not fail every
time. `Authority` assumes that the scheduler's refresh of Contractor access
happens again and again and that a request that has begun ends
(`SchedulerRefresh`, `RefreshCommit`, `DisableCommit`). `Scheduler` assumes that
its loop goes on (`Tick`) and that the age of an abandoned fetch reaches its
limit (`Older`); that ticks reach the Contractors although any source may fail is
what `AllServed` shows, not what it assumes.

## 4. Findings and known limits

Two disagreements with the documentation have a run of their own:

**A decline can undo a publication** (`app/rostering/service.py:1825`). The
lock returns the attributes read before it. A Publish in between is replaced
by a revision cloned from its predecessor, and the version falls back
(`roster_decline_race`).

**A replaced Workday can be scheduled again** (`app/rostering/routes.py:984-989`).
The status route looks for a replacement and writes the status without ever locking
the row. A reschedule that commits in between abandons the Workday and publishes its
replacement; the form then puts the Workday back, and both are scheduled
(`roster_status_race`). `docs/DOMAIN_RULES.md:44` and `docs/DECISIONS.md:81` say
that a predecessor with a replacement cannot be reinstated.

*Known limits.* The code does not ensure the following. Where a definition is
named it is in the module and TLC refutes it; the properties of the runs except
these cases.

- Rostering: a programme update
  leaves open pages valid (`PageFresh` with `"PROGRAMME"`); a draft that a
  reschedule detached keeps the number the next one would get (`Editable`); a
  status change or a decline that another commit has overtaken writes the version
  it read plus one, which may be one that an open page holds (`OvertakenCommit` in
  `VersionAdvances`).
- Factors: giving up the authenticator looks at active grants only, and loads the
  users row after it has looked (`app/auth/factor_routes.py:417`, `:63`). A role
  whose factor is required may be staged at that moment, or become active between
  the two, and is then held without the factor (`early` in `FactorHolds`), which
  `docs/SECURITY.md:25` says an enforced role cannot do.
- Outbox: a push that breaks is not counted as an attempt, and the batch's other
  outcomes are forgotten with it (`RetriesStop`); a claim expires by age alone, so
  two workers may own one event (`DeliveredOnce`).
- Generated Travel Day: projected rows lag one save behind (`TravelCrewComplete`;
  the session does not flush); the single-row routes and the selection of an
  applicant do not project at all; a decline on the Travel Day detaches its draft;
  publishing with a cancelled parent schedules the Travel Day; the status route
  overlaps publication; reinstating does not look for conflicts.
- Times: a truck that leaves early counts its offset twice
  (`TruckLeavesOnce`); the reminder and the end of self-decline come a
  day late when the hotel is left before midnight or before the day's start
  (`OneHourBefore`); durations of a day or more lose their date; the search for conflicts
  looks at work dates up to three days back (`rostering/conflicts.py:14`), and a
  Person's own return and the pack-up may end later than that when they take
  more than 23 hours and both the time on track and the last event have rolled past
  midnight (`IntervalsPlaced`); turning the
  truck's early departure on or off, or replacing a calculated finish by a typed
  one, is not among the listed changes.
- Pages: the hours page keeps one row per date while its total counts all; the
  digest leaves out Regions without a grant; the crew page links a Travel Day
  that its reader may not open; a Contractor who no longer travels keeps the
  offline copy; whether a vehicle is a truck is asked of the vehicle of today.
- Access: a refresh, or the crew page's form, that writes from a row read earlier
  undoes what an administrator did meanwhile, and the form finds nothing to write
  when the row it read already says so (`raced`; `app/crew/routes.py:811-819`);
  two administrators who disable each other leave an Admin grant but no
  enabled administrator (`AdminRemains`); a Contractor activated without work has
  no end of access (`ContractorAccessEnds`); a former Contractor's expiry stays
  (`EnabledMayEnter`); linked and unique emails have the exceptions their
  properties name (`LinkedPairsMatch`, `WorkEmailsUnique`); the batch form locks
  emails in the order of its rows.
- Calendar: a provider that takes a correction back (A, B, A) repeats an observation
  that is stored, which is ignored: the event keeps a time that nobody gives and
  nobody is asked to review it (`repeated` in `SourceAgrees`, `CorrectionsFollowed`;
  `app/external_calendar/service.py:131-132`); an observation that a new mapping
  attached does not correct its event (`unsettled`); a reconciliation that read a revision while it was a
  draft writes it after its publication (`PublishedUntouched`); an observation may
  miss a mapping confirmed while it was reconciled.
- Scheduler and maps: a tick goes by the states it read first, so one source may be
  fetched twice at a time; overlapping uploads may leave an override without its
  file until a Manager acts (`ManualFilePresent`).
- Positions: publication looks for a record of work once per slot without a flush
  in between, so a Person in two slots of one base position (CCU 1 and CCU 2) who
  has never worked there is given two rows with one key, and the publication is
  rolled back (`SlotsCountOnce`; `app/positions/service.py:135`,
  `docs/DOMAIN_RULES.md:24`); convergence deletes an imported record of work in
  favour of a recorded one (`LegacyPreserved`; `app/positions/canonical.py:239`);
  a restriction follows the row and not the name; what was
  said of an archived row that shares an identity still counts and no page changes
  it; imported days record no work; two overlapping forms, or a form that
  reactivates an archived row, may share an identity.

## 5. What is proved

The theorems hold for every set the constants may be and for every bound, from
the assumptions that the modules name: `RosterAssumption`, `OutboxAssumption`,
`SessionsAssumption`, `AuthorityAssumption`, `PeopleAssumption`,
`PositionsAssumption`, `CalendarAssumption`, `MapsAssumption`,
`SchedulerAssumption`, `TravelAssumption` and `PagesAssumption`. They say that the
nulls (`NoRev`, `NoUser`, `NoFact`, ...) are not among the values, that bounds are
numbers, that workers are schedulers and requests, and of the code that the
attempt limit is positive, that EMPLOYEE needs no factor, that a recovery code is
not a TOTP code, that what a Manager types was accepted by validation (`Sheet`,
`PersonalRow`) and that the other day's interval is near its date (`Placed`, which
`IntervalsPlaced` shows of every interval but the one that section 4 names).
Every component has its type invariant proved. No property below is
inductive alone; in parentheses is the invariant it is proved from and what that
adds. Each action has a lemma of its own.

**`RosterProofs`**, for every value of `Overlaps`:

- `PointersAlwaysSound`, `PublishedNeverChanges` (`Inv`: `TypeOK`; pages and
  requests in flight name a Workday; the row a decline has read names a published
  revision as its publication). The last is what makes an overlapped decline
  harmless to the pointers: it may install an old lineage, but only ever a
  revision it has just created.
- `AcceptedAlwaysHolds` (`AppInv`: `Inv`; a person is in a slot only when it is
  assigned, and an application is on an open slot of a publication).

**`RosterLineageProofs`**. When no other transaction commits during a decline
(`"DECLINE" \notin Overlaps`), and status changes and programme updates overlap
as they like:

- `DraftAlwaysOnCurrent`, `PublicationsNeverLost` (`LineInv`: `Inv` and
  `DraftOnCurrent`; `LineKept` is what a step may do to one Workday's publication
  and draft);
- `RosteringImplementsAuthority`: the refinement. Each step of `Roster` is a
  `Propose`, `Publish`, `Decline` or `Move` of `RosterAuthority`, or a stutter,
  under the mapping to the crews of the publication and of the draft. A decline's
  crew is the publication's less one person only because its draft is on the
  current publication;
- `EditorAlwaysOpens` (`EditInv`: a Workday that replaces another is published and
  its source is there, `LinksSound`; the draft, or the publication without one, has the highest
  number, `NewestOnTop`);
- `PendingAlwaysOnCurrent` (`PendInv`: `AppInv` and `DraftOnCurrent`).

Whatever overlaps:

- `VersionAlwaysAdvances`, from the types alone: `RowKept` and `FactsCopied` are what
  a step that overtakes nothing may do to a Workday's row and revisions.

When nothing overlaps (`Overlaps = {}`):

- `PagesAlwaysFresh` (`FreshInv`: `Inv`, `LinksSound`; `PagesCurrent`, a page is not
  ahead of its Workday and one with its version shows its draft).

The hypotheses are what the code needs and not what the prover needs: a decline
refutes `NoPublicationLost` and with it what depends on the lineage of drafts; a
programme update refutes `PageFresh` (section 4). PostgreSQL's locks give the
hypotheses wherever the request reads after it has locked. `ReplacedNotScheduled` has
no theorem: with `"STATUS"` in `Overlaps` it is refuted by a run, and without it
the check and the write would be one instant.

**`OutboxProofs`**, unless a worker outlives its claim
(`"OVERRUN" \notin Perils`; ten seconds per push, five minutes per claim), with
crashes, failures and broken pushes as they come:

- `OutcomesAlwaysFinal` (`ClaimInv`: an event is with at most one worker, and its
  rows are as that worker loaded them or wrote them);
- `ProcessedAlwaysDone` (`DoneInv`: `ClaimInv`, and at each stage what the worker
  has reached of those that were subscribed all along);
- `DuplicatesAlwaysPaidFor`, `RetriesAlwaysStop` (`CountInv`: `ClaimInv`, and an
  account of every push: recorded, held by the worker that will record it, or
  lost with a fault that was counted).

The type invariant needs no such hypothesis, and is inductive only with the
limit: a delivery that waits has an attempt left, wherever it was loaded.

**`SessionsProofs`**:

- `SessionsAlwaysEnd` (`EraInv`: epochs count the events that end sessions unless
  one was computed from a stale attribute; devices, challenges, resets and
  requests carry an epoch that is not ahead);
- `OneSessionPerCodeAlways` (`CodeInv`: a code that opened a session is spent, a
  counter by the enrolment's last one or a later enrolment, a recovery code by
  its deletion);
- `FactorAlwaysHolds` (`FactorInv`: a role that needs a factor is staged or active
  only beside it, but for `early`; a request whose middleware read the present epoch
  and saw no such role active is right), for every instant at which the requests'
  later queries run;
- `AdminsAlwaysEligible` (`CredentialInv`: an account whose credential does not
  meet the Admin policy is neither marked eligible nor has an active Admin grant;
  a sign-in that read the present epoch has read the present credential, and a
  session that read it has read the grant). Staging, sign-in, settings and resets
  each check only their own half: the epoch is what ties the halves together.

**`AccessProofs`**, of `Authority`, from one invariant, `AuthorityInv` (types; who
holds a grant exists; a refresh can only turn ACTIVE into EXPIRED or back; before
the first Admin nothing exists and nothing has been read):

- `ContractorAlwaysExclusive`, `AdminGrantAlwaysRemains`;
- `DisabledAlwaysStays`, where the exception is the account that a refresh or the
  crew page's form raced, not a race anywhere;
- `AccessNeverShortened`, an action property with the same exception (`LaterInv`:
  what a refresh has computed, or a form has read, ends no earlier than the row it read; where there is
  no account nothing ends and nothing has been read).

And of `People`, but for the cases that the properties name:

- `LinkedEmailsAlwaysAgree` (`AgreeInv`: whoever is linked, invited or being
  activated has a row in `people`);
- `OneOpenInvitationAlways` (`OpenInv`: an open invitation is the only one for its
  email unless that email's forms overlapped);
- `ActiveEmailsAlwaysUnique` (`UniqueInv`).

**`PositionsProofs`**, from `SaidInv` (rows that forms name have an identity; a
restriction is known under every row that shares it; so is work on a scheduled
Workday):

- `RestrictionsAlwaysStand`, `TwoDaysAlwaysQualify`;
- `ConvergenceAlwaysNeutral`, an action property;
- `OneActiveRowAlways` (`OneInv`: of an identity that no overlapping forms have
  named at most one row is active, at most one form names it, and that form was
  read from the active row). Its hypothesis is that the catalogue is finite, since the
  property counts rows.

**`ExternalProofs`**, of `ExternalCalendar`:

- `NothingStaysStranded`;
- `DraftAlwaysFollows` (a Workday's event does not go away, `WorkHasEvent`: a
  correction that overlaps nothing finds event and draft with one time, or with
  a Manager's edit between);
- `SourceAlwaysAgrees` (`AgreeInv`: `LatestSeen`, whoever has given an event a time
  has identified it; the time that an event shows was given to it, also where a
  provider takes a correction back and `repeated` lets it disagree). The proof needs that a reconciliation which found no
  identity counts as overlapped when its provider has identified the event by
  the time it commits. It reads the event, the draft and the identity, and all
  three may be stale: with five steps TLC finds an event that shows a time which
  both of its providers have withdrawn, after two corrections have restored the
  very values that were read. `overlapped` covers the identity for that reason.

And of `TrackMaps` under `Scheduler`:

- `MapsAlwaysWhole` (`MapsInv`): for any number of schedulers and administrators. The
  row may describe a file that is not there yet or no longer, so the invariant says
  what a worker that nobody overlaps may rely on between its read and its commit
  (`Undisturbed`): its map's part of the row is as it read it, and the file is as
  it wrote it, or as it found it when it wrote none. A crash and an overlap enter
  the kind of map into `torn`; a check that found an image takes it out again.

**`TravelProofs`**, of the Travel Day, from `TravelInv`, for any number of People and
any sheets that validation accepts:

- `TravellersAlwaysListed` (`Made`, a Travel Day has a publication unless a draft of
  it waits; `Listed`, a draft's travellers are in the draft of its Travel Day or in
  what stays published; `Agreed`, the states of the two days go together; `Asked`,
  what a status change read);
- `ClashesAlwaysConfirmed` (`Compared`: what is scheduled was compared with the
  other day, or was brought back). `WindowSees` is its arithmetic: two overlapping
  intervals, each near its own date, have dates that `conflicts.py` searches;
- `IntervalsPlaced`: that intervals are near their date. It is what the comment at
  `rostering/conflicts.py:14` argues, and was provable only with a
  condition on a Person's own return (section 4).

Of the pages, from the same invariant:

- `PagesAlwaysAgree`: with the invariant the five filters come to one set of days;
- `ChangesAlwaysTold`: the columns that the preview compares determine the
  interval, but for the two cases of section 4. It has no condition on the day;
- `TimesAlwaysAgree`, `TimesAlwaysShown`, for `Ordinary` and `LeavesOnDate` versions:
  the day starts and is on track on its date and lasts less than 24 hours, nobody's
  start is typed, and a truck's offset taken off twice stays on the date. A clock
  has lost its date, and one comparison with the start is all there is to find it
  again (`ClockOnWorkday`): `StoredClocks` shows that it finds the date for every
  clock of an ordinary day, and without the condition it does not. The run's days
  satisfy it (`OrdinaryVersions`).

These proofs corrected the model where a bounded run could not: an open row is the
same whether it follows the plan or not, and the cases in which a row is
shown are disjoint.

*Only model-checked.* Liveness (`EventuallyProcessed`, `WorkReopensAccess`,
`AllServed`) and the fairness it rests on are outside what the prover can do.
`CorrectionsFollowed`, `PublishedUntouched` and the other definitions that section
4 names are refuted, and so are `NoPublicationLost` with `"DECLINE"` in `Overlaps`
and `ReplacedNotScheduled` with `"STATUS"`.

## 6. Plan

Done: the core (`Roster`, `RosterAuthority`), the outbox, access (`Sessions`,
`Authority`, `People`), the Travel Day with timing and pages, the external
calendar with the scheduler and the maps, positions; and every safety and action
property of a passing run, with those that no run checks, as theorems.

Left, in the order of what they would say: unavailability and its import, which
checks without the lock; the notification texts and their amendment after a
reschedule; a proof of `EventuallyProcessed`, were the prover to learn fairness.

*Not modelled*, and why: the heartbeat row and health pages (only reported); errors
of notifications inside a tick (caught and logged); how often programmes are
fetched; which image is chosen and how its address is checked (parsing); replies
to a reschedule and the amendment of its notifications; equipment and allowances
(labels); a status form sent for a generated day; throttling, cookies and request
tokens; the age of a fresh authentication; availability notes, presets, crew
groups and display order; leave (added under one lock, and only
shown); the rest of the catalogue, notices, branding, help,
housekeeping and settings (one record at a time); audit, exports and error
reports (only written); parsing of calendars, captures and pasted text; templates
and browser code.
