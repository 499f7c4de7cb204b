# Campus Operations in TLA+

This directory models Campus Operations (`src/`), its server and its web client: what becomes
of an incident from the report to the last rating, and of the accounts, rosters, counters,
caches, messages and pages around it, with everything that may happen at the same time. The
specifications are translated from the source, checked with TLC on small instances, and their
safety properties are proved with TLAPS for any number of incidents, requests, people, windows
and failures.

    tlc -workers 2 -config MCConcurrent.cfg MCConcurrent    # the incident lifecycle, a minute
    tlc -workers 2 -config MCPeople.cfg MCPeople            # the rest of the server
    tlc -workers 2 -config MCScreens.cfg MCScreens          # caches, sockets and the client
    tlapm TimerProofs.tla                                   # the longest of the proofs

`PROJECT.json` lists components, runs, theorems, hazards and findings, and says for each
definition which lines of the code it stands for.

## 1. The system

One Node process serves HTTP and Socket.IO and also runs the BullMQ workers
(`src/src/index.js`). PostgreSQL holds the rows, Redis the queues, the cache and the
counters. Nothing in the server opens a transaction or takes a lock around a
read-modify-write, so every `await` is a point where any other handler or worker may run.
The client is a React application: effects run after renders, answers and socket events
arrive when they like, and several windows share one `localStorage`.

| Component | State it keeps | Operations | It is correct when |
|---|---|---|---|
| Incident and its five states (`domain/entities/Incident.js`, `domain/states`) | status, assignee, SLA flag, resolution, rating | `assignStaff`, `resolve`, `escalate`, `receiveFeedback`; what a state does not override throws | an incident moves along the diagram of `docs/DESIGN_PATTERNS.md` and its columns agree with its status |
| Incident repository | the incident table | `findById`, `save` (all columns at once), `findDuplicates`, `countRecentByUser`, `incrementDuplicateCount`, listings | a save stores one step from a version that existed |
| Validation chain and factory | none | priority, category, location, duplicates, hourly limit, photo; then build an entity | duplicates are counted and not stored, nobody exceeds the hourly limit |
| Incident service, controller, routes | the entity held by a request in flight | `createIncident`, `assignIncident`, `resolveIncident`, `submitFeedback`, two reads | a 200 or 201 means that the transition was stored |
| SLA timers and worker | a BullMQ job per incident; the entity held by a job in hand | schedule, cancel; load, decide, save, publish, retry | every timer in the end escalates its incident unless it was handled before, and administrators hear of it once |
| Event publisher and observers | the subscriber lists | `publish` calls all observers, waits for them together and logs those that throw | no observer's failure is another's |
| Notifications | none | in-app, then e-mail, SMS and socket decorators | who was to be told and was not was lost by a channel further out |
| Assignment strategies, users, shifts | staff state, rosters, a strategy per department | choose staff for a category, department, shift | who is picked is on duty for the window and the freest of those asked for |
| Accounts, login lockout | the user row, the failure counter, signed tokens | register, log in, lock, expire, rename | tokens say what the rows say, guesses before a lock are bounded |
| Rate limiter | a sorted set per key in Redis | evict, add, count, refuse | no window lets more than the limit through |
| Commands with undo | a history in memory, audit rows | execute, undo | undo restores, and the audit tells of what happened |
| Hotspot detector | a Redis counter per block and category | `INCR`, `EXPIRE`, message | three reports within the window are noticed |
| Daily summary, AI tasks | a scheduled job, a row per date | register, run, retry | a row is about one department and one whole day |
| Dashboard statistics | two families of Redis keys with a TTL, a refresh job | cached reads, invalidation on events, recomputation | nothing older than a reader could still hold comes back, and what a change outdates is removed |
| Panic, chat, alerts | rows, socket rooms, deliveries | store, then emit to a room; join, leave, reconnect | what is announced is stored, and only a connection that was away misses it |
| Web client: session | `localStorage`, memory of each window | log in, out, restore, save a profile, a 401 | a window acts as the person it shows |
| Web client: pages | filter, data, refresh key, loads in flight | load, select, act, hear an event, leave | a page shows what was asked last, and a live one catches up |
| Departments, user administration | a row each | create, `PATCH staff-state`, change the strategy | |

What makes it hard:

* a handler acts on an entity it read one or more awaits earlier, and `save()` writes every
  column of it, so it can undo what somebody else stored in between;
* the SLA worker is one more such writer, started by a clock, retried after failures and run
  again when the process died with its job in hand;
* `publish` comes after the save and swallows failures, so an effect may be stored and never
  announced, or answered 201 with no timer behind it;
* checks and the writes they guard are separate statements: duplicates, the hourly limit, the
  failure counter around bcrypt, one registration per e-mail, `INCR` and `EXPIRE`, a cache
  entry and the read it came from;
* what a socket emits reaches the connections of that moment, once, and nothing is sent again
  to one that was down, was being reloaded or had not joined its room yet;
* copies outlive their originals: tokens the row, windows the stored session, cache entries the
  table, a scheduled job the day it was registered;
* an answer to a page's last question may arrive before the answer to the one before.

## 2. The modules

The incident lifecycle:

| Module | Models | Shape |
|---|---|---|
| `IncidentData` | the incident and its row | `Row`, the enumerations |
| `IncidentStates` | `domain/states/*` | an operator per method, `CanX` for "does not throw" |
| `IncidentStore` | `IncidentRepository` | an operator per query; variables `rows`, `age`, `faults`, and `hist`, a history variable with every version of every row |
| `SLAQueue` | `SLATimerManager` and BullMQ's bookkeeping of a job | variable `jobs` |
| `IncidentService` | service, validation chain, factory, controller | variable `req` (a record per HTTP call: where its handler waits and which entity it holds), `staffState`; an action per await |
| `SLAWorker` | `jobs/workers/slaWorker.js` | variables `worker`, `announced`; an action per await |
| `IncidentLifecycle` | all of them in one process that may die and come back | `Init`, `Next`, `Spec`, `FairSpec` and the properties |
| `IncidentContract` | the state diagram, stated apart from the code that walks it | `Edge(v, w)`, `Coherent(v)`, `Fresh` |
| `IncidentMachine` | abstract: the table as the State pattern promises it | every change is an edge from the current row |
| `SnapshotWrites` | abstract: the table as it is under concurrency | every change is an edge from some version the row has had |
| `DocumentedClaims` | what comments and documents say of the lifecycle and the code does not do | three properties |
| `IncidentInvariants` | the inductive invariants `IInv` and `SerialInv` | named parts, see section 4 |
| `IncidentProofs`, `RefinementProofs`, `TimerProofs` | the proofs: rows and handlers; the two refinements, row locks and the checks of a new report; timers | one lemma per action |

People and the rest of the server:

| Module | Models | Shape |
|---|---|---|
| `Accounts` | `authController`, `auth.js`, `PATCH /me` | registration and login as two steps around bcrypt; `row`, `tokens`, and two history variables: `guesses` counts wrong passwords, `named` keeps the names a row has had |
| `RateLimiter` | `rateLimiter.js` | one pipeline per call, Redis failing open, the key expiring |
| `Shifts` | `User.js`: `isOnShift`, `isOnCall`, `isAvailableFor` | operators on a week of minutes, next to what a roster means |
| `Staffing` | the four strategies, `findEligibleStaff` and its queries, staff state, department strategy | the pool is read, then somebody is picked from it |
| `Commands` | `AssignIncidentCommand`, `BroadcastAlertCommand`, `CommandInvoker` | execute and undo, the rows of alerts, the audit row after the effect, any of the writes failing; `unwritten`, a history variable, keeps the entries that were refused |
| `Hotspots` | `HotspotDetector` | a report's handler at `INCR`, at `EXPIRE`, at its message; held up or dead in between |
| `Notifications` | `IncidentEventPublisher`, `wireObservers`, the observers, `NotificationService` and its decorators | the table of subscriptions; a stack of channels per preference |
| `DailySummary` | scheduler, `ai.worker.js` | jobs of departments side by side, retries, restarts, zones |
| `PeopleProofs` | the proofs about accounts, the limiter, shifts and staffing | see section 4 |
| `ReportingProofs` | those about summaries, the publisher, notifications, commands and hotspots | see section 4 |

What people see:

| Module | Models | Shape |
|---|---|---|
| `StatsContract` | abstract: statistics that may be old, and never return once they left | `current`, `circulating`, `answer` |
| `DashboardStats` | `analyticsController`, `analytics.worker`, `CachingIncidentProxy`, `CacheInvalidator` and their keys | implements the contract |
| `PageFetch` | the load of every page of the client | twelve kinds of page by five traits (`guarded`, `keeps`, `live`, `filters`, `acts`) |
| `Sockets` | Socket.IO as the server and `useSocket` use it | rooms, an in-order inbox per tab, drop and reconnect |
| `Panic` | `PanicButton`, `panicController`, `panic.handler`, `GlobalSocketListener` | button, rows, announcements, takeovers |
| `Chat` | `chatController`, `incident.handler` and `chat.handler`, `ChatPage` | room row, posts, pushes, copies shown |
| `Alerts` | `alertController`, `alert` listeners | store, emit, list, retract, emit |
| `Session` | `AuthContext`, `api/client.js`, login, logout and profile pages | storage, windows, requests in flight |
| `DetailPage` | the buttons of `IncidentDetailPage` | what it offers and what the service accepts |
| `PanicProofs`, `MessageProofs` | the proofs about emergencies; about chat and alerts | see section 4 |
| `ScreenProofs` | those about statistics, pages and sessions | see section 4 |

The instances are `MCConcurrent`, `MCSerial`, `MCLive`, `MCClaims` for the lifecycle,
`MCPeople` and `MCScreens` for the two other tables, and `MCPageClaims`.

What is composed with what: the lifecycle composes table, timers, service and worker, because
they write the same rows. Panic, chat and alerts are composed with `Sockets`, the publisher
with every observer, `Staffing` with `Shifts`. The remaining modules share no state in the
code either: a login touches no row that a summary reads. `MCPeople` and `MCScreens` put
such modules side by side, and `part` says which of them moves in a behaviour; the others rest
at one state, in which no fairness asks anything of them. A run of the whole is a run of each
part, for the price of their sum and not of their product.

How an action stands for a handler: in `assignIncident` the first statement
(`findById`, line 154) and the check after it are `AssignLoad`; `findEligibleStaff`, the
strategy and `assignStaff` are `AssignSelectStaff`; `save` (line 198) is `Save`; `publish` and
the answer are `AssignPublish`. Between two of them the record `req[r]` holds what the
handler's local variables hold: `base` is what `findById` returned, `entity` what it has
become. The other operations are cut in the same way:

    create    findDuplicates -> countRecentByUser -> insert -> publish
                             -> increment duplicateCount
    assign    findById -> findEligibleStaff -> save -> publish
    resolve   findById -> save -> publish
    feedback  findById -> save -> publish
    SLA job   findById -> save -> publish -> completed

Failures are part of the model. `QueryFails` is any of these statements throwing: the
error handler answers 500 and nothing is undone. `WorkerQueryFails` is the same in the
processor, whose attempt BullMQ then repeats. `CreatePublish` contains the case that
`queue.add` fails and `publish` logs it. `Crash` is the death of the process: every
handler and processor is gone with what it held, the table and the queue stay, and jobs
in hand are found stalled. `GrowOld` is the clock of the 24-hour and one-hour windows.

The other modules are cut in the same way: at bcrypt in `Accounts`, between the effect and
the audit row in `Commands`, between `INCR` and `EXPIRE` in `Hotspots`, between the row and
the emission in `Panic`, `Chat` and `Alerts`, between the read and the `SET` in
`DashboardStats`. In the client an action is what runs without returning to the event loop:
an effect, a listener, the continuation of an answer. A page is guarded when its effect's
cleanup sets the flag that later answers look at, and `Deliver` then ignores them.

Definitions marked `(mutant)` are not part of the model. Each is a wrong version of the
definition it stands before, the way a plausible mistake in the code would make it, and
shows that a property notices: with it in place of the right one, TLC finds the property
violated.

### Abstractions

* A delayed job may fire at any time after it was scheduled: the SLA windows are left out,
  so every order of the timer and the handlers is covered, the real one included.
* Priority, location, description, photos and notes are abstracted to what the code decides
  on: `defect` in a report ("field": one of the first three validators refuses it, "photo":
  the photo check does), `filed` in a resolution, `low` in a rating, a room or none. A single
  block is modelled: duplicate search never crosses blocks.
* The category is kept because the code loses it: the factory makes a `MaintenanceIncident`
  out of CLEANLINESS, and OTHER becomes a `GeneralIncident` whose category stays undefined,
  which the insert refuses.
* In the lifecycle, which of the eligible staff a strategy picks is left open: any ACTIVE
  member may be taken, and nobody may be found. `Staffing` says which.
* `activeTaskCount`, `penaltyCount`, the status log and feedback entries that the state
  methods change are not columns that `save()` writes for an incident; no later call sees
  them, so the lifecycle leaves them out.
* Time is a tick or a slot where the code compares times (limiter, hotspots, shifts), and an
  expiry that may happen at any moment where it does not (tokens, locks, cache entries).
* Statistics are the number of the version they were computed from, a page's data an edition,
  a summary what it lists. Names, texts and passwords are model values; what tells two
  messages apart is kept (which of `id` and `messageId` a copy carries).
* BullMQ, Redis and Socket.IO are outside the repository: attempts, stalls and locks are
  modelled from the options the code passes (`attempts: 3`) and BullMQ's defaults
  (`maxStalledCount` 1); an emission reaches the sockets in the rooms at that moment, in order.

## 3. What TLC checks

| Run | Instance | What it shows |
|---|---|---|
| `concurrent` | 1 incident, 4 requests of any kind, its job, 2 failures or crashes, everything in flight together; 489 thousand states | with every interleaving of awaits: `RowsCoherent`, `AnswersAreRecorded`, `SpentTimerWasJustified`, `EscalationAnnouncedOnce`, `SilentEscalationNeedsCrash`, `CreatedHasTimer`, `EdgesUnlessStale`, and that the table implements `SnapshotWrites` (`WritesAreSnapshots`); also the inductive invariant `IInv` |
| `serial` | 2 ids, 4 requests, one at a time, limit 1 per hour, six sorts of report, CLEANLINESS among them, rows growing old; 782 thousand states | served alone, the table implements `IncidentMachine` (`WritesAreTransitions`), `CreatesAreNovel` (no twin of an open incident, CLEANLINESS apart), `SpamLimit` (nobody gets past the limit), `DuplicatesCounted` |
| `live` | 1 incident, 3 requests, 1 failure; 118 thousand states | `RequestsAnswered`, `OverdueIsHandled`, `OverdueIsAnnounced` under `FairSpec` |
| `people` | the server's other parts, one at a time; 609 thousand states | the table below |
| `screens` | caches, pages and sockets, one at a time; 904 thousand states | the table below |
| `claim_*` | the smallest instances that show them | seven claims the code does not keep |

| Property | Part and instance | What it says |
|---|---|---|
| `GuessesBounded` | accounts: one e-mail, two requests in flight, five failures lock | overlapping attempts set the counter back, yet an account sees fewer than "limit + n - 1 choose n" wrong passwords before a lock |
| `TokensMatchRows`, `OldNamesLeave` | the same, two roles, two names, one rename | a token has the role of its row and a name the row has had; an old name is in tokens, and in the end in none |
| `WindowIsExact` | one address, limit 2, windows of 2 in 3 ticks, 3 calls a tick | no window admits more than the limit, and only who exceeded it is refused |
| `ShiftsExact` | every roster of a worker in weeks of two days of seven slots | `isOnShift` is what the roster means, except after midnight in a shift of some days |
| `DutyOutlastsWindow`, `NobodyFreerWasPassedOver` | two workers and an officer, an assignment under every strategy, one change of state in between | `SHIFT_AWARE` picks somebody who is on duty to the deadline or on call, `LEAST_LOADED` nobody busier than another it asked for |
| `UndoRestores`, `AuditIsTrue` | two assign commands or one alert command, four invocations, failing writes | orderly undo leads back to the first assignee; in any session an audit entry names an alert that was stored, or retracted, and every such alert has its entry unless that very write was refused |
| `HotspotNotMissed` | four reports, threshold 3, window 2 | the third report of a window speaks, unless a handler was held up between its two calls |
| `ObserversAreIndependent`, `SilenceIsExplained` | every event, every preference, two refusals | failures stay with their observer, and silence passes outward only |
| `SummariesAreWhole` | two departments, two days, two incidents a day, two jobs together, three restarts, two zones | a row is one department's, of one day, and whole unless it was read on that day |
| `NothingOldReturns` | one department and the campus, one change, two computations together, one failure | `DashboardStats` implements `StatsContract`: an older number does not come back once it left |
| `ShowsWhatWasAsked`, `LivePageCatchesUp` | every kind of page, two selections, two loads together, two editions, one move, one failure | a settled page shows the last selection and the user's own change; a live one every change it was told of |
| `TakeoversEnd`, `AnnouncedIffRecorded` | reporter, officer and administrator, two emergencies, one lost connection, reload or crash | a takeover outlives its acknowledgement only on a tab that could not hear it |
| `NothingElseIsLost`, `AtMostRowAndPush` | two people, two messages, two opened chats, one lost connection | what a page does not show was pushed while it was away, or wiped by its own load |
| `RetractionsFollow` | an alert to the campus and one to a role, two retractions, one lost connection | a retraction is heard last, unless it was issued before the alert was emitted |
| `ActsAsShown` | two windows of a browser, two people, two requests, two tokens | requests are made as the person on the screen unless another window changed the session |

The bounds. `MaxInFlight` limits how many handlers and jobs of the lifecycle run together,
`MaxFaults` how often something fails, `MaxAge` how far rows grow old, `Kinds` and `Reports`
what clients ask for, and reports are not sent when no id is left (`IdsLeft`). One incident
suffices for everything that happens to a row, because neither a handler nor a job ever touches
two. Four requests let an assignment, a resolution and a rating (or a second writer) follow the
creation while the SLA job is in hand. Two failures are a crash in the middle and one more
while the job is retried, and with `MaxAttempts` 2 and `MaxStalls` 1 that reaches both ways
to a failed job. The serial run needs two ids for duplicates and three ages for the two
windows; failures are left out there, for the size of the run: the theorems about the same
properties cover any number of them.

In `people` and `screens` each bound is the smallest with which the case its property is about
happens, which the mutants confirm: two requests for what overlaps a bcrypt call or a load, two
departments for one summary that overwrites another, three ticks for a window that slides, seven
slots for a shift that crosses midnight between two looks of `isAvailableFor`, two
emergencies for a takeover that replaces another, two windows for a session changed behind
one's back. `MaxFailures`, `MaxRenames`, `MaxUpdates`, `MaxInvocations`, `MaxReports`,
`MaxChanges`, `MaxBusy`, `MaxEditions`, `MaxMoves`, `MaxDrops`, `MaxOpens`, `MaxRetractions`,
`MaxTokens`, `MaxRestarts` and the like bound what people, clocks and accidents do, never what
the program does in answer. Larger instances are the business of the proofs.

In the part about sessions people and request slots are interchangeable; `FirstOfAll` keeps one of
each set of behaviours that differ by their names only.

`CHECK_DEADLOCK FALSE`: when people do nothing more and no job is due, nothing happens, and
that is how the program idles.

Fairness. All of it is weak, since what is enabled stays enabled until it is taken, and none
of it makes people call, connections drop, rows change or anything fail.

* `FairSpec`: `WF(Serve(r))`, a pending query is answered, or fails, and Node's event loop
  then runs the handler; `WF(Process(i))`, BullMQ delivers a job that is due and the processor
  goes on.
* `AccountsFairness`: handlers come to their end, and the clock reaches a token's expiry.
* `PageFairness`: React runs an effect that is due, the server answers, the answer and the
  events that arrived are handled.
* `HoldSpec`: the interval fires while it is set, and the effect that is due runs.

### Documented and not done

1. `claim_resolved`. The SLA worker reads an IN_PROGRESS incident and decides to escalate; a
   technician's resolution is stored; the worker saves its entity. The row goes from RESOLVED
   to ESCALATED, with the resolution note gone. `ResolvedState.js` calls RESOLVED the
   "terminal happy-path state", and `docs/AI_CONTEXT.md` describes a SELECT FOR UPDATE that
   the worker does not issue.
2. `claim_assigned`. Two administrators assign one OPEN incident: both handlers read OPEN,
   both save, both answer 200, and the first assignee is forgotten.
   `docs/SYSTEM_DESIGN.md` says the second gets `IncidentNotAssignableError`.
3. `claim_twin`. A second CLEANLINESS report of a place is stored beside the open one: the factory
   makes a `MaintenanceIncident` of the first, and `findDuplicates` looks for CLEANLINESS.
   INC-03 (`docs/PRD.md:158`) reads "Duplicate detection: same location + category + 24hr window".
4. `claim_hold`. The effect that listens for the release depends on the progress, and its
   cleanup clears the interval that makes the progress. Unless the first tick comes as late as
   the full two seconds, a button that stays down stops counting and raises no alert, though
   it says "HOLD 2s".
5. `claim_offered`. `getIncident` answers with the entity, which has a `state` and offers its
   status by `getCurrentStatus()`, so there is no `status` in the JSON. The page compares
   `undefined` with every status and offers no button. `docs/API_CONTRACT.md` shows the field.
6. `claim_campus`. An alert to the whole campus is emitted to the room `campus`, which no socket
   joins. `docs/PRD.md:119` lets an administrator "broadcast campus-wide emergency alerts",
   the repository's `README.md:605` calls the event a "Campus-wide alert", and
   `BroadcastAlertCommand.js:49` says "everyone connected" of that room.
7. `claim_dashboard`. `CacheInvalidator` deletes `cache:dashboard:*`; the dashboard is cached under
   `analytics:dashboard:*`, so a resolved incident leaves its old numbers where they are.
   `docs/API_CONTRACT.md:597` says "Redis — 5-minute TTL, invalidated on incident status change", as
   do `docs/USER_FLOWS.md:205` and `docs/SYSTEM_DESIGN.md` 3.5.

Claims 1 and 2 need two things in flight, the others do not. What the lifecycle does guarantee
in place of 1 and 2 is what `concurrent` checks and section 4 proves: a stale write can lose an
update, and it can never make an incident whose columns contradict each other, nor one that no
path of the diagram leads to from a version that existed.

The models contain five more disagreements with a document or a comment. They have no run: a
single call shows each of them, or the properties already say how far they go.

* After a low rating the incident is REOPENED and stays so: the service accepts OPEN and ESCALATED
  only (`IncidentService.js:157`), and `ReopenedState.assignStaff` is never reached.
  `docs/DOMAIN_MODEL.md:238` draws "REOPENED ── assignStaff → IN_PROGRESS".
* `slaJobId` is set on an entity that has been saved already and is not saved again, so at
  resolution nothing is cancelled and the job fires. `SLATimerManager.js:6` says that the pending
  job is cancelled; `SpentTimerWasJustified` says what such a job may do.
* `ChatPage` recognises its own messages by `id`, and the pushed copy has a `messageId`: the sender
  sees the message twice, though `ChatPage.jsx:277` says "Deduplicate by id". `AtMostRowAndPush`
  is the bound.
* The limiters are mounted before `authenticate`, so they count per address. `index.js:169` says
  "10 incident creations per minute per authenticated user", and `docs/SYSTEM_DESIGN.md` 3.6 gives
  limits by role and a script that does not record what it refuses.
* Round robin never stores its index, so every call begins with the same member. ASSIGN-03
  (`docs/PRD.md:174`) reads "rotate assignments evenly", and `AssignmentStrategy.js:60` says that the
  index is updated after each assignment.

### Noticed on the way

The models contain these facts too, about which the documents are silent.

* `getDashboardStats` and the proxy's invalidation have no callers. The worker and the controller
  store differently named fields under one key.
* When a lock expires the failure counter stays at the limit: one more wrong password locks again.
* The part of an overnight shift after midnight belongs to the weekday it falls on.
* Task counts and penalties change on entities that nothing saves, so the strategies choose by
  the counts of the seed.
* Each report renews the hotspot counter's expiry: reports a day apart add up for ever.
* A panic creates its incident directly, with no SLA timer and no event; a second takeover
  replaces the first, and acknowledging the first no longer closes anything there.
* After a successful acknowledgement the takeover's button stays in its loading state for the next.
* After a reconnection the chat's room is not joined again, and `ChatPage` looks for the
  history one level above where the answer has it.
* The analytics, e-mail, sentiment and classification queues have consumers and no producers;
  `NotificationService` and the commands have no callers. They are modelled as written.
* The daily summary's date is fixed when the job is registered, its row is keyed by the UTC date
  of a local midnight, and departments overwrite one another's.

## 4. What is proved

For all values of the constants, from the assumptions the modules name. These say that null
values are none of the real ones, that bounds are numbers (and a window, a day, a threshold not
zero), that what clients ask for is well formed (requested kinds and reports, rosters, authors
of messages), that the table of subscriptions names observers, and, where something is counted
or chosen by a minimum, that the set is finite: `Requests` and `Incidents`
(`ServiceAssumption`), `Staff` (`StaffingAssumption`), `Calls` (`AccountsAssumption`). A table
has finitely many rows. Somebody is served: `MaxInFlight` is not zero.

| Theorem | States |
|---|---|
| `TypeCorrectness` | `Spec => []TypeOK` (the lifecycle) |
| `Coherence` | `Spec => []RowsCoherent` |
| `AnswersHold` | `Spec => []AnswersAreRecorded` |
| `Refinement` | `Spec => WritesAreSnapshots`, the refinement of `SnapshotWrites` |
| `StalenessIsTheOnlyDanger` | `Spec => EdgesUnlessStale` |
| `TimersAreSpentWell` | `Spec => []SpentTimerWasJustified` |
| `AnnouncedOnce` | `Spec => []EscalationAnnouncedOnce` |
| `SilenceMeansCrash` | `Spec => []SilentEscalationNeedsCrash` |
| `TimersAreScheduled` | `Spec => []CreatedHasTimer` |
| `Invariance`, `InductiveInvariant` | `Spec => []DataInv`, `Spec => []IInv` |
| `SpamIsThrottled` | `Spec => []SpamLimit`: fewer than `MaxPerHour + MaxInFlight` recent reports each |
| `DuplicatesAreNotInvented` | `Spec => []DuplicatesNotInvented`: `duplicateCount` is at most the number of refused reports |
| `RowLocksSuffice` | `Spec /\ RowLocks => WritesAreTransitions /\ ResolvedIsNotEscalated /\ AssignedWhileAssignable` |
| `LocksKeepTheCount` | `Spec /\ RowLocks => []DuplicatesCounted` |
| `SerialRefinement` | if `MaxInFlight = 1`: `Spec => WritesAreTransitions`, the refinement of `IncidentMachine` |
| `DuplicatesAreCounted` | if `MaxInFlight = 1`: `Spec => []DuplicatesCounted` |
| `NoTwinIsCreated` | if `MaxInFlight = 1`: `Spec => CreatesAreNovel` |
| `FewGuesses` | `AccountsSpec => []GuessesBounded` |
| `TokensCanBeTrusted` | `AccountsSpec => []TokensMatchRows` |
| `TheWindowSlides` | `LimiterSpec => []WindowIsExact` |
| `RostersAreKept` | `StaffingSpec => []ShiftsExact` |
| `DutyCoversTheWindow`, `NobodyWasFreer` | `StaffingSpec => []DutyOutlastsWindow`, `[]NobodyFreerWasPassedOver` |
| `UndoRestoresWhatWas`, `AuditTellsTheTruth` | `CommandsSpec => []UndoRestores`, `[]AuditIsTrue` |
| `NoHotspotMissed` | `HotspotSpec => []HotspotNotMissed` |
| `FailuresStayLocal`, `SilenceHasACause` | `NotificationSpec => []ObserversAreIndependent`, `[]SilenceIsExplained` |
| `RowsAreWhole` | `SummarySpec => []SummariesAreWhole` |
| `OldNumbersStayAway` | `Spec => NothingOldReturns` of `DashboardStats`, the refinement of `StatsContract` |
| `PagesShowWhatWasAsked` | `PageSpec => []ShowsWhatWasAsked` |
| `PanicInvariance`, `AcknowledgementsAreAnnounced`, `TakeoversAreLifted` | `PanicSpec => []PInv`, `[]AnnouncedIffRecorded`, `[]TakeoversEnd` |
| `MessagesArrive`, `MessagesShownTwiceAtMost` | `MessagesSpec => []NothingElseIsLost`, `[]AtMostRowAndPush` |
| `RetractionIsHeardLast` | `AlertsSpec => []RetractionsFollow` |
| `WindowsActAsShown` | `SessionSpec => []ActsAsShown` |

### The inductive invariant

None of the properties is inductive. `RowsCoherent`, for one, speaks of rows only, and a
save is harmless only because of what the saving handler holds. `DataInv` therefore adds:

* `StoreInv`: the row is in its history, and every version in it is coherent and one that
  `toEntity()` gives back unchanged (this is where CLEANLINESS matters);
* `HandlerGood(h, versions)`: what a handler knows at each await. The point is that it never
  speaks of the current row. A handler at `save` holds an entity one `Edge` away from
  *some* version in the history, and a history only grows, so nothing another actor does can
  falsify it. That one lemma, `HandlerStaysGood`, disposes of all interleavings;
* `ProcessorGood(w, versions)`: the same for the worker.

Each action then needs a lemma about its own handler only. `Refinement` and
`StalenessIsTheOnlyDanger` follow from `TableStep`, a summary of what any step can do to the
table.

`TimerInv` is about one incident's job at a time: the processor is busy exactly while the
job is active; announcements are at most the stalls, and one more once the job is finished;
an ESCALATED version without an announcement has its processor about to publish or a stall on
record. A timer is scheduled by the one handler that inserted the row, and only while there
is no job (`Scheduling`).

`ReportsInv` is about the two checks of a new report. `SpamThrottleValidator` counts the rows of
the last hour at one await and `save()` inserts at a later one, so a handler that has passed
and not inserted (`Inserting(u)`) must be counted with the rows that exist: the sum stays below
`MaxPerHour + MaxInFlight`. Whoever passes saw fewer than `MaxPerHour` rows, and those that had
passed before it are at most `MaxInFlight - 1` others; an insert moves one from the handlers to
the rows; everything else only lowers the sum. With two requests in flight and a limit of one
TLC reaches the bound, so it cannot be lowered. For duplicates, `Rejected(i)` grows by one with
each increment that is stored, and a save writes a count that some version had; so no version
ever counts more than were refused, while a stale save may well count fewer.

### If rows were locked

The table leaves the documented diagram, and two of the claims in section 3 fail, for one reason:
a row is read at one await and written at a later one, and nothing keeps others from writing it
in between. `RowLocks` says what is missing: a write leaves nobody with a copy of what it
replaced. The code has nothing of the kind, so it is a hypothesis and not part of the
specification. For these properties it is also all that is missing: under it
what was read is what is there (`CopiesAreFresh`), no writer is stale, every write is an edge
from the row itself, and a count is never put back (`RefusalsCounted`), whatever else overlaps,
fails or dies. `RowLocksSuffice` states this for the refinement of `IncidentMachine` and
for two claims that runs refute, `LocksKeepTheCount` for the number of duplicates.

### One at a time

With `MaxInFlight = 1` the hypothesis is met without locks (`OneAtATimeLocks`), which is also what
shows that something satisfies it: `OneAtATime` says that one handler is at work, or one
processor, or none, and `StillTrue(h)` that what a handler read at one await is still so at
the next. `SerialRefinement` and `DuplicatesAreCounted` follow from the theorems on locks.
Failures and crashes are included: the theorems do not bound `MaxFaults`. A crash drops the
handler with what it held, and an increment that fails leaves its request answered with an
error and not with DUPLICATE_INCIDENT, so it is counted on neither side.

Locks on rows do not help `NoTwinIsCreated`, because the row its check should see does not exist
yet; it needs that no row matches between the duplicate check and the insert, which `StillTrue`
says of a handler that is alone.

`CreatesAreNovel` says of every other category what claim 3 refutes for CLEANLINESS, in runs where
such reports are made as well: they leave MAINTENANCE rows, which later reports of MAINTENANCE find.

### The other invariants

* Accounts. A login acts on a copy of the row that may be old. `HandlerKnows` says what stays
  true of the copy: a row exists under that e-mail, has that role and has had that name. Rows are
  never deleted, only a name or a counter changes in them, and `named` only grows (`RolesStay`,
  `NamesGrow`), so no other handler can falsify it.
* Wrong passwords. A failure writes the counter its request read, plus one, so an older request
  can put it back and grant further attempts; what has to be shown is that this ends, and after how
  many. `Profile(e)` gives for each k the number of requests that could still write a counter of
  at most k + 1, which grows with k. Each wrong password that does not lock lowers the profile
  where it first differs (`Below`), and until a right password or a lock ends the count nothing
  raises it, so the profiles that were passed do not come back (`GuessInv`). There are as many
  profiles as nondecreasing functions of the numbers below `FailureLimit - 1` into 0..n. That
  this is the binomial coefficient (`ChooseCountsIncreasing`) is an induction, carried out by
  the smallest counterexample, as is the existence of the function that `factorial` defines.
* Rate limiter. Eviction forgets what no later window counts, so the sorted set is exact only
  within the window (`SetIsExact`). Whoever is let through made the set's size at most the
  limit, and a window that starts later has fewer of the old and, by the same argument, of the
  new. Sizes are of disjoint unions (`Members`), which makes the sum over ticks a cardinality.
* Shifts and staffing. `isOnShift` compares minutes of a day; the lemmas split a shift into the
  one that ends on its day and the one that goes past midnight. `PoolOK` ties each row of the
  pool to the load its user still has, `PickOK` keeps what the strategy's choice meant at the
  moment it was made.
* Commands. `AuditInv`: who is about to audit has stored, or retracted, the alert its entry names,
  and every alert is accounted for by an entry that is written, refused or to come. In an orderly
  session one command runs at a time, and what it has still to save is what the object says
  (`AloneInv`); each command of the history found the incident where the ones before it left it
  (`ChainInv`), so that taking the last one off leads back to what the others make of it;
  `tasks` follows the assignee (`TasksInv`).
* Hotspots. While nobody is held up between `INCR` and `EXPIRE`, the key lives as long as any
  report in its window, and the counter is at least the number of those (`CountsInv`).
* Notifications. A chain of decorators passes its channels in one order, so that what was
  reached is what was wanted of the channels passed so far (`PassedInv`); a chain that failed
  never passes its last channel.
* Statistics. `Held(k)` is everything that can still be stored under a key: what is there, and
  what computations under way have read. The contract allows a version to leave and not to come
  back; the lemmas show that a computation adds the current version only, and that every other
  step moves versions that are held already or drops them.
* Panic. `TakeoversEnd` speaks of a tab that has heard everything, and what ends its takeover may
  be on the way, in the inbox behind the alert that started it. `PInv` says so: an alert is
  emitted once, before any acknowledgement of it is; as soon as one was announced, every tab
  that shows the takeover or is about to has the announcement behind the alert, or is listed in
  `missed` (`EndInv`, `AckFollows`). Lost connections and reloads empty an inbox into `missed`.
* Pages. Unless unguarded loads raced, a page that has run its effects waits for one load, which
  asks what is selected now and sees the user's own change, and a page that waits for none shows
  such an answer (`LoadInv`). That no page both cancels its loads and has buttons (`KindsOf`) is
  a fact about the client the argument needs.
* Chat. A message that was pushed is, for each tab, in the inbox, on the page as the row or as
  the push, or among the lost; a page never shows the push of a message that is still in its
  inbox, and never the row of one whose POST has not answered, and neither inbox nor page
  repeats itself (`Tab`).
* Alerts. `Alarmed(t, a)` is the last word of alert `a` for tab `t`, whether heard or still in
  the inbox. An emission to a room makes it so or ends it for every connected tab of that room
  at once, and hearing does not change it.
* Session. A window that nobody overtook has in memory what is stored, and so have the requests
  it sent (`Agreement`). Each action either changes memory and storage together or puts
  the other windows among the overtaken.
* Summaries. A list read on a day that is over cannot become incomplete, because incidents are
  only reported for the day it is (`Complete`).
* Publisher. An observer that has ended has told whom it tells, and `publish` returns when none is
  left (`ObserversInv`).

### Only model-checked

* Liveness, which the prover does not reach: `RequestsAnswered`, `OverdueIsHandled`,
  `OverdueIsAnnounced`, `OldNamesLeave`, `LivePageCatchesUp`.

Every safety property of the passing runs is stated by a theorem above.

## 5. Not modelled

* Creating a department or a staff member: one insert behind a unique column.
* Read marks and typing indicators of the chat, and the SLA query over the socket: they change
  nothing that another call reads.
* The heat map's and staff performance's aggregation, and the listings' filters: one query
  each; that their answers belong to the question shown is in `PageFetch`.
* Forms' fields, charts, layout and wording; e-mail and SMS text; photo storage; seed scripts;
  the model service behind the AI tasks, whose queues have no producer.
