# RSAP: a TLA+ verification development

RSAP is a surveillance analytics platform: a desktop application at the edge runs
camera workers and stores their events in an encrypted local database; a central web
backend owns users, licences, cameras and the synchronised analytics; the desktop
synchronises through a durable queue and works offline.

This directory holds TLA+ modules for the parts of the program whose correctness depends on
interleavings, failures and retries, the TLC instances that check them, and TLAPS proofs,
for every value of the constants, of every safety property that the passing runs check: of
the queue and the synchronisation that drives it, of the desktop's session, of the camera
worker, its manager and their service, of the frame pipeline and its analyzers, and of the
central backend's sessions, accounts and stored images. `PROJECT.json` lists the components, runs, hazards, theorems and the source lines each definition models.

## Inventory

| Component | State | Operations | Hard because | Correct when |
|---|---|---|---|---|
| Durable sync queue (`desktop-backend/app/repositories.py`) | rows with key, version, state, attempts, lease token, predecessor, dependency | enqueue/coalesce, claim, complete, fail, retry, discard, cancel, purge | several flushes, leases that run out, late settlements, purging of rows others refer to | a live lease owns its row, versions go out in order, leased work does not change, references survive purging |
| Edge sync (`services.py` `flush_once`, `clients.py`, `CameraRepository`, `AnalyticsRepository`, central `routers/cameras.py`, `routers/sync.py`) | local and central cameras and records, one batch per flush | create/update/delete camera, add record, flush, the central handlers | answers lost after the effect, requests repeated by the client, mutation during a request, crash in a batch | records follow their camera, versions are applied in order, what is marked synchronised is stored |
| Desktop session (`AuthService`, `SessionRepository`) | one session row with a generation and a status | login, logout, refresh, authenticate, revocation in a flush | central call and local write are separate steps; state read before an await is used after it | no logout call hits the active session, a logout is final |
| Camera worker (`orchestration/worker.py`, `cv_engine/streaming`) | lifecycle state, three tasks, the reading thread, native captures, frame buffer, pipeline, event queue | start, stop, the loops, `read()` and `close()` of the capture | stop during construction or connect, failing loops, draining in order | nothing native leaks, events neither lost nor reordered, a terminal state means everything is released, start and stop return |
| Worker manager and service (`orchestration/manager.py`, `service.py`, `adapters.py`) | registry, camera locks, admission, start/stop tasks, job | start/stop/restart camera, reconcile, shutdown, service start/stop | overlapping operations, cancellation, capacity, shutdown races | no worker is lost, shutdown leaves nothing, the workers converge to the catalog as far as there are places |
| Frame pipeline (`cv_engine/pipeline/frame_pipeline.py`) | closing flags, counts of frames, submissions and reservations, callback futures, retained errors | process, emit, `wait_for_callbacks`, `aclose`, `close` | threads and the event loop share the counts; several ways to close | bounded backlog, drained when closed, no callback error lost, `aclose` ends |
| Analyzers (`models/tracker.py`, `zone_analyzer.py`, `people_counter.py`, `intrusion_detector.py`) | tracks, presence, sides, cooldowns, each with its own expiry | one frame at a time | the memories outlive a track by different rules | visits and crossings alternate, cooldowns hold |
| Central session service (`webapp-backend/app/services/session_service.py`, `routers/auth.py`) | database sessions, two Redis keys per user, session outbox, connection pool | login, validation of a request, refresh, logout, revoke, reconcile | two stores updated in two steps, unclaimed outbox rows, failures between effect and mark, restarts | one session per user, refresh tokens are single-use, no revocation is lost |
| Central accounts (`routers/users.py`, `routers/licenses.py`, `services/rbac_service.py`) | users, permissions, licences, row locks, an advisory lock | create, change, delete, (de)activate, grant, revoke, licence create/change/expire | check and change are separate statements, licences lapse while a transaction waits | an operational super administrator remains, an admin never changes a higher account |
| Persons and external cleanup (`routers/persons.py`, `services/file_service.py`, `services/cleanup_service.py`) | person rows, stored objects, cleanup outbox | create person, update face, delete person, cleanup passes | the row and its object cannot change together; commits and uploads may be unanswered | an image in use stays stored, no image leaks, queued removals are carried out |
| Central WebSocket manager, heartbeat | sockets per user | connect, disconnect, broadcast | a send during a disconnect | not modelled |
| Detection and face models, desktop database, container and routers, file server, process runner, frontends | little or none | | adapters, tools, inference and user interfaces | not modelled |

The desktop container starts the database, then the orchestration service. The service
reconciles the manager's workers with the camera catalog. A worker's thread reads the
capture, its analytics loop hands frames to the pipeline, the pipeline runs tracker and
analyzers and calls the worker back with events; these go through the sink to the
analytics repository, which stores the event and enqueues its synchronisation in one
transaction. `flush_once` claims queue rows and calls the central API. Login and logout
share the queue: a logout that cannot reach the central backend becomes a revocation row.
At the central backend every request is validated by the session service; changes of
accounts and licences write revocations into the session outbox.

## Modules

| Module | Models | How |
|---|---|---|
| `QueueTable` | the SQL of the queue | operators from table to table, no state |
| `SyncQueue` | the queue under any callers | variables `q` (rows), `nextId`, `nextTok`, `expired` (tokens whose lease ran out), `held` (claims not yet settled), `closed` (keys that take no further work); one action per repository method |
| `DesktopSync` | cameras, records, flushes and the central endpoints | `Flush`, `Send`, `SendAnalytics`, `SendFails`, `RequestRetried`, `SettleOk`, `SettleFailed` and `FlushPurge` are the stretches of `flush_once` between its awaits; `Serve` is what the central handlers answer and do; a request that is safe to retry may be carried out again by the HTTP client; refines `SyncQueue` |
| `DesktopAuth` | the session row and revocation | each method of `AuthService` is cut at its awaits; `csess` and `spent` are what the central backend holds of its sessions: whether one is live, was revoked by a logout call or ended by the backend itself, and whether the refresh token the desktop stores was exchanged before. A login ends the account's live session (`CentralLogin`), a replayed token its own (`TokenReplayed`), and a login elsewhere any (`EndsElsewhere`) |
| `WorkerLife` | what a worker promises its manager | the steps a worker's published state may take |
| `Streaming` | `ResilientCapture` and `FrameBuffer` | `read()` cut at its lock and its native calls, `close()`, and whether an unseen frame is there |
| `CameraWorker` | one worker generation | extends `Streaming`: supervisor, capture loop, the thread in `read()`, analytics loop, pipeline callbacks and dispatcher as tasks with a program counter each; follows `WorkerLife` |
| `CameraManager` | the manager | per camera and task, the operation in progress; the camera lock is the queue of tasks waiting for it |
| `OrchestrationService` | the service, its job and requests | extends `CameraManager` with the start task, the stop task, the job and the catalog, which may enable more cameras than the manager has places |
| `FramePipeline` | the pipeline's concurrency | processing threads, callback tasks, the close task and the callers of `aclose`, `close` and `wait_for_callbacks`; a section under one lock is one step |
| `Analyzers` | what one frame does to tracker and analyzers | images decide freely which tracks are matched, which boxes are degenerate and where each track is; the memories keep ages |
| `CentralSession` | the sessions of one user of the central backend | `account`, `lic` and `row` are the tables, `sess` and `ref` the Redis keys, `outbox` the session outbox; a request and a pass over the outbox have a program counter each; a Lua script and a transaction are one step, except login's transaction, which keeps the user's row locked (`userLock`) across its call of Redis |
| `CentralAdmin` | users, permissions and licences | a handler authenticates, begins its transaction, takes the advisory lock if it may reduce the super administrators, locks its target, checks and commits; the sessions it revokes are `CentralSession`'s |
| `PersonFiles` | persons, face images and the cleanup outbox | handlers and passes are cut at their transactions and their calls of the object store, each of which may fail, go unanswered or be followed by a crash; a handler and a pass hold a connection each and begin only when the pool has one (`FreeConnection`) |
| `SyncQueueProofs`, `DesktopSyncProofs`, `CameraWorkerProofs`, `CentralSessionProofs`, `CentralAdminProofs`, `PersonFilesProofs` | | TLAPS proofs about the module each is named after |
| `DesktopProofs` | | TLAPS proofs about `DesktopAuth`, and about `OrchestrationService` with `CameraManager` |
| `FramePipelineProofs` | | TLAPS proofs about `FramePipeline` and about `Analyzers` |

Time is abstracted to events or ages: a lease runs out, a backoff or retention period
ends, a timer fires, a licence lapses. Payloads are reduced to the fields that decide an
answer. Texts, metrics, logging, encryption and validation of requests are left out.
Definitions whose comment begins with "Variant with a bug" are not part of the
specifications; they show that the property they are paired with in `PROJECT.json`
notices that bug.

In the asyncio modules a step is what a task does between two awaits that can suspend it.
A lock that is only held over code without such an await (the registry lock, the state
lock) is free whenever another task runs and therefore does not appear. The capture's
lock is taken by a thread and by the event loop and does appear, as the way `read()` is
cut into steps.

## Runs

| Run | Question | Instance |
|---|---|---|
| `queue` | are leases exclusive and fenced, versions and references kept, is leased work immutable and no camera blocked for ever? | one key of each kind (camera, record, revocation), two camera payloads, 3 rows, 2 claims, 2 attempts, any number of rows purged before: enough for a row to be claimed, lost, reclaimed and purged under another row |
| `edge_sync` | do records follow their camera, are marked records stored, are versions applied in order, does a flush settle what it sent, and is the queue used as `SyncQueue` says? | one camera, new or synchronised (and its rows purged) before, one record, two flushes (symmetric), 3 rows, 2 claims: two flushes can hold the same row one after the other, and a late answer meets a newer claim |
| `sync_coalesce` | does a mutation during a lease get a successor that carries it? | violation, see below |
| `auth` | does every logout call spare the active session, is a logout final? | two logins, generations up to three, three claims, one flush: a second login can end the first one's session before it is saved, and a token can be presented again after a crash |
| `auth_durable` | is a revocation item kept until the central logout? | violation, see below |
| `camera_worker` | is no native capture leaked, every transition valid, cleanup complete, no accepted event lost, do start and stop return? | queue size 2 and four events, so that the queue is full with a callback waiting; connects, reads, frames, callbacks and the close may fail at any time; stop at any point of `read()` |
| `orchestration` | is no worker lost, the status right, nothing left after shutdown, do stop and requests return, do the workers converge to the catalog? | two cameras, two definitions, one place, one user with one call, two faults, one catalog edit: a request, the job and the shutdown can overlap on one camera, and an edit after the start can enable both cameras, of which one then waits for the place |
| `central_session` | is the older of two logins never accepted after the newer one, a refresh token exchanged once, a revocation never lost? | one user, two requests (symmetric) and the worker, two logins, three tokens, two licences, two outbox rows, one failure or restart: two passes can overlap on the same two rows, a login, a refresh and a logout can overlap in pairs, and one call can fail anywhere |
| `frame_pipeline` | is the backlog bounded, a closed pipeline drained, no callback error lost, does `aclose` end? | two threads, one of them the executor's, one waiter, two callers of `aclose` and one of `close`, one place in the backlog and one retained error, so that both limits are hit; two events a frame |
| `analyzers` | do visits and crossings alternate and cooldowns hold? | one track, one zone, `max_age` 1, `min_hits` 3, memories of three frames, which is the longest gap; tracks share no memory, and a frame is any choice of missed, matched or degenerate |
| `central_admin` | does an operational super administrator remain, does an admin never change a higher account? | two super administrators, an admin and a user, three licences, two requests, which interleave at every lock, one lapse of time |
| `person_files` | is an image in use stored, does no image leak, are removals carried out? | one person, three images, two handlers, the worker, one row a pass, two failures or crashes, four connections: two handlers with their passes fill the pool, and the worker waits |

Deadlock checking is off except in `analyzers`: every other model has bounds (`Max...`)
that make it stop, and a worker, pipeline or service that was stopped has nothing left to do.

Every specification has a type invariant, `TypeOK` (`ServiceTypeOK`, `AnalyzersTypeOK`), and it
is proved, often in a stronger form that also gives the records of handlers and threads
their types (in `DesktopAuth` without the queue's rows, whose types are `SyncQueueProofs`').

### What some properties leave out

* `NothingLeaks` names the cases in which the code leaves an object behind: an upload
  that failed after it was stored, a compensation that failed, a crash, and an
  `update_face` whose read of the old image was stale (`persons.py:212`).
* `FaceIsStored` sets aside an object whose commit was carried out and reported as
  failed (`persons.py:228`): the handler cannot tell, and hands it to the outbox.
* `LastAdminStays` judges by the time the transaction began, as the code does.
* `ZoneEventsAlternate` and `CrossingsAlternate` state the relation between the tracker's
  `max_age`, `min_hits` and the analyzers' memories that they need; `CVConfig` does not enforce it.
* `NoErrorLost` does not count errors pushed out of the bounded deque.
* `LogoutsSpareActive` is about the desktop's logout calls. The active session may be dead
  centrally all the same, because the central backend ended it: a desktop login opens the new
  session, which ends the account's old one, before it saves it (`services.py:53`), so a
  refused licence, a failed save, a lost answer or a crash leaves the local row with a session
  that is gone. `DesktopAuth` has these steps, and its sessions are then `"ended"`.
* `Converges` does not promise every enabled camera a worker. A licence allows up to 64
  cameras (`schemas/license.py:13`), the container leaves `max_active_workers` at 8
  (`manager.py:42`), and `ORCHESTRATION_CONTRACTS.md:37` says that the two match. With more
  enabled cameras than places each reconciliation raises (`manager.py:90`), and what
  `Converges` says is that the places are filled with workers the catalog wants, in the
  definitions it gives. At start-up the same excess rolls the start back (`StartRolledBack`):
  the service does not run, and the property says nothing.
* `CleanupCompletes` has the pool as its hypothesis: `PoolServesWorker` says that from some moment
  on there is a connection whenever the worker is about to begin a pass. The code does not
  guarantee it. `acquire` has no timeout, and handlers that hold a connection while their own
  pass waits for another (`persons.py:201`, `persons.py:232`) can fill the pool and wait for
  each other for ever, and the worker with them.
* `CooldownHolds` is about tracks reported in every frame since their last alert; one that is
  missed for a frame loses its cooldown (`frame_pipeline.py:125`).

### What the violations show

* `sync_coalesce` (`repositories.py:67`): two updates of different columns while the
  create is leased; the second PATCH replaces the first in the pending successor row,
  so the first column is never sent.
* `auth_durable` (`services.py:281`): a flush that read the session before a logout
  completes the logout's revocation row without a central logout; the session stays
  `revocation_pending` with no row to finish it.

### Fairness

* `CameraWorker`: weak fairness of each task and of the reading thread. The event loop
  runs every task that is ready, and the calls made in threads return (reads, frame waits
  and the sink have timeouts; the factories, a native connect and the processing of a
  frame are assumed to return, as the orchestration contract document says shutdown waits
  for a native constructor).
* `OrchestrationService`: weak fairness of each task, of the job's timer and of a worker
  that is STARTING or STOPPING, which is what `CameraWorker` shows with
  `StartAndStopReturn`. Nobody is obliged to call, edit, fail or cancel. The camera locks
  wake waiters in order, as `asyncio.Lock` does.
* `FramePipeline`: the threads finish the frame they are in, the loop runs the
  submissions, the callbacks end, and the close task goes on. Nobody is obliged to begin a
  frame or to call `close`.
* `PersonFiles`: weak fairness of the cleanup worker's passes, since its task loops as long as
  the backend runs. It is never owed a connection: a pass that is about to begin while the pool
  is full waits, which is why `CleanupCompletes` carries the hypothesis above. Handlers need
  not go on either, and a crash can end them.

Nothing in the desktop backend schedules `flush_once`, so no liveness is claimed for
synchronisation. `CentralSession` states no fairness either: whether a pending revocation
is processed depends on the connection pool. A handler keeps its connection while its pass
takes a second one, so as many such handlers as the pool has connections wait for each
other. The instance has three connections for two requests.

## Proofs

The theorems hold for every value of the constants that satisfies the module's assumption.
Those assumptions say that bounds are natural numbers, that limits such as a batch size or
a number of attempts are positive, and that the markers for "nobody" are not names: `KeysAssumption` and
`BoundsAssumption` of `SyncQueue`, `SyncAssumption` of `DesktopSync`, `SessionAssumption` of `CentralSession`,
`AuthBoundsAssumption`, `WorkerAssumption`, `FilesAssumption`, `AdminAssumption` (which adds
that the initial administrators are different accounts), `PipelineAssumption` (which
adds that there are finitely many threads, since their number is counted), `ManagerAssumption`
(which adds that there are finitely many cameras, since the number of those with a worker is
compared with the capacity) and `ConfigAssumption` of `Analyzers`
(`ValidConfig` is what `CVConfig.__post_init__` accepts). The bounds
`Max...` are arbitrary, so no theorem depends on how many requests, flushes, cameras or
events there are.

`SyncAssumption` adds that there are finitely many cameras, whose
ids are no record's, that an edit changes columns of a camera, and that the bound on rows
has room for the rows that registered the licence's cameras: `Init` takes any set of cameras
within the limit as registered earlier, by rows that were purged since but whose numbers are used.
Nothing limits how many of them there are beyond the licence.

Every proof has the same form: an inductive invariant in named parts, one lemma per action
(or per group of actions that leave the same things alone), and a theorem per property.
The invariants were checked with TLC on the runs' instances before they were proved, but for
parts that only give types TLC cannot enumerate (`FlushTypeOK` of `DesktopSyncProofs`).

### Durable queue (`SyncQueueProofs`)

* `TypeCorrect`, `LeaseSafety` (`LiveLeaseOwnsRow`): an unsettled claim whose lease has not
  run out still owns its row; `MutualExclusion` (`ExclusiveLease`): two different unsettled
  claims on one row are never both unexpired;
* `VersionsStayInOrder`, `ReferencesAlwaysResolve`, `CamerasAreNotWedged`,
  `WorkIsImmutable`: what the run checks of versions, references and leased work.

For leases the invariant is `TypeOK /\ LiveLeaseOwnsRow`. The lease part needs the type part
because a claim is safe from a new one only if the new token is fresh. Enqueueing, cancelling
and purging touch no inflight row whose token is unexpired; a claim takes only waiting rows
and rows whose token is in `expired`; settling needs the token.

The order of versions needs more, because purging detaches a row from its predecessor and
a claim looks only at the predecessor. `Ordered` says of a table that references go back to
stored rows of the same key (`RefersBack`), that a row's predecessor is the version just
before it and a row without one has only finished versions before it (`FollowsLatest`),
that only attempted rows are leased, done or dead (`TriedFirst`), and that the versions
before an attempted or a finished row are finished (`TriedInOrder`, `FinishedInOrder`), but
for the last row of a camera that was dropped: `CameraRepository.delete` cancels the latest
row whatever is before it. That exception is harmless because such a key is closed, and the
row is never the predecessor of another. `RecordOnce` keeps records out of this. The longest
case is purging: the rows cancelled by the chain below a dead letter are all the later rows
of its key (`LaterAreDescendants`), so what remains is still in order.

### Edge synchronisation (`DesktopSyncProofs`)

* `TypeCorrect`, `RecordsFollow` (`RecordsFollowCamera`), `SyncedIsStored`
  (`SyncedRecordIsStored`), `SettlesSent` (`SettlesWhatItSent`);
* `Implements`: `Spec => ImplementsSyncQueue`. The unsettled claims `held` of `SyncQueue` are
  the items left in the flushes' batches (`Held`), and the keys `closed` to further work are
  those of deleted cameras and of records already added (`Closed`);
* `QueueStaysSound`: what `SyncQueueProofs` shows of the queue holds of the queue as the flushes
  drive it. The proofs of the queue are instantiated with the mapping, and `QueueAssumptions`
  shows that the queue's assumptions follow from `SyncAssumption`;
* `MutationsInOrder` (`AppliedInOrder`): a flush that owns its row does not apply it after a later
  version of the same camera.

The invariant follows a fact from the central backend to the local tables. A row that succeeded,
or a batch whose request was answered with success, did its work: the camera was created
(`SucceededIsCreated`, `OkMeansDone`) or the record is stored. So cameras the desktop takes for
known were created (`KnownIsCreated`), and `RecordsWait` says that a record's row refers to a
row of its camera, unless the camera was created or the record's row is cancelled, and was
sent only if the camera was created. The step that needs this form is purging, which removes
rows records wait for: behind one that succeeded the camera was created, and behind a dead
letter or a cancelled row the record is cancelled with it. `BatchesKnow` says what a batch knows about rows it may no longer own:
their ids were issued, and while the claim's token is still in the row, the row's work is the
batch's. `BatchesDiffer` says that two batches never have the same token.

In the refinement a flush's claim and settlements are the queue's (`Claim`, `Succeed`, `GiveUp`,
`Purge`), a crash is `Abandon`, a settlement whose row was lost only gives its claim up, and the
requests leave the queue alone. Deleting a camera is `DropCamera` or `DeleteCamera`, both
of which close its key; adding a record closes the record's.

The order of mutations is not inductive with `IInv` alone. `SentPast` says
that the stored rows of the same key before a row of a batch are finished, and `AppliedPast`
the same of the last row that was applied to a camera. A claim establishes `SentPast` because
`VersionsInOrder` holds in the state after it, which the refinement gives. A flush that owns
its row holds an unfinished one, so by `AppliedPast` nothing after it was applied.

### Desktop session (`DesktopProofs`, first part)

* `ActiveSessionIsSpared` (`LogoutsSpareActive`), `LogoutStaysFinal` (`LogoutIsFinal`),
  `SettlingKeepsActive` (`SettlingKeepsActiveSession`), and `TypeCorrect` for the session,
  its calls and the flush (`AuthTypeOK`; the types of the queue's rows are `SyncQueueProofs`').

The argument does not use the queue: an item decides whether a flush calls the central
logout, but the session it names there is the one of the record it read. `MutationKnows` says
that the session a login is about to save is nobody's yet, and that a logout names the
active session until it has begun and a logged out one from then on; `FlushKnows` that a
flush calls only for a record in `revocation_pending`; `SessionsIssued` that such a record
was logged out. So only a session whose logout has begun, or that a failed login gives
back, is ever revoked by a logout call. What the central backend ends by itself is left free:
`CentralMoves`, which says that a live session may become an ended one and no other changes,
is all the proof knows of a refresh or of a login elsewhere.

### Worker manager and orchestration service (`DesktopProofs`, second part)

* `ServiceTypeCorrect`, `NoWorkerIsLost` (`LiveIsOwned`), `StatusesAreCurrent`
  (`StatusIsCurrent`), `ShutdownIsFinal` (`ShutdownLeavesNothing`);
* `CapacityNeverExceeded`: no more workers are registered than `max_active_workers`;
* `ReturnsAreClean`: behind a `stop()` that has returned, and behind a `start()` that has
  rolled back, no worker is registered or alive;
* `RegistrySafety`: a step takes a worker out of the registry only when it is over, and adds
  one only while admission is open, which it never is again once it was closed.

Tasks call the manager for a camera each, reconciliation and shutdown for many at once, and a
cancellation takes all of a task's calls back. What makes this tractable is that the invariant
is about one camera at a time: `LineOK` says of one camera's lock, its line and the tasks'
operations on it that a task stands in the line exactly as long as its operation lasts, at
most once, and that only the first has got past the lock, where it knows the registered
worker; `WorkersOK` says that every other place for a worker is empty and that the status is
the registered worker's. The lemmas `LineJoins`, `LineLeft`, `LineGoesOn` and `LineQuits` are
about one line only; each operation of the manager is one of them for its camera, and a
gather, or its cancellation, is one of them for each camera. `NoWorkerIsLost` follows from
`WorkersOK`: the case that needs the lock is a failed or cancelled start, whose worker stays
registered until it is over.

`ShutdownKnows` says that the shutdown closed admission first and, once it has listed the
workers, has an operation in progress on every camera that still has one, so it cannot end
before the last one is gone; an operation that was already past its own check of admission
holds the camera's lock, and the shutdown stands behind it. `ReconcileKnows` says that a
reconciliation belongs to the start task or to the job, which exists only after it, and that
its operations end with it. The capacity is counted over all cameras and is a part of the
invariant of its own (`CapacityHeld`).

### Camera worker and capture (`CameraWorkerProofs`)

* `TypeCorrect`, `CapturesAreOwned` (`NativesOwned`), `EventsAreInOrder` (`EventsInOrder`),
  `TerminalIsReleased` (`TerminalMeansReleased`);
* `WorkerFollowsLife`: `Spec => FollowsLife`, the worker refines `WorkerLife`, on which the
  manager's model relies.

The invariant ties each task's position to the supervisor's. `BeforeRun`, `InRun`,
`Unwinding` and `Over` say for each point of `_run` what exists, what is open and which
state is published; `CaptureKnown` what `read()` holds at each of its points, and that
`close()` has left no handle behind; `EventsKnown` that the sentinel is put into the queue
only when the callbacks have ended. The step that needs most of them is the last one of `_run`: a
terminal state is published with both queues empty because the dispatcher ends on the
sentinel, the sentinel is last, and nobody appends after it.

### Frame pipeline (`FramePipelineProofs`)

* `TypeCorrect`, `BacklogIsBounded` (`BacklogBounded`), `ClosedStaysDrained`
  (`ClosedIsDrained`), `ErrorsAreNotLost` (`NoErrorLost`);
* `SettledMeansNoSubmission`: the check of the close task that no submission is left never
  fails.

The counters are the problem: a submission is counted and released by different threads
under different locks. `HeldByOne` says that `_process_lock` admits one thread; then
`Counted` makes each counter equal to the number of threads at the points it counts, and
`Bounded` says that whatever lives on the loop is remembered or about to be (`Coming`), with
room for the one reserved. `Draining` is the order in which a shutdown empties the pipeline,
for both ways of closing. `ErrorsKept` says where the error of a failed callback is.

### Analyzers (`FramePipelineProofs`, second part)

* `AnalyzersTypeCorrect`, `ZoneEventsInOrder` (`ZoneEventsAlternate`), `CrossingsInOrder`
  (`CrossingsAlternate`), `CooldownIsKept` (`CooldownHolds`).

The run has one track, `max_age` 1 and `min_hits` 3. The theorems have any number of tracks
and any configuration, and so say that a memory of `LongestGap` frames,
`max(1, min_hits - 1) * (max_age + 1) - 1`, is enough in general. A property that only names
that number is not inductive: the proof needs to know how much of the gap is used up.
`Gap` says it: a confirmed track has missed at most `time_since_update` frames, and one that was
reported in the first frames and has `hits` matches so far has missed at most
`(hits - 1) * (max_age + 1) + time_since_update`. A frame in which a track is not reported
raises its `Gap` by at least one (`GapGrows`), since an update without a report means that the
track is not confirmed; and `Gap` never exceeds `LongestGap` (`GapIsBounded`). In `ZonesOK` and
`CounterOK` the age of a live track in an analyzer's memory is at most its gap, so a memory
of at least `LongestGap` frames never forgets a live track, and `ZonesRemembered` and
`SidesRemembered` say that what is remembered is what was announced last. `AlertsRemembered`
says that the detector's entry is the time since the last alert, of tracks that were reported
in every frame since. Tracks that have had a degenerate box are left out of the first two
(`history.hid`), as they are in the properties.

### Central sessions (`CentralSessionProofs`)

* `TypeCorrect`; `SingleSession` (`AcceptedInLoginOrder`): requests are accepted in the
  order of their logins; `RefreshTokensAreSingleUse` (`RefreshOnce`); `RevocationsSurvive`
  (`NoRevocationLost`).

None of these is inductive alone. `IInv` adds:

* `LiveIsLatest`: at most one row is live, and no session newer than it was accepted
  before. An accepted request has a live row, so it cannot be older than the one accepted
  before it, however old the key it read.
* `CurrentTokenUnused`: nothing was exchanged for the token in the refresh key, so a
  rotation, which compares with the key, exchanges a token that is still unused. When both
  keys exist they name the same session.
* `PassKnowsRow`: a pass only works on rows of the outbox, and reconciles only for
  reconcile rows.
* `RevocationWaits`: while a key names an ended session there is a pending row that covers
  it and that no pass has already dealt with. `NoRevocationLost` is too weak to be
  inductive: two passes may be about to mark two different rows, and the second mark would
  leave none.
* `RequestsKnowSession`: a login under way holds the user's row and has no session row yet,
  and a request that goes on after its check has one. The case that matters is a session
  that is put into Redis after its end: `ended` only holds sessions that had a row, and a
  login writes its keys before its row exists, with the user's row locked.

### Central accounts (`CentralAdminProofs`)

* `TypeCorrect`, `ChecksAreCurrent`: what a transaction checked is still so when it commits;
* `LastAdminIsKept` (`LastAdminStays`), `AdminsAreKeptBelow` (`AdminsStayBelow`).

`CheckHolds`, which `ChecksAreCurrent` states, is what the locks are for. It is inductive
with `LocksHeld` (who holds which lock, and that the role read under a row lock is the
account's present one), `TargetsExist` and `LicencesOwned` (the licence a transaction changes
belongs to its target, whose row it has locked, and two requests do not issue the same
licence). Any operation that could reduce the operational super administrators holds the
advisory lock from before its check to its commit, so no other one commits in between; the
others only add to them.

### Persons and images (`PersonFilesProofs`)

* `TypeCorrect`, `FacesAreStored` (`FaceIsStored`), `ImagesDoNotLeak` (`NothingLeaks`);
* `MarkedMeansRemoved`: a row of the outbox is marked only when its object is gone,
  however many passes work on the same rows.

`NamesAreFresh` says that an object name is drawn once and is one person's;
`HandlersKnow` and `ObjectsOwned` what a handler holds at each point: a fresh object is
stored and known to nobody else, an old one that `update_face` read is no other person's.
`OutboxDead` says that an object in the outbox is nobody's face, so a cleanup can run at any
time, and at any speed. `SweepsOwn` says that a request makes a pass only after its commit.

### Only model-checked

* Liveness under fairness, for which the proof system has no rules: `StartAndStopReturn` and
  `FailureTerminates` of the worker, `StopCompletes`, `RequestsReturn` and `Converges` of the
  service, `AcloseEnds` of the pipeline, `CleanupCompletes` of the central cleanup.

Every invariant and action property of the passing runs is stated by a theorem.

## Plan

1. Done: queue, edge sync with the central handlers, desktop session, camera worker with
   the stream capture, manager and service, central session service, frame pipeline,
   analyzers, central accounts, persons and cleanup; the proofs above.
2. Next: the WebSocket connection manager; a liveness run of the session outbox with a pool that
   can run out; start and close order of the desktop container.

## Not modelled

In `CentralSession`: the contents of tokens and passwords, the expiry of a session row by
itself (its licence's end is the same instant), licences that start later or are extended
after their end, and other users, who share with this one only the pool and the
outbox's order. Sessions are numbered in the order in which logins lock the user's row.

In `CentralAdmin`: names, passwords and the feature lists of permissions; of `update_user` only the role
matters. PostgreSQL's own detection of lock cycles is left out: a transaction it aborts has changed
nothing.

In `Streaming` and `CameraWorker`: several threads in `read()` at once, which no caller in
the repository does; a sink that raises `CancelledError` by itself or whose timeout fires
while its database write goes on; how long a native call under the capture's lock can hold up the event
loop that calls `close()`.

In `OrchestrationService`: generation numbers and the eviction of old camera statuses
(`manager.py:357`).

In `DesktopSync`: the heartbeat, which only appends, and the WebSocket messages the
central handlers send.

In `PersonFiles`: `update_person`, which changes columns of one row.

Not at all: detection and face recognition (numerical inference by external libraries),
the desktop database and container (transactions are atomic steps of the other modules,
start-up is one sequence), the HTTP routers of the desktop (adapters that read only the session), the file server (stateless handlers around object storage), the
process runner, the frontends, the WebSocket connection manager, SQL paging and search,
and encryption of stored fields. Hazards of these parts that bite the modelled ones are
listed in `PROJECT.json` with a note.
