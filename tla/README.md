# Verification of the KV260 central scheduler

A Central Server (`server/app`) lends KV260 FPGA boards to students. A student uploads
an artifact (a bitstream and its description) and posts predict requests; Central gives
him a board, loads the overlay, runs his requests in order and takes the board back when
it has been idle. On each board a small Worker process (`worker/app`) drives the FPGA.
The hard part is Central: one asyncio process with a SQLite database that agrees with a
set of boards over an unreliable network, and that may be restarted at any time.

There are three models. *Central* has the lease manager, the scheduler, the registry and
the boards as Central meets them. *Worker* opens up one board: the Worker process with
its lock, its threads and the FPGA. *Storage* opens up what Central takes for granted of
artifacts: uploads, credentials and cleanup. Two small specifications join them:
`LeasedBoard` is what a board promises Central, `ArtifactUse` how Central uses artifacts.

## 1. Inventory

| Component | State | Operations | Correct when |
|---|---|---|---|
| Lease manager, `lease_manager.py` | `student_leases`, `predict_requests`, `student_locks`, `allocator_event` | `submit_predict`, `_drain_locked`, `_deploy`, the allocator, the reaper, `release_worker`, `recover_requests` | leases and boards agree, a request runs once and in order, waiting ends |
| Scheduler, `scheduler.py` | `allocation_lock` | `reserve_lease`, `oldest_queued_student` | a board goes to the head of the queue and to nobody else |
| Worker registry, `worker_registry.py` | `workers`, `failures` | `sync_config`, `recover`, `monitor`, `_check_worker`, `_mark_offline` | rows follow what the boards report and never undo newer changes |
| Lifespan, `main.py` | startup order | `lifespan` | nothing serves before recovery is finished |
| Worker process, `worker/app/state.py`, `main.py` | lease, artifact, `fpga_ready`, `lock`, files | `deploy`, `predict`, `release`, `status` | a board executes only for the lease that holds it, `/status` is never half a deployment |
| Worker client, `worker_client.py` | connections | the calls to a Worker | an answer counts only when confirmed |
| FPGA backend, `fpga.py` | overlay, DMA, two CMA buffers | `load_overlay`, `predict`, `release` | no buffer leaks, ready means loaded |
| Artifact store, `artifact_store.py` | `artifacts`, files | `create` | versions are unique, a READY row has its files |
| Artifact cleanup, `artifact_cleanup.py` | `cleanup_lock` | `preview`, `execute`, `delete_artifact` | nothing in use is deleted, cleanup ends |
| Student authentication, `student_auth.py` | credentials | first upload, password change | one owner per student id |
| Administrator authentication, audit, API, dashboard, schema migration, provisioning scripts | – | – | – |

How they interact. The API handlers call the lease manager, which takes the student's
lock and works through the scheduler and the worker client. Three background tasks (the
allocator, the reaper, the health monitor) share the same tables; the first two also the
locks, the monitor takes none. No transaction is open across a network call, so every
answer is applied to rows that may have changed: each place re-reads and decides. The
Worker's own lock orders the calls that reach a board, including those whose caller has
timed out or died. An upload takes no student's lock; cleanup takes the lock of each
artifact's student in turn, one cleanup at a time.

What is hard: answers that come late, the reaper queueing leases without their lock, the
monitor against everything else, a crash between two transactions, calls still under way
after it, and wake-ups of the allocator. On a board it is loads, predictions and releases
that fail halfway, in a thread, while `/status` looks at the process without its lock. In
storage it is rows and directories that no transaction joins. `PROJECT.json` lists the
hazards line by line.

## 2. Modules

| Module | What it is |
|---|---|
| `CentralState` | constants, variables, types, `Init`; the tables, the tasks, the boards |
| `LeaseManager` | `lease_manager.py` and `scheduler.py`: an action per transaction |
| `WorkerRegistry` | the checks of boards, in recovery and by the monitor |
| `WorkerBoard` | a board serving calls in one step each, timeouts, late calls, restarts |
| `Central` | uploads, crash, startup, `Next`, `Spec`, `Fairness` |
| `CentralProperties` | its properties, and the refinement mappings to the abstract modules |
| `CentralInvariant`, `CentralProofs` | who owns a board: the inductive invariant and its proof |
| `CentralSteps` | what each step does, row by row: the vocabulary of the proofs that follow |
| `CoordinationInvariant`, `CoordinationProofs` | coroutines, leases, requests and board rows: invariant and proofs |
| `OverlayInvariant`, `OverlayProofs` | which artifact is loaded and whether it is ready: invariant and proofs |
| `AllocatorInvariant`, `AllocatorProofs` | the queue, the allocator and its event: invariant and proofs |
| `RefinementProofs` | that Central implements the four abstract modules |
| `FpgaBackend` | `fpga.py`: bitstream, references, CMA buffers and what freeing them may do |
| `WorkerRuntime` | `state.py` and the handlers of `main.py`: lock, threads, answers, restarts |
| `WorkerProperties`, `WorkerInvariant`, `WorkerProofs` | its properties, invariant and proofs |
| `StorageState` | credentials, `artifacts`, directories, who uses what, the event loop |
| `StudentAuth`, `ArtifactStore`, `ArtifactCleanup` | the three services, step by step |
| `ArtifactStorage` | the three composed with the use of artifacts, locks and crashes |
| `StorageProperties`, `StorageInvariant`, `StorageProofs` | its properties, invariant and proofs |
| `BoardPool`, `RequestService`, `LeasedBoard`, `ArtifactUse` | the abstract promises: boards as a pool, requests as a service, a board that belongs to one lease, the use of artifacts |
| `MCCentral`, `MCWorker`, `MCStorage` | the instances TLC checks |

### Central

State. `lease`, `worker` and `request` are the three tables; a missing lease row is
`UNASSIGNED`, ids are numbers drawn from counters (`leases`, `artifacts`) instead of
UUIDs, 0 is NULL. `queued_at` is `ahead`: for each student, who has been waiting longer;
it is only read for students that are QUEUED. A lease's last activity is an age class
(`active`, past the reclaim grace, past the idle timeout) that `GrowIdle` moves on.
`op[s]` is the coroutine that holds `student_locks[s]`: its place in the code (`pc`), on
whose behalf it runs (`by`), the local variables it carries across its await, and the
reply it waits for. `check[b]` is a status answer on its way, `orphans` the calls nobody
waits for, `board[b]` what the Worker process holds.

Granularity. A step is one transaction or one event of the network. Central is a single
event loop, and it yields only where it really waits: at a call to a Worker, a taken
lock, an empty event, a sleep. `EventLoopFree` is therefore a guard of every step that
begins after such a wait, and the transactions between two waits follow one another
undisturbed by other tasks; a crash, though, may fall between any two of them, and
boards and clocks move at any time. `allocation_lock` is never held across such a wait
and needs no variable. An `await` of a coroutine that does not wait does not yield:
`oldest_queued_student`, `student_status` and `reserve_lease` are such.

A submission is enabled when the student's lock is free; waiting for the lock has no
effect of its own. The allocator and the reaper do wait on it (`lock`), because while
they wait they serve nobody else. `_deploy`'s first transaction follows
`_drain_locked`'s reads without a wait, so `DrainLocked` stands for both. `WorkerBoard`
serves a call in one step, which its lock justifies for everything except `/status`;
that reads only the lease and the artifact here, and both change when a deployment ends.
A bad image and an FPGA error are both "fpga" faults of `ServePredict`, the first
leaving the overlay ready.

### Worker

`lid`, `art`, `ready` are the fields `/status` reports, `queue` is the `asyncio.Lock`: its
holder and those who wait, in the order in which asyncio serves them. `call[c]` is the
request of one connection: where its handler stands, then its answer. A handler runs on
the event loop up to `run_in_executor` and after it; `load_overlay` in its thread has a
step for each thing that can fail or that `/status` could see: clearing the old runtime,
loading the bitstream, the first and the second buffer, binding. `predict` and `release`
are one step in their threads. The backend's state is the bitstream in the fabric (which
outlives the process), the overlay and DMA objects (`overlay`), the buffer references of
the object (`held`) and of `load_overlay` (`fresh`), and how many buffers the driver has
given out (`cma`); `leaked` are those whose freeing raised after their reference was
dropped. Each step may fail where the code can raise: overlays that do not meet the
hardware contract (`Unloadable`), allocation, freeing, DMA, writing the files. A transfer
may also never end, for DMA's `wait()` has no timeout.

`/status` reads without the lock and changes nothing; it is the state predicate
`StatusIsWhole` instead of an action. Malformed requests are refused before the lock.
`ImplementsLeasedBoard` shows that these steps amount to `LeasedBoard`;
`ImplementsLeasedBoards` shows the same of the one-step boards in Central. So what
Central counts on is what a Worker does, for its lease, its artifact and its readiness.

### Storage

`rows` is the table of artifacts, by an id that is drawn when the directory is moved;
`version` and `created` are numbers. `files` are the directories that are there and
complete. `upload[u]` is the handler of an upload: looking at the credential, staging the
body while others run, then moving, drawing a version and committing without a wait.
`cleanup` is the one task that holds `cleanup_lock`, executing its preview or deleting one
artifact. Requests, leases and boards appear as `bound`, `held` and `shown`: the artifacts
`_in_use_ids` finds there. How these change is `ArtifactUse`, which Central is shown to
implement (`ImplementsArtifactUse`); what Storage adds is the student's lock, without
which no request is bound and no deployment starts, and `files`, since a deployment reads
the directory first. The monitor takes no lock and may put into a board's row any
artifact the board was ever given. `damaged` is history: artifacts whose removal raised,
or was cut short by a crash, before they were marked ARCHIVED.

`OtherCentralClaims` is another Central process on the same database. The code expects
it: `authenticate_or_register` and `create` handle an `IntegrityError` that a single
process cannot meet. Only the claim of an id is modelled so.

## 3. What the runs check

Deadlock is checked in all runs but `Worker`, where a DMA transfer that hangs really
stops the process. In Central, `Environment` says what the surroundings may do,
`MaxFaults` how often something goes wrong. A lease id is drawn for each reservation, so
`MaxLeases` bounds how many times boards change hands.

| Run | Instance | What it shows |
|---|---|---|
| Contention | 2 students, 1 board, 1 request each, 2 artifacts, 3 leases, 2 faults of any kind | `TypeOK`, `Ownership`, `NoLeakedBoard`, `ReleasingHasNoWork`, `PredictsOnOwnArtifact` |
| TwoBoards | 2 students, 2 boards, 2 leases, 1 fault of any kind, no administrator (`Contention` has one) | `OwnershipInvariant`, and that Central implements `BoardPool` |
| Crashes | 1 student, 1 board, 2 requests, 2 artifacts, 2 leases, 2 faults, threshold 2, no administrator | `TransientLeaseHasTask`, `RunningIffBusy`, `CoordinationInvariant`, that Central implements `RequestService`, `ArtifactUse` and, for each board, `LeasedBoard`, and `FreeBoardRecovers` |
| Boards | 2 students, 1 board, 2 requests each, 2 artifacts, 2 leases, 2 faults, nobody restarts | `ReadyIsReal`, `RowsInStep`, `PredictsOnItsArtifact`, `OnlyMonitorStrands`, `OverlayInvariant`, `AllocatorInvariant` |
| Progress | 2 students, 1 board, 2 requests each, 2 artifacts, 4 leases, no faults, monitor quiet | `EveryRequestEnds`, `IdleBoardIsGivenOut`, `IdleLeaseIsReleased` |
| Worker | 2 callers, 2 leases, a good overlay and one that cannot be loaded, 2 failures | `BuffersAccountedFor`, `FreeBoardHoldsNothing`, `ReadyIsLoaded`, `StatusIsWhole`, `PredictsOnItsOverlay`, `EveryCallIsAnswered`, the inductive invariant, and that the Worker implements `LeasedBoard` |
| Storage | 1 student, 1 board, 2 passwords, 1 upload at a time, 3 uploads, 1 failure or crash | `DrawnVersionIsFree`, `FilesMatchRows`, `UsedArtifactIsReady`, `OneOwnerPerId`, `RemovesOnlyUnused`, `CleanupEnds`, and the inductive invariant |

Why the bounds are enough to be interesting. Two students on one board reach every form
of contention: submission against release, reclaim under pressure, a queue with two
entries. Two leases let a board be lost, given to another student and asked about by a
late call of the first; the third of Contention lets it come back to the first. Two faults allow a timeout followed by a crash, or a lost board
whose late call is served during recovery. Two requests on two artifacts make the
deployment shortcut, the order of requests and a drain of several turns matter. Students
and boards are interchangeable in the runs that use symmetry, which hold no liveness
property. In Progress, four leases are as many as four requests can need without faults;
a bound that was too small would show as a request that never ends.

In Worker, two callers are enough for one to work and one to wait, arrive or be refused;
two leases for a call of another lease; two failures for a load that fails and cannot
free what it allocated, or for a release that fails and a restart. The good overlay makes
deployments of one artifact over itself, the bad one leaves the old lease over another
bitstream. In Storage, three uploads give an archived version, a candidate for removal
and a newest artifact at once. Two uploads of one process meet only while one of them is
staging, which changes no table, so one at a time stands for them in TLC; the proofs
have any number. One student suffices because rows, credentials and locks of different
students meet only in the list of a cleanup, which goes through them one by one.

`TransientLeaseHasTask` and `RowsInStep` hold only while Central is up; recovery restores
them before the API opens. `ReadyIsReal` needs boards that do not restart and no restart
of Central: after a restart of a board a lease stays READY until the monitor comes round,
and so it must. `RowsInStep` says nothing about READY: after a failed prediction with
nothing left to run, the student is queued, is given a board, and his lease becomes READY
beside a board that stays RESERVED, until he submits again or the monitor looks. `PredictsOnItsArtifact` needs a Central that does
not restart (see LateDeploy below); `PredictsOnOwnArtifact` needs nothing.

Some properties look at one side of a hazard only. `ImplementsBoardPool` is about Central's
rows; what a late call does to a board is caught by `ReadyIsReal`, `OverlayInvariant` and
`ImplementsLeasedBoards`. A deployment that outlives a crash of Central shows in LateDeploy
alone: Boards has no crash, and in Contention a student has a single request.
`OnlyMonitorStrands` leaves the monitor out; LostWakeup shows what the monitor does.

### Fairness

`Fairness` assumes strong fairness of each task of Central, since a ready task may have
to wait again and again while another one keeps the loop, though asyncio runs ready
tasks in turn; that the startup sequence goes on; that a board answers the call it has;
and that an idle lease grows older. It assumes nothing of students, administrators, late
calls or faults. The lock of a student is handed over in FIFO order by asyncio, which
strong fairness of the waiting task stands for.

In Worker each handler is weakly fair: the event loop and its threads go on, and the lock
is served in the order of `queue`, which is part of the model. In Storage an upload that
has begun to publish goes on (weakly fair), the tasks that take a student's lock give it
back, and cleanup gets a lock for which it waits although others keep taking it, since
asyncio hands a lock to the longest waiter: both strongly fair. Nothing is assumed of
callers, boards, students and administrators.

### What does not hold

Five runs expect a violation; each is a place where the documentation promises more than
the code keeps.

- **LostWakeup**: the monitor sets a board IDLE (`worker_registry.py:202`) without setting
  `allocator_event`. A student who is queued and whom the allocator has already looked
  at is left waiting beside the idle board until something else wakes it. Framework
  guide, section 17: a board that becomes IDLE goes to the oldest queued student. This is
  why Progress keeps the monitor quiet. `OnlyMonitorStrands` shows that no other wake-up is
  lost: whenever a student comes to wait so, it is a check of a board that freed it.
- **RestartStrands**: recovery finds a lease confirmed by its board and makes it READY
  (`worker_registry.py:186`); its QUEUED requests are drained by nobody: the allocator
  looks at QUEUED leases only and the reaper refuses to release a lease with work. The
  usage guide (line 214) says that the student need not post again.
- **StaleStatus**: the monitor reads `/status`, a deployment is started and finished, and
  the old answer is compared with the new READY lease (`worker_registry.py:181`), which
  becomes LOST although nothing has failed. Framework guide, section 18: accept or
  discard a stale network result.
- **StaleIdle**: the reaper reads all idle times once and then awaits one release after
  another (`lease_manager.py:689`). A student who has just had a request served loses
  his board. Framework guide, 6.4: READY but idle for less than the grace is kept.
- **LateDeploy**: Central crashes while a deployment is on its way to a board, and the
  lease, recovered as READY, keeps its id. If the call arrives after a newer deployment of
  this lease, the Worker accepts it (`state.py:86` compares the lease only), and a request
  bound to the newer artifact is predicted on the older one and completed. Framework
  guide, 10.4 and 10.5: a request fixes its artifact, and another one is deployed first.
  It takes a call delayed over a restart of Central, as a resent TCP segment may be;
  without a crash it is proved impossible, because every call that Central gives up also
  costs the lease its id. The artifact is always the student's own, crash or not.

Three weaknesses are part of what the passing properties say, as exceptions they name.

- A release whose buffer cannot be freed (`fpga.py:113`) raises before `state.py` resets
  the lease: the board says it is ready over a cleared runtime, until a prediction fails
  (`ReadyIsLoaded`).
- When files are removed and ARCHIVED is not committed, the artifact stays READY without
  files, and once the newer ones are deleted new requests are bound to it, which no board
  can ever be given (`UsedArtifactIsReady`, `damaged`).
- A transfer that hangs keeps the Worker's lock until the process is restarted
  (`EveryCallIsAnswered`).

The framework guide (9.1) says that the first *successful* upload registers a student's
credential; `api/artifacts.py:48` registers before it looks at the files, so the sender
of a refused upload owns the id. The model follows the code (`Claim`, then `SaveFails`).

## 4. What is proved

All safety properties and refinements of the passing runs are proved, for every value of
the constants, from the assumptions that the modules name (`None` is nothing else, bounds
are natural numbers). Each model has an inductive invariant, which a run checks as well.

### Central

The proofs hold for every set of students and boards and every value of the bounds, the
threshold and the environment. Where a theorem restricts `Environment` this is stated as
its hypothesis. Central's invariant comes in four layers; each relies on those before it.

**`OwnershipInvariant`** (`CentralProofs`: `InvariantHolds`, `TypeCorrect`,
`OwnershipHolds`). `Ownership` is not inductive. That two leases in use never
name one board follows from ids being unique: both leases would have to carry the id in
the board's row. That ids are unique needs `LidsAreDrawn`: no row, no call under way, no
status answer and no board knows an id that has not been drawn, since `ApplyStatus`
writes into a row what a board reports. That a coroutine which writes both rows keeps
them in agreement needs `CoroutineHoldsLease`: while it drains, its lease is in use. And
that startup disturbs nobody needs `OnlyUpHasTasks`.

The argument: most steps only take away. `KeepsRow` and `DropsRow` say what may happen to
a lease, `KeepsBoard` to a board's row, and the lemmas `StudentStep`, `LoopFreeStep`,
`QuietStep` and `ReplyStep` conclude the invariant from them, once for the steps of a
coroutine, of a task that finds the loop free, of those that leave the tables alone and
of the network. Each action then has its lemma that shows which kind it is; only
`ReserveLease` makes a new owner, and there the fresh id does the work.

**`CoordinationInvariant`** (`CoordinationProofs`: `CoordinationHolds`, and from it
`TransientLeasesHaveTasks`, `RunsExactlyWhileBusy`, `ReleasesOnlyTheIdle`,
`RowsStayInStep`, `NoBoardLeaks`). The five properties need each other: that a RUNNING
request belongs to a BUSY lease needs the coroutine's place (`LeaseFitsCoroutine`), that
needs the board's row (`RowsFit`), and the monitor, which finds a lease by the id in a
board's row, must not find the lease of another board: `LidsNameOneBoard` says of every
place an id may turn up in, late calls and old answers included, that it is about one
board. `RecoverySettles` says what of this the lifespan has restored and when.

`CentralSteps` first turns actions into outcomes: a step of a student's coroutine has one
of seventeen (`Deploys`, `PredictLost`, ...), each a few equations about his lease, his
requests and one board; the network, the tasks and the lifespan have theirs. `StepKinds`
says that every step is one of them. All later proofs go through outcomes and not through
actions, with one lemma for each outcome that can disturb a conjunct.

**`OverlayInvariant`** (`OverlayProofs`: `OverlayHolds`) is about what
the boards have loaded. Its parts hold under different conditions.

- Always (`ArtifactsStayOwn`): whatever a board holds or a late call carries under an id
  of a student has an artifact that one of his requests is bound to. Hence
  `PredictionsUseOwnArtifacts`.
- If Central does not restart (`OverlaysFollowRows`): a late call is of a lease that has
  already been given up (`OrphansAreStale`), so a board that still holds a lease holds the
  artifact of its row. Hence `PredictionsUseTheirArtifacts`. LateDeploy shows that it is
  false with `"crash"` in the environment.
- If no board restarts either (`ReadyLeasesAreReal`): the overlay is ready, too. A board
  that restarts loses its lease before Central can know.

**`AllocatorInvariant`** (`AllocatorProofs`: `QueueAndAllocatorAgree`, and from it
`NoOtherWakeupIsLost`, `NobodyIsStranded`) is about waiting. The allocator clears its event
before it looks, picks the head of the queue, waits for that student's lock and sleeps
again when it could not serve him. The danger is in the wait: when the lock is free, he
may have been served by his own submission, have lost the board and be last in the queue,
and another student is the one to look at. So the invariant says, for each place where the
allocator may stand, that either the event is set (it will come round again) or the
student it has in hand is still the oldest (`AllocatorKnowsQueue`, `LockedOutKnowsQueue`);
the one exception is a submission of his own that is about to look. This needs the queue
to be an order (`QueueIsOrdered`), and that a submission which looks for a board still has
its own request waiting (`LooksForSomebody`): only then does `submit_predict` set the event
when it returns without a board.

The theorems: every step that makes a board available, or puts a student on the queue,
either sets the event or is followed by a look, except for a check of a board by the
monitor; and with no monitor in the environment nobody is ever left waiting beside an
available board with everybody asleep, whatever crashes, timeouts and restarts happen.
Here the set of students is assumed finite, which the table is: among infinitely many a
queue need not have a head (`QueueHasHead`). A board counts as available while a lease id
is left to draw (`MaxLeases`); beyond this bound the model reserves nothing, which says
nothing of the code.

**Refinements** (`RefinementProofs`), from the invariants before a step and `StepKinds`.
`BoardsAreLeasedBoards`: a call that is served does to the board what `LeasedBoard`
allows; together with `WorkerImplementsLeasedBoard` this closes the gap between Central's
boards and the Worker process. `CentralImplementsService`: a request starts only when all
before it have ended (`RequestsInOrder`), and no answer or restart touches one that has
ended. `CentralImplementsPool`: the owner of a board, a `CHOOSE` in the mapping, is unique
by `OwnershipInvariant`, and only `ReserveLease` makes one. `CentralImplementsUse`: the
artifact of a deployment is that of an unfinished request, and all other steps only let go
of artifacts. `StorageProofs` takes these steps as its environment.

### Worker

`WorkerProofs` proves, for any callers, leases, artifacts and number of failures,

- `RuntimeInvariantHolds`: `Spec => []RuntimeInvariant`, and from it
- `WorkerTypeCorrect`, `BuffersHold`, `FreeBoardIsEmpty`, `ReadyBoardIsLoaded`,
  `StatusHolds`: the invariants of the Worker run;
- `PredictionsRunOnTheirOverlay`: the action property `PredictsOnItsOverlay`;
- `WorkerImplementsLeasedBoard`: `Spec => LeasedBoard!BoardSpec`, step by step.

The properties speak of the moments when no handler is at work, and say nothing of the
steps in between: that is why they are not inductive. `StageFacts` says what a handler has
made of the backend at each of its stages, `StageHoldsLock` that there is one such handler
only, `FreshIsLoading` that buffers outside the object belong to a load, `ReadyOrCleared`
and `FreeIsCleared` what is left between handlers. `AnswerStep` and `GoToStep` conclude
the invariant for the steps that end a handler and those that lead it on; each action
then shows the facts of its next stage. The buffers are counted with the library's
theorems on finite sets.

### Storage

`StorageProofs` proves, for any students, boards, passwords, number of uploads at a time
and bounds,

- `StorageInvariantHolds`: `Spec => []StorageInvariant`, and from it
- `StorageTypeCorrect`, `FilesAndRowsAgree`, `UsedArtifactsAreReady`, `VersionsAreFree`:
  the invariants of the Storage run;
- `OneOwner` and `OnlyUnusedAreRemoved`: the action properties.

`FilesMatchRows` and `UsedArtifactIsReady` need each other and more: `OneTaskRuns`, that
no second task can be between two waits, so that what was read still holds; `UploadFacts`,
that the id about to be published has files and no row; `CleanupFacts`, that the artifact
whose files are gone is READY and unused until it is ARCHIVED; `RowsAreDrawn`, that rows
belong to students and a version is no greater than its id. `UploadStep`, `UseStep`,
`CleanupStep` and `RemovalStep` treat the steps that touch one part of the state only. A
crash can leave one more directory without a row because only one upload publishes.
`GreatestElement` gives the maxima that `_next_version` and the choice of the newest
artifact rely on: the library's well-founded induction stands behind it.

### Only model-checked

Liveness, which the prover does not treat under fairness: `EveryRequestEnds`,
`IdleBoardIsGivenOut`, `IdleLeaseIsReleased`, `FreeBoardRecovers`, `EveryCallIsAnswered`,
`CleanupEnds`; and that nothing deadlocks. The properties of the runs that expect a
violation are false and have no proof; `PredictsOnItsArtifact` is proved under the
hypothesis that LateDeploy drops. No module of the project uses RECURSIVE.

## 5. Not modelled

- The orderly shutdown, which cancels tasks: a crash stands for the end of Central.
- Changes to `workers.json` between two starts (a new `base_url`, removed boards), hence
  the `base_url` comparisons. They would need rows that come and go, and every statement
  about boards with them.
- What is refused at once and changes nothing: malformed requests, wrong passwords, files
  that are too large or do not match, administrators without the token.
- Contents: bitstreams, images, hashes, manifests, the hardware contract. An overlay can
  be loaded or cannot, an image is accepted or refused, a password matches or does not.
- Staging directories left by a crash, on Central and on the boards; they are never read.
- Requests whose artifact is gone (`lease_manager.py:297`) in Central's model: Storage
  shows when that happens, a failed deployment is what follows from it.
- `fpga_ready` in the workers table, which no decision reads.
- Audit (written, never read by the scheduler), read-only lists, the legacy sessions
  table, schema migration, the dashboard, the scripts that provision boards and the mock
  Workers for manual tests.

## 6. Plan

1. Configuration changes between two starts (`base_url`, removed boards) in
   `WorkerRegistry`, and what the invariants need for rows that come and go.
2. The same safety half of liveness for the reaper: that a lease which is idle for long
   enough is in the list it works through, or will be in the next one.
3. The orderly shutdown: which of the crash's states it can leave behind.
