---------------------------- MODULE CentralState ----------------------------
(***************************************************************************)
(* The state that the parts of the Central Server share, and the boards it *)
(* talks to: the SQLite tables (student leases, workers, predict requests, *)
(* artifacts), the asyncio tasks of the one Central process, and what each *)
(* KV260 board really holds.                                               *)
(*                                                                         *)
(* One step is one database transaction, or one answer of the network.     *)
(* The tasks of Central interleave only where the code awaits the network  *)
(* or a lock that is taken, see EventLoopFree; a crash may fall between    *)
(* any two transactions.                                                   *)
(***************************************************************************)
EXTENDS Naturals, FiniteSets

CONSTANTS
  Students,         \* student ids
  Boards,           \* the boards of workers.json
  None,             \* NULL
  MaxRequests,      \* bound: predict requests each student submits
  MaxArtifacts,     \* bound: artifacts uploaded altogether
  MaxLeases,        \* bound: lease ids drawn altogether
  MaxFaults,        \* bound: things that go wrong
  Threshold,        \* HEALTH_FAILURE_THRESHOLD
  Environment       \* what this instance lets the surroundings do

ASSUME NoneAssumption == None \notin Boards \cup Students
ASSUME BoundsAssumption ==
  /\ MaxRequests \in Nat /\ MaxArtifacts \in Nat
  /\ MaxLeases \in Nat /\ MaxFaults \in Nat
  /\ Threshold \in Nat
\* "monitor" and "admin" let a part of the system act; the others are faults.
ASSUME EnvironmentAssumption ==
  Environment \subseteq {"monitor", "admin", "timeout", "crash",
                         "board restart", "fpga", "health"}

VARIABLES
  \* ---- the database
  lease,        \* student_leases, by student; a missing row is UNASSIGNED
  ahead,        \* queued_at: whose QUEUED lease has been waiting longer
  worker,       \* workers, by board
  request,      \* predict_requests, by student and in order of created_at
  latest,       \* the id of each student's latest READY artifact
  artifacts,    \* how many artifact ids have been drawn
  leases,       \* how many lease ids have been drawn
  \* ---- the Central process
  central,      \* "down", "recovering" (lifespan startup) or "up"
  unchecked,    \* the boards registry.recover() has still to reconcile
  op,           \* what the holder of student_locks[s] is doing
  event,        \* allocator_event
  allocator,    \* the allocator task
  reaper,       \* the reaper task
  check,        \* a /status answer that is on its way to _check_worker
  failures,     \* WorkerRegistry.failures
  \* ---- the boards and the network
  board,        \* what each worker process really holds
  orphans,      \* calls nobody waits for any more and that may still arrive
  faults        \* how many things have gone wrong

database == <<lease, ahead, worker, request, latest, artifacts, leases>>
tasks    == <<central, unchecked, op, event, allocator, reaper, check, failures>>
world    == <<board, orphans, faults>>
vars     == <<database, tasks, world>>

-----------------------------------------------------------------------------
NoLease    == 0
NoArtifact == 0
NoRequest  == 0
Requests   == 1 .. MaxRequests

LeaseStates   == {"UNASSIGNED", "QUEUED", "RESERVED", "DEPLOYING", "READY",
                  "BUSY", "RELEASING", "ERROR", "LOST"}
ActiveStates  == {"RESERVED", "DEPLOYING", "READY", "BUSY", "RELEASING"}
WorkerStates  == {"IDLE", "RESERVED", "DEPLOYING", "READY", "BUSY", "ERROR", "OFFLINE"}
RequestStates == {"NONE", "QUEUED", "RUNNING", "COMPLETED", "FAILED"}
\* How long ago last_activity_at is: below the reclaim grace, below the idle timeout, above.
IdleTimes     == {"active", "grace", "timeout"}

Lease   == [state: LeaseStates, worker: Boards \cup {None}, lid: Nat, art: Nat,
            idle: IdleTimes]
Worker  == [state: WorkerStates, lid: Nat, art: Nat]
Request == [status: RequestStates, art: Nat, worker: Boards \cup {None}]
Board   == [lid: Nat, art: Nat, ready: BOOLEAN]
Call    == [kind: {"deploy", "predict", "release"}, board: Boards, lid: Nat, art: Nat]
Status  == [open: BOOLEAN, lid: Nat, art: Nat]

\* Where the holder of a student's lock stands, and the Worker call it awaits.
Awaiting == {"deploy", "predict", "release"}
Running  == {"process", "reserve", "drain", "run"}
Op == [pc: {"free"} \cup Running \cup Awaiting,
       by: {"nobody", "submit", "allocator", "reaper", "admin"},
       req: Nat, board: Boards \cup {None}, lid: Nat, art: Nat,
       reply: {"none", "pending", "ok", "error"}]
FreeOp == [pc |-> "free", by |-> "nobody", req |-> NoRequest, board |-> None,
           lid |-> NoLease, art |-> NoArtifact, reply |-> "none"]

Allocator == [pc: {"wait", "scan", "lock", "run"}, student: Students \cup {None},
              queued: BOOLEAN]
Reaper    == [pc: {"sleep", "next", "try", "lock", "run"},
              todo: SUBSET (Students \X {"grace", "timeout"}), queued: BOOLEAN,
              student: Students \cup {None}, why: {"none", "grace", "timeout"}]

IdleAllocator == [pc |-> "wait", student |-> None, queued |-> FALSE]
IdleReaper    == [pc |-> "sleep", todo |-> {}, queued |-> FALSE,
                  student |-> None, why |-> "none"]
NoStatus      == [open |-> FALSE, lid |-> NoLease, art |-> NoArtifact]

TypeOK ==
  /\ lease \in [Students -> Lease]
  /\ ahead \in [Students -> SUBSET Students]
  /\ worker \in [Boards -> Worker]
  /\ request \in [Students -> [Requests -> Request]]
  /\ artifacts \in Nat /\ leases \in Nat /\ latest \in [Students -> 0 .. artifacts]
  /\ central \in {"down", "recovering", "up"} /\ unchecked \in SUBSET Boards
  /\ op \in [Students -> Op] /\ event \in BOOLEAN
  /\ allocator \in Allocator /\ reaper \in Reaper
  /\ check \in [Boards -> Status] /\ failures \in [Boards -> Nat]
  /\ board \in [Boards -> Board] /\ orphans \in SUBSET Call /\ faults \in Nat

-----------------------------------------------------------------------------
(* The first start of Central: sync_config has inserted the boards of      *)
(* workers.json, all OFFLINE, and nothing has been recovered yet.          *)
Init ==
  /\ lease = [s \in Students |-> [state |-> "UNASSIGNED", worker |-> None,
                                  lid |-> NoLease, art |-> NoArtifact, idle |-> "active"]]
  /\ ahead = [s \in Students |-> {}]
  /\ worker = [b \in Boards |-> [state |-> "OFFLINE", lid |-> NoLease, art |-> NoArtifact]]
  /\ request = [s \in Students |-> [i \in Requests |->
                  [status |-> "NONE", art |-> NoArtifact, worker |-> None]]]
  /\ latest = [s \in Students |-> NoArtifact] /\ artifacts = 0 /\ leases = 0
  /\ central = "down" /\ unchecked = {}
  /\ op = [s \in Students |-> FreeOp] /\ event = FALSE
  /\ allocator = IdleAllocator /\ reaper = IdleReaper
  /\ check = [b \in Boards |-> NoStatus] /\ failures = [b \in Boards |-> 0]
  /\ board = [b \in Boards |-> [lid |-> NoLease, art |-> NoArtifact, ready |-> FALSE]]
  /\ orphans = {} /\ faults = 0

-----------------------------------------------------------------------------
(* Central is one event loop: a task that has not reached an await that    *)
(* really waits keeps it, and no other task of Central moves.              *)
EventLoopFree ==
  /\ central = "up"
  /\ \A s \in Students : op[s].pc \notin Running
  /\ allocator.pc # "scan"
  /\ reaper.pc \notin {"next", "try"}

LockFree(s) == op[s].pc = "free"

\* Something goes wrong, within the bound.
Fault(kind) == kind \in Environment /\ faults < MaxFaults /\ faults' = faults + 1

QueuedStudents == {s \in Students : lease[s].state = "QUEUED"}
OldestQueued(s) == s \in QueuedStudents /\ ahead[s] = {}

Pending(s)    == {i \in Requests : request[s][i].status = "QUEUED"}
RunningOf(s)  == {i \in Requests : request[s][i].status = "RUNNING"}
\* Mistaken form of NextOf: the newest first.
NewestOf(s)   == CHOOSE i \in Pending(s) : \A j \in Pending(s) : i >= j
\* The oldest of a student's QUEUED requests.
NextOf(s)     == CHOOSE i \in Pending(s) : \A j \in Pending(s) : i <= j

\* Mistaken form of IsLeaseOf: ACTIVE_LEASE_STATES without the states of a call under way.
IsSettledLeaseOf(s, b) == worker[b].lid # NoLease /\ lease[s].lid = worker[b].lid
                          /\ lease[s].state \in {"READY", "BUSY"}
\* The lease that a workers row points at, as _check_worker and _mark_offline look it up.
IsLeaseOf(s, b) == worker[b].lid # NoLease /\ lease[s].lid = worker[b].lid
                   /\ lease[s].state \in ActiveStates

\* LeaseManager._queue on the row of one student.
Queued(l) == [l EXCEPT !.state = "QUEUED", !.worker = None, !.lid = NoLease,
                       !.art = NoArtifact]
QueueLease(s) ==
  /\ lease' = [lease EXCEPT ![s] = Queued(lease[s])]
  /\ ahead' = IF lease[s].state = "QUEUED" THEN ahead
              ELSE [ahead EXCEPT ![s] = QueuedStudents]
=============================================================================
