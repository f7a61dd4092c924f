------------------------------- MODULE Central -------------------------------
(***************************************************************************)
(* The Central Server with its boards: student requests, the allocator,    *)
(* the reaper, the health monitor, administrators, the boards and the      *)
(* network, and Central crashing and starting again (server/app/main.py).  *)
(***************************************************************************)
EXTENDS LeaseManager, WorkerRegistry, WorkerBoard

-----------------------------------------------------------------------------
\* Mistaken form of CreateArtifact: the new id is not drawn.
CreateUncounted(s) ==
  /\ EventLoopFree /\ artifacts < MaxArtifacts
  /\ latest' = [latest EXCEPT ![s] = artifacts + 1]
  /\ UNCHANGED <<lease, ahead, worker, request, artifacts, leases, tasks, world>>

\* artifact_store.create commits a new version: the student's latest READY artifact.
CreateArtifact(s) ==
  /\ EventLoopFree /\ artifacts < MaxArtifacts
  /\ artifacts' = artifacts + 1
  /\ latest' = [latest EXCEPT ![s] = artifacts + 1]
  /\ UNCHANGED <<lease, ahead, worker, request, leases, tasks, world>>

\* The process dies between any two transactions. The database stays; the coroutines,
\* the event, the failure counts are gone, and the calls under way are on their own.
Crash ==
  /\ central # "down" /\ Fault("crash")
  /\ central' = "down" /\ unchecked' = {}
  /\ op' = [s \in Students |-> FreeOp] /\ event' = FALSE
  /\ allocator' = IdleAllocator /\ reaper' = IdleReaper
  /\ check' = [b \in Boards |-> NoStatus] /\ failures' = [b \in Boards |-> 0]
  /\ orphans' = orphans \cup {CallOf(s) : s \in {t \in Students : op[t].reply = "pending"}}
  /\ UNCHANGED <<database, board>>

\* Mistaken form of Interrupted: the leases are left as they were.
InterruptedNobody == {}

\* The students whose request was running when Central died.
Interrupted == {s \in Students : RunningOf(s) # {}}

\* lifespan: recover_requests fails what was running and loses its lease; then
\* registry.recover() is to check every board.
RecoverRequests ==
  /\ central = "down"
  /\ central' = "recovering" /\ unchecked' = Boards
  /\ request' = [s \in Students |-> [i \in Requests |->
                   IF request[s][i].status = "RUNNING"
                   THEN [request[s][i] EXCEPT !.status = "FAILED"] ELSE request[s][i]]]
  /\ lease' = [s \in Students |-> IF s \in Interrupted THEN [lease[s] EXCEPT !.state = "LOST"]
                                  ELSE lease[s]]
  /\ UNCHANGED <<ahead, worker, latest, artifacts, leases, op, event, allocator, reaper,
                 check, failures, world>>

\* lifespan: the allocator, the reaper and the monitor start and the API opens.
StartServing ==
  /\ central = "recovering" /\ unchecked = {}
  /\ central' = "up" /\ event' = TRUE
  /\ UNCHANGED <<database, unchecked, op, allocator, reaper, check, failures, world>>

-----------------------------------------------------------------------------
\* The tasks of the event loop: the holder of a student's lock, the allocator, the
\* reaper, the monitor's check of a board, and the startup sequence.
Coroutine(s) ==
  \/ ProcessStudentLocked(s) \/ ReserveLease(s) \/ DrainLocked(s) \/ MarkRunning(s)
  \/ DeploySucceeded(s) \/ DeployFailed(s)
  \/ PredictSucceeded(s) \/ PredictFailed(s)
  \/ ReleaseSucceeded(s) \/ ReleaseFailed(s)
AllocatorTask == AllocatorLoop \/ \E s \in Students : AllocatorLocks(s)
ReaperTask    == ReapOnce \/ ReapNext \/ \E s \in Students : ReapRelease(s)
CheckTask(b)  == StatusAnswered(b) \/ ApplyStatus(b)
Lifespan      == RecoverRequests \/ StartServing

Next ==
  \/ \E s \in Students :
       \/ Coroutine(s) \/ CreateArtifact(s) \/ SubmitPredict(s)
       \/ GrowIdle(s) \/ Serve(s) \/ TimeOut(s)
  \/ \E b \in Boards :
       \/ CheckTask(b) \/ CheckFails(b) \/ ReleaseWorker(b) \/ BoardRestart(b)
  \/ AllocatorTask \/ ReaperTask \/ Lifespan
  \/ ServeOrphan \/ Crash

Spec == Init /\ [][Next]_vars

(* What the code's scheduling guarantees. The event loop runs its ready    *)
(* tasks in turn, but a task can be ready and then has to wait while       *)
(* another one keeps the loop, hence strong fairness of each task; sleeps  *)
(* end; a Worker answers a call that does not time out; an idle lease      *)
(* grows older. Nothing is assumed of students, administrators, faults and *)
(* calls nobody waits for.                                                 *)
Fairness ==
  /\ WF_vars(Lifespan)
  /\ \A s \in Students : SF_vars(Coroutine(s)) /\ WF_vars(Serve(s)) /\ WF_vars(GrowIdle(s))
  /\ SF_vars(AllocatorTask) /\ SF_vars(ReaperTask)
  /\ \A b \in Boards : SF_vars(CheckTask(b))

FairSpec == Spec /\ Fairness
=============================================================================
