---------------------------- MODULE LeaseManager ----------------------------
(***************************************************************************)
(* lease_manager.py and scheduler.py: student leases, the drain of a       *)
(* student's request queue, the allocator task and the reaper task.        *)
(*                                                                         *)
(* op[s] is the coroutine that holds student_locks[s]: the request handler *)
(* of a POST /predict, the allocator, the reaper or an admin release.      *)
(***************************************************************************)
EXTENDS CentralState

\* The predict-request table after request i of student s takes the fields of r.
WithRequest(s, i, r) == [request EXCEPT ![s] = [@ EXCEPT ![i] = r]]

\* Both rows still carry the lease id the awaited call was made with.
StillOwned(s) ==
  /\ lease[s].lid = op[s].lid
  /\ worker[op[s].board].lid = op[s].lid

AwaitCall(s, kind, i, b, lid, art) ==
  op' = [op EXCEPT ![s] = [pc |-> kind, by |-> op[s].by, req |-> i, board |-> b,
                           lid |-> lid, art |-> art, reply |-> "pending"]]
Continue(s, pc, i) == op' = [op EXCEPT ![s] = [FreeOp EXCEPT !.pc = pc, !.by = op[s].by,
                                                             !.req = i]]
LastRequest(s) == Cardinality({i \in Requests : request'[s][i].status # "NONE"})

(* The coroutine returns and the lock is released. A submitter whose       *)
(* request is still QUEUED wakes the allocator; the allocator goes back to *)
(* sleep when the lease was and still is QUEUED, and looks for the next    *)
(* student otherwise. `wake` is whether the code has set allocator_event.  *)
Return(s, wake) ==
  /\ op' = [op EXCEPT ![s] = FreeOp]
  /\ event' = (event \/ wake \/ (op[s].by = "submit" /\ LastRequest(s) # 0
                                 /\ request'[s][LastRequest(s)].status = "QUEUED"))
  /\ allocator' = IF op[s].by # "allocator" THEN allocator
                  ELSE IF allocator.queued /\ lease'[s].state = "QUEUED" THEN IdleAllocator
                  ELSE [IdleAllocator EXCEPT !.pc = "scan"]

\* Mistaken form of WakeAllocator: the released board is not announced.
WakeNobody == UNCHANGED event
WakeAllocator == event' = TRUE

-----------------------------------------------------------------------------
\* Mistaken form of LatestArtifact: what is deployed already will do.
DeployedArtifact(s) == IF lease[s].art # NoArtifact THEN lease[s].art ELSE latest[s]
\* _latest_artifact: the READY artifact created last.
LatestArtifact(s) == latest[s]

(* submit_predict: bind the request to the student's latest READY artifact *)
(* and go on to _process_student_locked.                                   *)
SubmitPredict(s) ==
  /\ EventLoopFree /\ LockFree(s)
  /\ LatestArtifact(s) # NoArtifact
  /\ \E i \in Requests :
       /\ request[s][i].status = "NONE"
       /\ \A j \in Requests : j < i => request[s][j].status # "NONE"
       /\ request' = WithRequest(s, i, [status |-> "QUEUED", art |-> LatestArtifact(s),
                                        worker |-> None])
  /\ op' = [op EXCEPT ![s] = [FreeOp EXCEPT !.pc = "process", !.by = "submit"]]
  /\ UNCHANGED <<lease, ahead, worker, latest, artifacts, leases, central, unchecked,
                 event, allocator, reaper, check, failures, world>>

(* _process_student_locked, first transaction: a student without a usable  *)
(* lease joins the queue. The second half needs a worker only when the     *)
(* lease has none.                                                         *)
ProcessStudentLocked(s) ==
  /\ op[s].pc = "process"
  /\ IF lease[s].state \in {"UNASSIGNED", "ERROR", "LOST"}
     THEN QueueLease(s)
     ELSE UNCHANGED <<lease, ahead>>
  /\ Continue(s, IF lease'[s].lid = NoLease THEN "reserve" ELSE "drain", NoRequest)
  /\ UNCHANGED <<worker, request, latest, artifacts, leases, central, unchecked,
                 event, allocator, reaper, check, failures, world>>

\* Mistaken form of MayReserve: a READY board is handed over without its release.
MayReserveReady(s, b) ==
  /\ OldestQueued(s)
  /\ worker[b].state \in {"IDLE", "READY"}
  /\ leases < MaxLeases

\* reserve_lease's conditions: s heads the queue and b is idle and unowned.
MayReserve(s, b) ==
  /\ OldestQueued(s)
  /\ worker[b].state = "IDLE" /\ worker[b].lid = NoLease
  /\ leases < MaxLeases

ReserveLease(s) ==
  /\ op[s].pc = "reserve"
  /\ UNCHANGED <<request, latest, artifacts, central, unchecked,
                 reaper, check, failures, world>>
  /\ \/ \E b \in Boards :
          /\ MayReserve(s, b)
          /\ leases' = leases + 1
          /\ worker' = [worker EXCEPT ![b] = [state |-> "RESERVED", lid |-> leases + 1,
                                              art |-> NoArtifact]]
          /\ lease' = [lease EXCEPT ![s] = [lease[s] EXCEPT !.state = "RESERVED",
                             !.worker = b, !.lid = leases + 1, !.idle = "active"]]
          /\ ahead' = [t \in Students |-> ahead[t] \ {s}]
          /\ Continue(s, "drain", NoRequest)
          /\ UNCHANGED <<event, allocator>>
     \/ /\ \A b \in Boards : ~MayReserve(s, b)
        /\ UNCHANGED <<lease, ahead, worker, leases>>
        /\ Return(s, FALSE)

-----------------------------------------------------------------------------
\* Mistaken form of AlreadyDeployed: any overlay will do.
AnyDeployed(s, a) ==
  LET b == lease[s].worker IN
  /\ lease[s].art # NoArtifact /\ worker[b].art = lease[s].art
  /\ worker[b].state \in {"READY", "BUSY"}

\* _deploy's shortcut: both rows already show the artifact.
AlreadyDeployed(s, a) ==
  LET b == lease[s].worker IN
  /\ lease[s].art = a /\ worker[b].art = a
  /\ worker[b].state \in {"READY", "BUSY"}

(* One turn of _drain_locked up to _deploy's network call: nothing left to *)
(* run, ownership lost, overlay already there, or a deployment to await.   *)
DrainLocked(s) ==
  LET b == lease[s].worker
      i == NextOf(s)
      a == request[s][i].art
  IN
  /\ op[s].pc = "drain"
  /\ UNCHANGED <<ahead, request, latest, artifacts, leases, central, unchecked,
                 reaper, check, failures, world>>
  /\ \/ /\ lease[s].lid = NoLease
        /\ UNCHANGED <<lease, worker>> /\ Return(s, FALSE)
     \/ /\ lease[s].lid # NoLease /\ Pending(s) = {}
        /\ lease' = [lease EXCEPT ![s] = [lease[s] EXCEPT !.state = "READY"]]
        /\ UNCHANGED worker /\ Return(s, FALSE)
     \/ /\ lease[s].lid # NoLease /\ Pending(s) # {}
        /\ worker[b].lid # lease[s].lid
        /\ lease' = [lease EXCEPT ![s] = [lease[s] EXCEPT !.state = "LOST"]]
        /\ UNCHANGED worker /\ Return(s, FALSE)
     \/ /\ lease[s].lid # NoLease /\ Pending(s) # {}
        /\ worker[b].lid = lease[s].lid
        /\ UNCHANGED <<event, allocator>>
        /\ IF AlreadyDeployed(s, a)
           THEN /\ Continue(s, "run", i)
                /\ UNCHANGED <<lease, worker>>
           ELSE /\ lease' = [lease EXCEPT ![s] = [lease[s] EXCEPT !.state = "DEPLOYING"]]
                /\ worker' = [worker EXCEPT ![b] = [worker[b] EXCEPT !.state = "DEPLOYING"]]
                /\ AwaitCall(s, "deploy", i, b, lease[s].lid, a)

\* Mistaken form of DeployStillWanted: the answer counts whatever happened meanwhile.
DeployAlwaysWanted(s) == op[s].pc = "deploy"

\* A reply still counts: nothing has taken the lease away while the call was out.
DeployStillWanted(s) == StillOwned(s) /\ lease[s].state = "DEPLOYING"

\* _deploy after client.deploy returned: both rows READY, or the stale answer is dropped.
DeploySucceeded(s) ==
  LET b == op[s].board IN
  /\ EventLoopFree /\ op[s].pc = "deploy" /\ op[s].reply = "ok"
  /\ UNCHANGED <<ahead, request, latest, artifacts, leases, central, unchecked,
                 reaper, check, failures, world>>
  /\ \/ /\ DeployStillWanted(s)
        /\ lease' = [lease EXCEPT ![s] = [lease[s] EXCEPT !.state = "READY",
                                            !.art = op[s].art, !.idle = "active"]]
        /\ worker' = [worker EXCEPT ![b] = [worker[b] EXCEPT !.state = "READY",
                                                             !.art = op[s].art]]
        /\ Continue(s, "run", op[s].req)
        /\ UNCHANGED <<event, allocator>>
     \/ /\ ~DeployStillWanted(s)
        /\ UNCHANGED <<lease, worker>>
        /\ Return(s, FALSE)

\* _deploy's except branch: the student is queued again, the board is in ERROR and
\* keeps its lease id, and the allocator is woken in every case.
DeployFailed(s) ==
  LET b == op[s].board IN
  /\ EventLoopFree /\ op[s].pc = "deploy" /\ op[s].reply = "error"
  /\ \/ /\ DeployStillWanted(s)
        /\ QueueLease(s)
        /\ worker' = [worker EXCEPT ![b] = [worker[b] EXCEPT !.state = "ERROR"]]
     \/ /\ ~DeployStillWanted(s)
        /\ UNCHANGED <<lease, ahead, worker>>
  /\ UNCHANGED <<request, latest, artifacts, leases, central, unchecked,
                 reaper, check, failures, world>>
  /\ Return(s, TRUE)

-----------------------------------------------------------------------------
\* _drain_locked's second transaction re-reads everything before it starts the request.
MayRun(s) ==
  LET b == lease[s].worker IN
  /\ lease[s].lid # NoLease
  /\ request[s][op[s].req].status = "QUEUED"
  /\ worker[b].lid = lease[s].lid
  /\ worker[b].state = "READY" /\ lease[s].state = "READY"

MarkRunning(s) ==
  LET b == lease[s].worker
      i == op[s].req
  IN
  /\ op[s].pc = "run"
  /\ \/ /\ MayRun(s)
        /\ request' = WithRequest(s, i, [request[s][i] EXCEPT !.status = "RUNNING",
                                                              !.worker = b])
        /\ lease' = [lease EXCEPT ![s] = [lease[s] EXCEPT !.state = "BUSY", !.idle = "active"]]
        /\ worker' = [worker EXCEPT ![b] = [worker[b] EXCEPT !.state = "BUSY"]]
        /\ AwaitCall(s, "predict", i, b, lease[s].lid, request[s][i].art)
        /\ UNCHANGED <<event, allocator>>
     \/ /\ ~MayRun(s)
        /\ UNCHANGED <<request, lease, worker>>
        /\ Return(s, FALSE)
  /\ UNCHANGED <<ahead, latest, artifacts, leases, central, unchecked,
                 reaper, check, failures, world>>

PredictStillWanted(s) ==
  StillOwned(s) /\ request[s][op[s].req].status = "RUNNING"

\* client.predict returned: COMPLETED, both rows READY, and the drain takes the next one.
PredictSucceeded(s) ==
  LET b == op[s].board
      i == op[s].req
  IN
  /\ EventLoopFree /\ op[s].pc = "predict" /\ op[s].reply = "ok"
  /\ \/ /\ PredictStillWanted(s) /\ lease[s].state = "BUSY"
        /\ request' = WithRequest(s, i, [request[s][i] EXCEPT !.status = "COMPLETED"])
        /\ lease' = [lease EXCEPT ![s] = [lease[s] EXCEPT !.state = "READY", !.idle = "active"]]
        /\ worker' = [worker EXCEPT ![b] = [worker[b] EXCEPT !.state = "READY"]]
        /\ Continue(s, "drain", NoRequest)
        /\ UNCHANGED <<event, allocator>>
     \/ /\ ~(PredictStillWanted(s) /\ lease[s].state = "BUSY")
        /\ UNCHANGED <<request, lease, worker>>
        /\ Return(s, FALSE)
  /\ UNCHANGED <<ahead, latest, artifacts, leases, central, unchecked,
                 reaper, check, failures, world>>

\* client.predict raised: FAILED and never tried again, the student is queued even when
\* nothing is pending, the board is in ERROR, and the allocator is woken.
PredictFailed(s) ==
  LET b == op[s].board
      i == op[s].req
  IN
  /\ EventLoopFree /\ op[s].pc = "predict" /\ op[s].reply = "error"
  /\ \/ /\ PredictStillWanted(s)
        /\ request' = WithRequest(s, i, [request[s][i] EXCEPT !.status = "FAILED"])
        /\ QueueLease(s)
        /\ worker' = [worker EXCEPT ![b] = [worker[b] EXCEPT !.state = "ERROR"]]
        /\ Return(s, TRUE)
     \/ /\ ~PredictStillWanted(s)
        /\ UNCHANGED <<request, lease, ahead, worker>>
        /\ Return(s, FALSE)
  /\ UNCHANGED <<latest, artifacts, leases, central, unchecked,
                 reaper, check, failures, world>>

-----------------------------------------------------------------------------
\* The allocator holds the student's lock: note the lease state, then process.
AllocatorHolds(s) ==
  /\ op' = [op EXCEPT ![s] = [FreeOp EXCEPT !.pc = "process", !.by = "allocator"]]
  /\ allocator' = [pc |-> "run", student |-> s, queued |-> lease[s].state = "QUEUED"]

\* _allocator_loop: woken by the event, or back from a student, it goes to the oldest
\* queued student, waiting for a lock that is taken, or back to sleep.
AllocatorLoop ==
  /\ \/ allocator.pc = "wait" /\ event /\ EventLoopFree /\ event' = FALSE
     \/ allocator.pc = "scan" /\ UNCHANGED event
  /\ \/ \E s \in Students :
          /\ OldestQueued(s)
          /\ IF LockFree(s) THEN AllocatorHolds(s)
             ELSE /\ allocator' = [pc |-> "lock", student |-> s, queued |-> FALSE]
                  /\ UNCHANGED op
     \/ /\ \A s \in Students : ~OldestQueued(s)
        /\ allocator' = IdleAllocator
        /\ UNCHANGED op
  /\ UNCHANGED <<database, central, unchecked, reaper, check, failures, world>>

AllocatorLocks(s) ==
  /\ EventLoopFree /\ LockFree(s)
  /\ allocator.pc = "lock" /\ allocator.student = s
  /\ AllocatorHolds(s)
  /\ UNCHANGED <<database, central, unchecked, event, reaper, check, failures, world>>

-----------------------------------------------------------------------------
\* Mistaken form of MayRelease: the requests are not looked at.
MayReleaseUnserved(s) ==
  LET b == lease[s].worker IN
  /\ lease[s].state = "READY" /\ lease[s].lid # NoLease
  /\ worker[b].state = "READY" /\ worker[b].lid = lease[s].lid

\* _release_locked's conditions: an idle READY lease with no work.
MayRelease(s) ==
  LET b == lease[s].worker IN
  /\ lease[s].state = "READY" /\ lease[s].lid # NoLease
  /\ Pending(s) \cup RunningOf(s) = {}
  /\ worker[b].state = "READY" /\ worker[b].lid = lease[s].lid

\* _release_locked up to its network call.
StartRelease(s, caller) ==
  /\ MayRelease(s)
  /\ lease' = [lease EXCEPT ![s] = [lease[s] EXCEPT !.state = "RELEASING"]]
  /\ op' = [op EXCEPT ![s] = [pc |-> "release", by |-> caller, req |-> NoRequest,
              board |-> lease[s].worker, lid |-> lease[s].lid, art |-> NoArtifact,
              reply |-> "pending"]]

\* Mistaken form of ReaperGoesOn: the pressure reclaim leaves the reaper's loop.
ReaperEnds(released) ==
  reaper' = IF reaper.why = "grace" /\ released
            THEN [reaper EXCEPT !.pc = "run", !.student = None]
            ELSE [reaper EXCEPT !.pc = "next", !.student = None, !.why = "none"]

(* reap_once goes on after release_student returned `released`: after an   *)
(* idle timeout to the next lease, after a pressure reclaim it stops; a    *)
(* lease that timed out but was not released is tried once more under      *)
(* pressure.                                                               *)
ReaperGoesOn(released) ==
  reaper' = IF reaper.why = "timeout" /\ ~released /\ reaper.queued
            THEN [reaper EXCEPT !.pc = "try", !.why = "grace"]
            ELSE IF reaper.why = "grace" /\ released THEN IdleReaper
            ELSE [reaper EXCEPT !.pc = "next", !.student = None, !.why = "none"]

\* release_worker: an administrator releases the READY lease of board b.
ReleaseWorker(b) ==
  /\ EventLoopFree /\ "admin" \in Environment
  /\ worker[b].state = "READY"
  /\ \E s \in Students :
       /\ lease[s].worker = b /\ lease[s].lid = worker[b].lid /\ lease[s].state = "READY"
       /\ LockFree(s)
       /\ StartRelease(s, "admin")
  /\ UNCHANGED <<ahead, worker, request, latest, artifacts, leases, central, unchecked,
                 event, allocator, reaper, check, failures, world>>

ReleaseStillWanted(s) == StillOwned(s) /\ lease[s].state = "RELEASING"

\* _release_locked after client.release returned: the board is IDLE and the allocator
\* is woken, unless the lease was lost meanwhile.
ReleaseSucceeded(s) ==
  LET b == op[s].board IN
  /\ EventLoopFree /\ op[s].pc = "release" /\ op[s].reply = "ok"
  /\ \/ /\ ReleaseStillWanted(s)
        /\ worker' = [worker EXCEPT ![b] = [state |-> "IDLE", lid |-> NoLease,
                                            art |-> NoArtifact]]
        /\ lease' = [lease EXCEPT ![s] = [lease[s] EXCEPT !.state = "UNASSIGNED",
                             !.worker = None, !.lid = NoLease, !.art = NoArtifact]]
        /\ WakeAllocator
        /\ IF op[s].by = "reaper" THEN ReaperGoesOn(TRUE) ELSE UNCHANGED reaper
     \/ /\ ~ReleaseStillWanted(s)
        /\ UNCHANGED <<worker, lease, event>>
        /\ IF op[s].by = "reaper" THEN ReaperGoesOn(FALSE) ELSE UNCHANGED reaper
  /\ op' = [op EXCEPT ![s] = FreeOp]
  /\ UNCHANGED <<ahead, request, latest, artifacts, leases, central, unchecked,
                 allocator, check, failures, world>>

\* _release_locked's except branch does not look at the lease state: whatever it has
\* become, both rows end in ERROR while they carry the id.
ReleaseFailed(s) ==
  LET b == op[s].board IN
  /\ EventLoopFree /\ op[s].pc = "release" /\ op[s].reply = "error"
  /\ \/ /\ StillOwned(s)
        /\ lease' = [lease EXCEPT ![s] = [lease[s] EXCEPT !.state = "ERROR"]]
        /\ worker' = [worker EXCEPT ![b] = [worker[b] EXCEPT !.state = "ERROR"]]
     \/ /\ ~StillOwned(s)
        /\ UNCHANGED <<lease, worker>>
  /\ op' = [op EXCEPT ![s] = FreeOp]
  /\ IF op[s].by = "reaper" THEN ReaperGoesOn(FALSE) ELSE UNCHANGED reaper
  /\ UNCHANGED <<ahead, request, latest, artifacts, leases, central, unchecked,
                 event, allocator, check, failures, world>>

-----------------------------------------------------------------------------
\* Leases that lost their board while requests were waiting.
LostLeases == {s \in Students : lease[s].state \in {"LOST", "ERROR"}}
Requeued   == {s \in LostLeases : Pending(s) # {}}

(* reap_once, its one transaction: queue the lost leases that still have   *)
(* requests, without their students' locks and in the order of the rows;   *)
(* note whether anybody waits, and list the READY leases with how long     *)
(* they had been idle.                                                     *)
ReapOnce ==
  /\ EventLoopFree /\ reaper.pc = "sleep"
  /\ \E rank \in [Requeued -> 1 .. Cardinality(Requeued)] :
       /\ \A s, t \in Requeued : rank[s] = rank[t] => s = t
       /\ ahead' = [s \in Students |-> IF s \notin Requeued THEN ahead[s]
                      ELSE QueuedStudents \cup {t \in Requeued : rank[t] < rank[s]}]
  /\ lease' = [s \in Students |-> IF s \in Requeued THEN Queued(lease[s]) ELSE lease[s]]
  /\ event' = (event \/ LostLeases # {})
  /\ LET queued == \E s \in Students : lease'[s].state = "QUEUED" IN
     reaper' = [IdleReaper EXCEPT !.pc = "next", !.queued = queued,
                  !.todo = {e \in Students \X {"grace", "timeout"} :
                     /\ lease'[e[1]].state = "READY" /\ lease'[e[1]].worker # None
                     /\ e[2] = lease'[e[1]].idle
                     /\ e[2] = "grace" => queued}]
  /\ UNCHANGED <<worker, request, latest, artifacts, leases, central, unchecked,
                 op, allocator, check, failures, world>>

\* The next lease of the list, least recently used first.
ReapNext ==
  /\ reaper.pc = "next"
  /\ IF reaper.todo = {} THEN reaper' = IdleReaper
     ELSE \E e \in reaper.todo :
            /\ e[2] = "grace" => \A f \in reaper.todo : f[2] = "grace"
            /\ reaper' = [reaper EXCEPT !.pc = "try", !.todo = @ \ {e},
                                        !.student = e[1], !.why = e[2]]
  /\ UNCHANGED <<database, central, unchecked, op, event, allocator, check, failures, world>>

\* release_student: wait for the lock, then look at the lease as it is by then.
ReapRelease(s) ==
  /\ reaper.student = s
  /\ reaper.pc = "try" \/ (reaper.pc = "lock" /\ EventLoopFree /\ LockFree(s))
  /\ \/ /\ ~LockFree(s)
        /\ reaper' = [reaper EXCEPT !.pc = "lock"]
        /\ UNCHANGED <<lease, op>>
     \/ /\ LockFree(s)
        /\ StartRelease(s, "reaper")
        /\ reaper' = [reaper EXCEPT !.pc = "run"]
     \/ /\ LockFree(s) /\ ~MayRelease(s)
        /\ ReaperGoesOn(FALSE)
        /\ UNCHANGED <<lease, op>>
  /\ UNCHANGED <<ahead, worker, request, latest, artifacts, leases, central, unchecked,
                 event, allocator, check, failures, world>>

\* Time passes for a READY lease: last_activity_at is further back.
GrowIdle(s) ==
  /\ lease[s].state = "READY" /\ lease[s].idle # "timeout"
  /\ lease' = [lease EXCEPT ![s] = [lease[s] EXCEPT
                 !.idle = IF lease[s].idle = "active" THEN "grace" ELSE "timeout"]]
  /\ UNCHANGED <<ahead, worker, request, latest, artifacts, leases, tasks, world>>
=============================================================================
