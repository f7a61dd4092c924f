----------------------------- MODULE CentralSteps -----------------------------
(***************************************************************************)
(* What the steps of Central do, row by row. A step of the coroutine that  *)
(* holds a student's lock has one of a few outcomes; the proofs about      *)
(* Central go through the outcomes instead of the actions.                 *)
(***************************************************************************)
EXTENDS CentralProofs

-----------------------------------------------------------------------------
(* Rows after a step.                                                      *)

LeaseBecomes(s, x, b, l, a) ==
  /\ lease'[s].state = x /\ lease'[s].worker = b /\ lease'[s].lid = l /\ lease'[s].art = a

LeaseMoves(s, x) == LeaseBecomes(s, x, lease[s].worker, lease[s].lid, lease[s].art)
LeaseKept(s)     == LeaseMoves(s, lease[s].state)

WorkerBecomes(b, x, l, a) ==
  /\ worker'[b].state = x /\ worker'[b].lid = l /\ worker'[b].art = a
  /\ \A c \in Boards \ {b} : worker'[c] = worker[c]

OpBecomes(s, pc, i, b, l, a, reply) ==
  /\ op'[s].pc = pc /\ op'[s].req = i /\ op'[s].board = b
  /\ op'[s].lid = l /\ op'[s].art = a /\ op'[s].reply = reply

OpGoesTo(s, pc, i) == OpBecomes(s, pc, i, None, NoLease, NoArtifact, "none")

RequestBecomes(s, i, x, b, a) ==
  /\ request'[s][i].status = x /\ request'[s][i].worker = b /\ request'[s][i].art = a
  /\ \A j \in Requests \ {i} : request'[s][j] = request[s][j]

-----------------------------------------------------------------------------
(* The outcomes of a step of the holder of the lock of s. What an outcome  *)
(* does not mention of the lease of s, the requests of s and the boards is *)
(* as it was.                                                              *)

SameLease(s)   == lease'[s] = lease[s]
SameRequest(s) == request'[s] = request[s]
SameWorkers    == \A b \in Boards : worker'[b] = worker[b]

\* The lock's holder returns and changes nothing.
Leaves(s) ==
  /\ OpGoesTo(s, "free", NoRequest)
  /\ SameLease(s) /\ SameWorkers /\ SameRequest(s) /\ leases' = leases
  /\ \/ op[s].pc \in {"reserve", "run"}
     \/ op[s].pc = "deploy" /\ ~DeployStillWanted(s)
     \/ op[s].pc = "predict" /\ ~(PredictStillWanted(s) /\ lease[s].state = "BUSY")
     \/ op[s].pc = "release" /\ ~ReleaseStillWanted(s)

Queues(s) ==
  /\ op[s].pc = "process" /\ OpGoesTo(s, "reserve", NoRequest)
  /\ lease[s].state \in {"UNASSIGNED", "ERROR", "LOST"}
  /\ LeaseBecomes(s, "QUEUED", None, NoLease, NoArtifact)
  /\ SameWorkers /\ SameRequest(s) /\ leases' = leases

Proceeds(s) ==
  /\ op[s].pc = "process"
  /\ lease[s].state \notin {"UNASSIGNED", "ERROR", "LOST"}
  /\ \/ lease[s].lid = NoLease /\ OpGoesTo(s, "reserve", NoRequest)
     \/ lease[s].lid # NoLease /\ OpGoesTo(s, "drain", NoRequest)
  /\ SameLease(s) /\ SameWorkers /\ SameRequest(s) /\ leases' = leases

Granted(s, b) ==
  /\ op[s].pc = "reserve" /\ OpGoesTo(s, "drain", NoRequest)
  /\ lease[s].state = "QUEUED" /\ worker[b].state = "IDLE" /\ worker[b].lid = NoLease
  /\ leases' = leases + 1
  /\ LeaseBecomes(s, "RESERVED", b, leases + 1, lease[s].art)
  /\ WorkerBecomes(b, "RESERVED", leases + 1, NoArtifact)
  /\ SameRequest(s)

\* Nothing left to run.
Idles(s) ==
  /\ op[s].pc = "drain" /\ Pending(s) = {} /\ OpGoesTo(s, "free", NoRequest)
  /\ LeaseMoves(s, "READY") /\ SameWorkers /\ SameRequest(s) /\ leases' = leases

\* The next request finds its overlay on the board, or has it deployed.
Picks(s) ==
  /\ op[s].pc = "drain" /\ Pending(s) # {}
  /\ AlreadyDeployed(s, request[s][NextOf(s)].art) /\ OpGoesTo(s, "run", NextOf(s))
  /\ SameLease(s) /\ SameWorkers /\ SameRequest(s) /\ leases' = leases

Deploys(s) ==
  LET b == lease[s].worker IN
  /\ op[s].pc = "drain" /\ Pending(s) # {}
  /\ OpBecomes(s, "deploy", NextOf(s), b, lease[s].lid, request[s][NextOf(s)].art, "pending")
  /\ LeaseMoves(s, "DEPLOYING") /\ WorkerBecomes(b, "DEPLOYING", worker[b].lid, worker[b].art)
  /\ SameRequest(s) /\ leases' = leases

Deployed(s) ==
  LET b == op[s].board IN
  /\ op[s].pc = "deploy" /\ op[s].reply = "ok" /\ DeployStillWanted(s)
  /\ OpGoesTo(s, "run", op[s].req)
  /\ LeaseBecomes(s, "READY", lease[s].worker, lease[s].lid, op[s].art)
  /\ WorkerBecomes(b, "READY", worker[b].lid, op[s].art)
  /\ SameRequest(s) /\ leases' = leases

\* The board did not answer or refused: the student waits again.
DeployLost(s) ==
  LET b == op[s].board IN
  /\ op[s].pc = "deploy" /\ op[s].reply = "error" /\ DeployStillWanted(s)
  /\ OpGoesTo(s, "free", NoRequest)
  /\ LeaseBecomes(s, "QUEUED", None, NoLease, NoArtifact)
  /\ WorkerBecomes(b, "ERROR", worker[b].lid, worker[b].art)
  /\ SameRequest(s) /\ leases' = leases

Starts(s) ==
  LET b == lease[s].worker
      i == op[s].req
  IN
  /\ op[s].pc = "run" /\ MayRun(s)
  /\ OpBecomes(s, "predict", i, b, lease[s].lid, request[s][i].art, "pending")
  /\ LeaseMoves(s, "BUSY") /\ WorkerBecomes(b, "BUSY", worker[b].lid, worker[b].art)
  /\ RequestBecomes(s, i, "RUNNING", b, request[s][i].art) /\ leases' = leases

Completes(s) ==
  LET b == op[s].board
      i == op[s].req
  IN
  /\ op[s].pc = "predict" /\ op[s].reply = "ok"
  /\ PredictStillWanted(s) /\ lease[s].state = "BUSY"
  /\ OpGoesTo(s, "drain", NoRequest)
  /\ LeaseMoves(s, "READY") /\ WorkerBecomes(b, "READY", worker[b].lid, worker[b].art)
  /\ RequestBecomes(s, i, "COMPLETED", request[s][i].worker, request[s][i].art)
  /\ leases' = leases

PredictLost(s) ==
  LET b == op[s].board
      i == op[s].req
  IN
  /\ op[s].pc = "predict" /\ op[s].reply = "error" /\ PredictStillWanted(s)
  /\ OpGoesTo(s, "free", NoRequest)
  /\ LeaseBecomes(s, "QUEUED", None, NoLease, NoArtifact)
  /\ WorkerBecomes(b, "ERROR", worker[b].lid, worker[b].art)
  /\ RequestBecomes(s, i, "FAILED", request[s][i].worker, request[s][i].art)
  /\ leases' = leases

Released(s) ==
  /\ op[s].pc = "release" /\ op[s].reply = "ok" /\ ReleaseStillWanted(s)
  /\ OpGoesTo(s, "free", NoRequest)
  /\ LeaseBecomes(s, "UNASSIGNED", None, NoLease, NoArtifact)
  /\ WorkerBecomes(op[s].board, "IDLE", NoLease, NoArtifact)
  /\ SameRequest(s) /\ leases' = leases

ReleaseLost(s) ==
  LET b == op[s].board IN
  /\ op[s].pc = "release" /\ op[s].reply = "error" /\ StillOwned(s)
  /\ OpGoesTo(s, "free", NoRequest)
  /\ LeaseMoves(s, "ERROR") /\ WorkerBecomes(b, "ERROR", worker[b].lid, worker[b].art)
  /\ SameRequest(s) /\ leases' = leases

\* A request arrives, the allocator takes the lock, or a release begins: the lock was free.
Submits(s) ==
  /\ op[s].pc = "free" /\ OpGoesTo(s, "process", NoRequest)
  /\ latest[s] # NoArtifact
  /\ \E i \in Requests :
       /\ request[s][i].status = "NONE"
       /\ \A j \in Requests : j < i => request[s][j].status # "NONE"
       /\ RequestBecomes(s, i, "QUEUED", None, latest[s])
  /\ SameLease(s) /\ SameWorkers /\ leases' = leases

Takes(s) ==
  /\ op[s].pc = "free" /\ OpGoesTo(s, "process", NoRequest)
  /\ SameLease(s) /\ SameWorkers /\ SameRequest(s) /\ leases' = leases

Releases(s) ==
  /\ op[s].pc = "free" /\ MayRelease(s)
  /\ OpBecomes(s, "release", NoRequest, lease[s].worker, lease[s].lid, NoArtifact, "pending")
  /\ LeaseMoves(s, "RELEASING") /\ SameWorkers /\ SameRequest(s) /\ leases' = leases

Outcome(s) ==
  \/ Leaves(s) \/ Queues(s) \/ Proceeds(s) \/ \E b \in Boards : Granted(s, b)
  \/ Idles(s) \/ Picks(s) \/ Deploys(s) \/ Deployed(s) \/ DeployLost(s)
  \/ Starts(s) \/ Completes(s) \/ PredictLost(s) \/ Released(s) \/ ReleaseLost(s)
  \/ Submits(s) \/ Takes(s) \/ Releases(s)

\* A step of s: no other student and nothing outside Central's process takes part in it.
StepOf(s) ==
  /\ central = "up" /\ Outcome(s)
  /\ UNCHANGED <<latest, artifacts, central, unchecked, check, board, orphans>>
  /\ \A t \in Students \ {s} : lease'[t] = lease[t] /\ op'[t] = op[t]
                               /\ request'[t] = request[t]

-----------------------------------------------------------------------------
(* Writing a row.                                                          *)

LEMMA LeaseMoveRow ==
  ASSUME lease \in [Students -> Lease], NEW s \in Students, NEW x,
         \/ lease' = [lease EXCEPT ![s] = [lease[s] EXCEPT !.state = x]]
         \/ lease' = [lease EXCEPT ![s] = [lease[s] EXCEPT !.state = x, !.idle = "active"]]
  PROVE  LeaseMoves(s, x) /\ \A t \in Students \ {s} : lease'[t] = lease[t]
<1>1. lease[s] \in Lease
  OBVIOUS
<1> QED BY <1>1 DEF Lease, LeaseMoves, LeaseBecomes

LEMMA LeaseQueuedRow ==
  ASSUME lease \in [Students -> Lease], NEW s \in Students, QueueLease(s)
  PROVE  /\ LeaseBecomes(s, "QUEUED", None, NoLease, NoArtifact)
         /\ \A t \in Students \ {s} : lease'[t] = lease[t]
<1>1. lease[s] \in Lease
  OBVIOUS
<1> QED BY <1>1 DEF Lease, QueueLease, Queued, LeaseBecomes

LEMMA WorkerMoveRow ==
  ASSUME worker \in [Boards -> Worker], NEW b \in Boards, NEW x,
         worker' = [worker EXCEPT ![b] = [worker[b] EXCEPT !.state = x]]
  PROVE  WorkerBecomes(b, x, worker[b].lid, worker[b].art)
<1>1. worker[b] \in Worker
  OBVIOUS
<1> QED BY <1>1 DEF Worker, WorkerBecomes

LEMMA RequestMoveRow ==
  ASSUME request \in [Students -> [Requests -> Request]], NEW s \in Students,
         NEW i \in Requests, NEW x,
         request' = WithRequest(s, i, [request[s][i] EXCEPT !.status = x])
  PROVE  /\ RequestBecomes(s, i, x, request[s][i].worker, request[s][i].art)
         /\ \A t \in Students \ {s} : request'[t] = request[t]
<1>1. request[s] \in [Requests -> Request] /\ request[s][i] \in Request
  OBVIOUS
<1> QED BY <1>1 DEF Request, WithRequest, RequestBecomes

LEMMA OpMoveRow ==
  ASSUME op \in [Students -> Op], NEW s \in Students, NEW pc, NEW i,
         Continue(s, pc, i)
  PROVE  OpGoesTo(s, pc, i) /\ \A t \in Students \ {s} : op'[t] = op[t]
  BY DEF Continue, OpGoesTo, OpBecomes, FreeOp

LEMMA OpFreeRow ==
  ASSUME op \in [Students -> Op], NEW s \in Students, op' = [op EXCEPT ![s] = FreeOp]
  PROVE  OpGoesTo(s, "free", NoRequest) /\ \A t \in Students \ {s} : op'[t] = op[t]
  BY DEF OpGoesTo, OpBecomes, FreeOp

LEMMA OpCallRow ==
  ASSUME op \in [Students -> Op], NEW s \in Students, NEW kind, NEW i, NEW b, NEW lid,
         NEW art, AwaitCall(s, kind, i, b, lid, art)
  PROVE  /\ OpBecomes(s, kind, i, b, lid, art, "pending")
         /\ \A t \in Students \ {s} : op'[t] = op[t]
  BY DEF AwaitCall, OpBecomes

\* A drain or a deployment works on a lease in use, whose board shows the lease's id.
LEMMA DrainsOwnBoard ==
  ASSUME OwnershipInvariant, NEW s \in Students, op[s].pc \in {"drain", "run"}
  PROVE  /\ central = "up" /\ Active(s)
         /\ lease[s].worker \in Boards /\ lease[s].lid # NoLease
         /\ worker[lease[s].worker].lid = lease[s].lid
<1>1. central = "up" /\ Active(s)
  BY HolderIsUp DEF OwnershipInvariant, CoroutineHoldsLease
<1> QED BY <1>1 DEF OwnershipInvariant, LeaseOwnsBoard

-----------------------------------------------------------------------------
(* The outcome of each action.                                             *)

LEMMA ProcessOutcome ==
  ASSUME OwnershipInvariant, NEW s \in Students, ProcessStudentLocked(s)
  PROVE  StepOf(s)
<1>0. central = "up" /\ lease \in [Students -> Lease] /\ op \in [Students -> Op]
  BY HolderIsUp DEF ProcessStudentLocked, OwnershipInvariant, TypeOK
<1>1. /\ SameWorkers /\ SameRequest(s) /\ leases' = leases
      /\ UNCHANGED <<request, latest, artifacts, central, unchecked, check, board, orphans>>
      /\ op[s].pc = "process"
  BY DEF ProcessStudentLocked, SameWorkers, SameRequest, world
<1>2. CASE lease[s].state \in {"UNASSIGNED", "ERROR", "LOST"}
  <2>1. QueueLease(s)
    BY <1>2 DEF ProcessStudentLocked
  <2>2. /\ LeaseBecomes(s, "QUEUED", None, NoLease, NoArtifact)
        /\ \A t \in Students \ {s} : lease'[t] = lease[t]
    BY <1>0, <2>1, LeaseQueuedRow
  <2>3. Continue(s, "reserve", NoRequest)
    BY <2>2 DEF ProcessStudentLocked, LeaseBecomes
  <2>4. OpGoesTo(s, "reserve", NoRequest) /\ \A t \in Students \ {s} : op'[t] = op[t]
    BY <1>0, <2>3, OpMoveRow
  <2>5. Queues(s)
    BY <1>1, <1>2, <2>2, <2>4 DEF Queues
  <2> QED BY <1>0, <1>1, <2>2, <2>4, <2>5 DEF StepOf, Outcome
<1>3. CASE lease[s].state \notin {"UNASSIGNED", "ERROR", "LOST"}
  <2>1. lease' = lease
    BY <1>3 DEF ProcessStudentLocked
  <2> DEFINE pc == IF lease[s].lid = NoLease THEN "reserve" ELSE "drain"
  <2>2. Continue(s, pc, NoRequest)
    BY <2>1 DEF ProcessStudentLocked
  <2>3. OpGoesTo(s, pc, NoRequest) /\ \A t \in Students \ {s} : op'[t] = op[t]
    BY <1>0, <2>2, OpMoveRow
  <2>4. Proceeds(s)
    BY <1>1, <1>3, <2>1, <2>3 DEF Proceeds, SameLease
  <2> QED BY <1>0, <1>1, <2>1, <2>3, <2>4 DEF StepOf, Outcome
<1> QED BY <1>2, <1>3

LEMMA ReserveOutcome ==
  ASSUME OwnershipInvariant, NEW s \in Students, ReserveLease(s)
  PROVE  StepOf(s)
<1>0. /\ central = "up" /\ lease \in [Students -> Lease] /\ op \in [Students -> Op]
      /\ worker \in [Boards -> Worker]
  BY HolderIsUp DEF ReserveLease, OwnershipInvariant, TypeOK
<1>1. /\ SameRequest(s) /\ op[s].pc = "reserve"
      /\ UNCHANGED <<request, latest, artifacts, central, unchecked, check, board, orphans>>
  BY DEF ReserveLease, SameRequest, world
<1>2. CASE \A b \in Boards : ~MayReserve(s, b)
  <2>1. Return(s, FALSE) /\ UNCHANGED <<lease, worker, leases>>
    BY <1>2 DEF ReserveLease
  <2>2. OpGoesTo(s, "free", NoRequest) /\ \A t \in Students \ {s} : op'[t] = op[t]
    BY <1>0, <2>1, OpFreeRow DEF Return
  <2>3. Leaves(s)
    BY <1>1, <2>1, <2>2 DEF Leaves, SameLease, SameWorkers
  <2> QED BY <1>0, <1>1, <2>1, <2>2, <2>3 DEF StepOf, Outcome
<1>3. ASSUME NEW b \in Boards, MayReserve(s, b),
             leases' = leases + 1,
             worker' = [worker EXCEPT ![b] = [state |-> "RESERVED", lid |-> leases + 1,
                                              art |-> NoArtifact]],
             lease' = [lease EXCEPT ![s] = [lease[s] EXCEPT !.state = "RESERVED",
                             !.worker = b, !.lid = leases + 1, !.idle = "active"]],
             Continue(s, "drain", NoRequest)
      PROVE  StepOf(s)
  <2>1. OpGoesTo(s, "drain", NoRequest) /\ \A t \in Students \ {s} : op'[t] = op[t]
    BY <1>0, <1>3, OpMoveRow
  <2>2. lease[s] \in Lease
    BY <1>0
  <2>3. /\ LeaseBecomes(s, "RESERVED", b, leases + 1, lease[s].art)
        /\ \A t \in Students \ {s} : lease'[t] = lease[t]
    BY <1>0, <1>3, <2>2 DEF Lease, LeaseBecomes
  <2>4. WorkerBecomes(b, "RESERVED", leases + 1, NoArtifact)
    BY <1>0, <1>3 DEF WorkerBecomes
  <2>5. lease[s].state = "QUEUED" /\ worker[b].state = "IDLE" /\ worker[b].lid = NoLease
    BY <1>3 DEF MayReserve, OldestQueued, QueuedStudents
  <2>6. Granted(s, b)
    BY <1>1, <1>3, <2>1, <2>3, <2>4, <2>5 DEF Granted
  <2> QED BY <1>0, <1>1, <2>1, <2>3, <2>6 DEF StepOf, Outcome
<1> QED BY <1>2, <1>3 DEF ReserveLease

LEMMA DrainOutcome ==
  ASSUME OwnershipInvariant, NEW s \in Students, DrainLocked(s)
  PROVE  StepOf(s)
<1>0. /\ lease \in [Students -> Lease] /\ op \in [Students -> Op]
      /\ worker \in [Boards -> Worker]
  BY DEF OwnershipInvariant, TypeOK
<1>1. /\ SameRequest(s) /\ op[s].pc = "drain" /\ leases' = leases
      /\ UNCHANGED <<request, latest, artifacts, central, unchecked, check, board, orphans>>
  BY DEF DrainLocked, SameRequest, world
<1> DEFINE b == lease[s].worker
           i == NextOf(s)
           a == request[s][i].art
<1>2. /\ central = "up" /\ lease[s].lid # NoLease /\ b \in Boards
      /\ worker[b].lid = lease[s].lid
  BY <1>1, DrainsOwnBoard
<1>3. CASE Pending(s) = {}
  <2>1. /\ lease' = [lease EXCEPT ![s] = [lease[s] EXCEPT !.state = "READY"]]
        /\ UNCHANGED worker /\ Return(s, FALSE)
    BY <1>2, <1>3 DEF DrainLocked
  <2>2. LeaseMoves(s, "READY") /\ \A t \in Students \ {s} : lease'[t] = lease[t]
    BY <1>0, <2>1, LeaseMoveRow
  <2>3. OpGoesTo(s, "free", NoRequest) /\ \A t \in Students \ {s} : op'[t] = op[t]
    BY <1>0, <2>1, OpFreeRow DEF Return
  <2>4. Idles(s)
    BY <1>1, <1>3, <2>1, <2>2, <2>3 DEF Idles, SameWorkers
  <2> QED BY <1>1, <1>2, <2>2, <2>3, <2>4 DEF StepOf, Outcome
<1>4. CASE Pending(s) # {} /\ AlreadyDeployed(s, a)
  <2>1. Continue(s, "run", i) /\ UNCHANGED <<lease, worker>>
    BY <1>2, <1>4 DEF DrainLocked
  <2>2. OpGoesTo(s, "run", i) /\ \A t \in Students \ {s} : op'[t] = op[t]
    BY <1>0, <2>1, OpMoveRow
  <2>3. Picks(s)
    BY <1>1, <1>4, <2>1, <2>2 DEF Picks, SameLease, SameWorkers
  <2> QED BY <1>1, <1>2, <2>1, <2>2, <2>3 DEF StepOf, Outcome
<1>5. CASE Pending(s) # {} /\ ~AlreadyDeployed(s, a)
  <2>1. /\ lease' = [lease EXCEPT ![s] = [lease[s] EXCEPT !.state = "DEPLOYING"]]
        /\ worker' = [worker EXCEPT ![b] = [worker[b] EXCEPT !.state = "DEPLOYING"]]
        /\ AwaitCall(s, "deploy", i, b, lease[s].lid, a)
    BY <1>2, <1>5 DEF DrainLocked
  <2>2. LeaseMoves(s, "DEPLOYING") /\ \A t \in Students \ {s} : lease'[t] = lease[t]
    BY <1>0, <2>1, LeaseMoveRow
  <2>3. WorkerBecomes(b, "DEPLOYING", worker[b].lid, worker[b].art)
    BY <1>0, <1>2, <2>1, WorkerMoveRow
  <2>4. /\ OpBecomes(s, "deploy", i, b, lease[s].lid, a, "pending")
        /\ \A t \in Students \ {s} : op'[t] = op[t]
    BY <1>0, <2>1, OpCallRow
  <2>5. Deploys(s)
    BY <1>1, <1>5, <2>2, <2>3, <2>4 DEF Deploys
  <2> QED BY <1>1, <1>2, <2>2, <2>4, <2>5 DEF StepOf, Outcome
<1> QED BY <1>3, <1>4, <1>5

\* Where an answer finds its board.
LEMMA AnswerFacts ==
  ASSUME OwnershipInvariant, NEW s \in Students, op[s].pc \in Awaiting
  PROVE  /\ central = "up" /\ lease \in [Students -> Lease] /\ op \in [Students -> Op]
         /\ worker \in [Boards -> Worker]
         /\ request \in [Students -> [Requests -> Request]]
         /\ op[s].board \in Boards /\ op[s].lid # NoLease
         /\ op[s].pc \in {"deploy", "predict"} => op[s].req \in Requests
  BY HolderIsUp DEF OwnershipInvariant, TypeOK, CoroutineHoldsLease, Awaiting

\* A coroutine that returns without having written anything.
LEMMA LeavesOutcome ==
  ASSUME OwnershipInvariant, NEW s \in Students, op' = [op EXCEPT ![s] = FreeOp],
         \/ op[s].pc \in {"reserve", "run"}
         \/ op[s].pc = "deploy" /\ ~DeployStillWanted(s)
         \/ op[s].pc = "predict" /\ ~(PredictStillWanted(s) /\ lease[s].state = "BUSY")
         \/ op[s].pc = "release" /\ ~ReleaseStillWanted(s),
         UNCHANGED <<lease, worker, request, leases, latest, artifacts, central, unchecked,
                     check, board, orphans>>
  PROVE  StepOf(s)
<1>1. OpGoesTo(s, "free", NoRequest) /\ \A t \in Students \ {s} : op'[t] = op[t]
  BY OpFreeRow DEF OwnershipInvariant, TypeOK
<1>2. Leaves(s)
  BY <1>1 DEF Leaves, SameLease, SameWorkers, SameRequest
<1>3. central = "up"
  BY HolderIsUp
<1> QED BY <1>1, <1>2, <1>3 DEF StepOf, Outcome

LEMMA DeploySucceededOutcome ==
  ASSUME OwnershipInvariant, NEW s \in Students, DeploySucceeded(s)
  PROVE  StepOf(s)
<1> DEFINE b == op[s].board
<1>0. /\ central = "up" /\ lease \in [Students -> Lease] /\ op \in [Students -> Op]
      /\ worker \in [Boards -> Worker] /\ b \in Boards
  BY AnswerFacts DEF DeploySucceeded, Awaiting
<1>1. /\ SameRequest(s) /\ op[s].pc = "deploy" /\ op[s].reply = "ok" /\ leases' = leases
      /\ UNCHANGED <<request, latest, artifacts, central, unchecked, check, board, orphans>>
  BY DEF DeploySucceeded, SameRequest, world
<1>2. CASE ~DeployStillWanted(s)
  BY <1>1, <1>2, LeavesOutcome DEF DeploySucceeded, Return
<1>3. CASE DeployStillWanted(s)
  <2>1. /\ lease' = [lease EXCEPT ![s] = [lease[s] EXCEPT !.state = "READY",
                                            !.art = op[s].art, !.idle = "active"]]
        /\ worker' = [worker EXCEPT ![b] = [worker[b] EXCEPT !.state = "READY",
                                                             !.art = op[s].art]]
        /\ Continue(s, "run", op[s].req)
    BY <1>3 DEF DeploySucceeded
  <2>2. lease[s] \in Lease /\ worker[b] \in Worker
    BY <1>0
  <2>3. /\ LeaseBecomes(s, "READY", lease[s].worker, lease[s].lid, op[s].art)
        /\ \A t \in Students \ {s} : lease'[t] = lease[t]
    BY <1>0, <2>1, <2>2 DEF Lease, LeaseBecomes
  <2>4. WorkerBecomes(b, "READY", worker[b].lid, op[s].art)
    BY <1>0, <2>1, <2>2 DEF Worker, WorkerBecomes
  <2>5. OpGoesTo(s, "run", op[s].req) /\ \A t \in Students \ {s} : op'[t] = op[t]
    BY <1>0, <2>1, OpMoveRow
  <2>6. Deployed(s)
    BY <1>1, <1>3, <2>3, <2>4, <2>5 DEF Deployed
  <2> QED BY <1>0, <1>1, <2>3, <2>5, <2>6 DEF StepOf, Outcome
<1> QED BY <1>2, <1>3

LEMMA DeployFailedOutcome ==
  ASSUME OwnershipInvariant, NEW s \in Students, DeployFailed(s)
  PROVE  StepOf(s)
<1> DEFINE b == op[s].board
<1>0. /\ central = "up" /\ lease \in [Students -> Lease] /\ op \in [Students -> Op]
      /\ worker \in [Boards -> Worker] /\ b \in Boards
  BY AnswerFacts DEF DeployFailed, Awaiting
<1>1. /\ SameRequest(s) /\ op[s].pc = "deploy" /\ op[s].reply = "error" /\ leases' = leases
      /\ UNCHANGED <<request, latest, artifacts, central, unchecked, check, board, orphans>>
      /\ op' = [op EXCEPT ![s] = FreeOp]
  BY DEF DeployFailed, SameRequest, world, Return
<1>2. CASE ~DeployStillWanted(s)
  BY <1>1, <1>2, LeavesOutcome DEF DeployFailed
<1>3. CASE DeployStillWanted(s)
  <2>1. QueueLease(s) /\ worker' = [worker EXCEPT ![b] = [worker[b] EXCEPT !.state = "ERROR"]]
    BY <1>3 DEF DeployFailed
  <2>2. /\ LeaseBecomes(s, "QUEUED", None, NoLease, NoArtifact)
        /\ \A t \in Students \ {s} : lease'[t] = lease[t]
    BY <1>0, <2>1, LeaseQueuedRow
  <2>3. WorkerBecomes(b, "ERROR", worker[b].lid, worker[b].art)
    BY <1>0, <2>1, WorkerMoveRow
  <2>4. OpGoesTo(s, "free", NoRequest) /\ \A t \in Students \ {s} : op'[t] = op[t]
    BY <1>0, <1>1, OpFreeRow
  <2>5. DeployLost(s)
    BY <1>1, <1>3, <2>2, <2>3, <2>4 DEF DeployLost
  <2> QED BY <1>0, <1>1, <2>2, <2>4, <2>5 DEF StepOf, Outcome
<1> QED BY <1>2, <1>3

LEMMA MarkRunningOutcome ==
  ASSUME OwnershipInvariant, NEW s \in Students, MarkRunning(s)
  PROVE  StepOf(s)
<1> DEFINE b == lease[s].worker
           i == op[s].req
<1>0. /\ lease \in [Students -> Lease] /\ op \in [Students -> Op] /\ i \in Requests
      /\ worker \in [Boards -> Worker] /\ request \in [Students -> [Requests -> Request]]
  BY DEF MarkRunning, OwnershipInvariant, TypeOK, CoroutineHoldsLease
<1>1. /\ op[s].pc = "run" /\ leases' = leases
      /\ UNCHANGED <<latest, artifacts, central, unchecked, check, board, orphans>>
  BY DEF MarkRunning, world
<1>2. central = "up" /\ b \in Boards
  BY <1>1, DrainsOwnBoard
<1>3. CASE ~MayRun(s)
  BY <1>1, <1>3, LeavesOutcome DEF MarkRunning, Return
<1>4. CASE MayRun(s)
  <2>1. /\ request' = WithRequest(s, i, [request[s][i] EXCEPT !.status = "RUNNING",
                                                              !.worker = b])
        /\ lease' = [lease EXCEPT ![s] = [lease[s] EXCEPT !.state = "BUSY", !.idle = "active"]]
        /\ worker' = [worker EXCEPT ![b] = [worker[b] EXCEPT !.state = "BUSY"]]
        /\ AwaitCall(s, "predict", i, b, lease[s].lid, request[s][i].art)
    BY <1>4 DEF MarkRunning
  <2>2. LeaseMoves(s, "BUSY") /\ \A t \in Students \ {s} : lease'[t] = lease[t]
    BY <1>0, <2>1, LeaseMoveRow
  <2>3. WorkerBecomes(b, "BUSY", worker[b].lid, worker[b].art)
    BY <1>0, <1>2, <2>1, WorkerMoveRow
  <2>4. /\ OpBecomes(s, "predict", i, b, lease[s].lid, request[s][i].art, "pending")
        /\ \A t \in Students \ {s} : op'[t] = op[t]
    BY <1>0, <2>1, OpCallRow
  <2>5. /\ RequestBecomes(s, i, "RUNNING", b, request[s][i].art)
        /\ \A t \in Students \ {s} : request'[t] = request[t]
    <3>1. request[s] \in [Requests -> Request] /\ request[s][i] \in Request
      BY <1>0
    <3> QED BY <1>0, <2>1, <3>1 DEF Request, WithRequest, RequestBecomes
  <2>6. Starts(s)
    BY <1>1, <1>4, <2>2, <2>3, <2>4, <2>5 DEF Starts
  <2> QED BY <1>1, <1>2, <2>2, <2>4, <2>5, <2>6 DEF StepOf, Outcome
<1> QED BY <1>3, <1>4

LEMMA PredictSucceededOutcome ==
  ASSUME OwnershipInvariant, NEW s \in Students, PredictSucceeded(s)
  PROVE  StepOf(s)
<1> DEFINE b == op[s].board
           i == op[s].req
<1>0. /\ central = "up" /\ lease \in [Students -> Lease] /\ op \in [Students -> Op]
      /\ worker \in [Boards -> Worker] /\ request \in [Students -> [Requests -> Request]]
      /\ b \in Boards /\ i \in Requests
  BY AnswerFacts DEF PredictSucceeded, Awaiting
<1>1. /\ op[s].pc = "predict" /\ op[s].reply = "ok" /\ leases' = leases
      /\ UNCHANGED <<latest, artifacts, central, unchecked, check, board, orphans>>
  BY DEF PredictSucceeded, world
<1>2. CASE ~(PredictStillWanted(s) /\ lease[s].state = "BUSY")
  BY <1>1, <1>2, LeavesOutcome DEF PredictSucceeded, Return
<1>3. CASE PredictStillWanted(s) /\ lease[s].state = "BUSY"
  <2>1. /\ request' = WithRequest(s, i, [request[s][i] EXCEPT !.status = "COMPLETED"])
        /\ lease' = [lease EXCEPT ![s] = [lease[s] EXCEPT !.state = "READY",
                                                          !.idle = "active"]]
        /\ worker' = [worker EXCEPT ![b] = [worker[b] EXCEPT !.state = "READY"]]
        /\ Continue(s, "drain", NoRequest)
    BY <1>3 DEF PredictSucceeded
  <2>2. LeaseMoves(s, "READY") /\ \A t \in Students \ {s} : lease'[t] = lease[t]
    BY <1>0, <2>1, LeaseMoveRow
  <2>3. WorkerBecomes(b, "READY", worker[b].lid, worker[b].art)
    BY <1>0, <2>1, WorkerMoveRow
  <2>4. OpGoesTo(s, "drain", NoRequest) /\ \A t \in Students \ {s} : op'[t] = op[t]
    BY <1>0, <2>1, OpMoveRow
  <2>5. /\ RequestBecomes(s, i, "COMPLETED", request[s][i].worker, request[s][i].art)
        /\ \A t \in Students \ {s} : request'[t] = request[t]
    BY <1>0, <2>1, RequestMoveRow
  <2>6. Completes(s)
    BY <1>1, <1>3, <2>2, <2>3, <2>4, <2>5 DEF Completes
  <2> QED BY <1>0, <1>1, <2>2, <2>4, <2>5, <2>6 DEF StepOf, Outcome
<1> QED BY <1>2, <1>3

LEMMA PredictFailedOutcome ==
  ASSUME OwnershipInvariant, NEW s \in Students, PredictFailed(s)
  PROVE  StepOf(s)
<1> DEFINE b == op[s].board
           i == op[s].req
<1>0. /\ central = "up" /\ lease \in [Students -> Lease] /\ op \in [Students -> Op]
      /\ worker \in [Boards -> Worker] /\ request \in [Students -> [Requests -> Request]]
      /\ b \in Boards /\ i \in Requests
  BY AnswerFacts DEF PredictFailed, Awaiting
<1>1. /\ op[s].pc = "predict" /\ op[s].reply = "error" /\ leases' = leases
      /\ UNCHANGED <<latest, artifacts, central, unchecked, check, board, orphans>>
      /\ op' = [op EXCEPT ![s] = FreeOp]
  BY DEF PredictFailed, world, Return
<1>2. CASE ~PredictStillWanted(s)
  BY <1>1, <1>2, LeavesOutcome DEF PredictFailed
<1>3. CASE PredictStillWanted(s)
  <2>1. /\ request' = WithRequest(s, i, [request[s][i] EXCEPT !.status = "FAILED"])
        /\ QueueLease(s)
        /\ worker' = [worker EXCEPT ![b] = [worker[b] EXCEPT !.state = "ERROR"]]
    BY <1>3 DEF PredictFailed
  <2>2. /\ LeaseBecomes(s, "QUEUED", None, NoLease, NoArtifact)
        /\ \A t \in Students \ {s} : lease'[t] = lease[t]
    BY <1>0, <2>1, LeaseQueuedRow
  <2>3. WorkerBecomes(b, "ERROR", worker[b].lid, worker[b].art)
    BY <1>0, <2>1, WorkerMoveRow
  <2>4. OpGoesTo(s, "free", NoRequest) /\ \A t \in Students \ {s} : op'[t] = op[t]
    BY <1>0, <1>1, OpFreeRow
  <2>5. /\ RequestBecomes(s, i, "FAILED", request[s][i].worker, request[s][i].art)
        /\ \A t \in Students \ {s} : request'[t] = request[t]
    BY <1>0, <2>1, RequestMoveRow
  <2>6. PredictLost(s)
    BY <1>1, <1>3, <2>2, <2>3, <2>4, <2>5 DEF PredictLost
  <2> QED BY <1>0, <1>1, <2>2, <2>4, <2>5, <2>6 DEF StepOf, Outcome
<1> QED BY <1>2, <1>3

LEMMA ReleaseSucceededOutcome ==
  ASSUME OwnershipInvariant, NEW s \in Students, ReleaseSucceeded(s)
  PROVE  StepOf(s)
<1> DEFINE b == op[s].board
<1>0. /\ central = "up" /\ lease \in [Students -> Lease] /\ op \in [Students -> Op]
      /\ worker \in [Boards -> Worker] /\ b \in Boards
  BY AnswerFacts DEF ReleaseSucceeded, Awaiting
<1>1. /\ SameRequest(s) /\ op[s].pc = "release" /\ op[s].reply = "ok" /\ leases' = leases
      /\ UNCHANGED <<request, latest, artifacts, central, unchecked, check, board, orphans>>
      /\ op' = [op EXCEPT ![s] = FreeOp]
  BY DEF ReleaseSucceeded, SameRequest, world
<1>2. CASE ~ReleaseStillWanted(s)
  BY <1>1, <1>2, LeavesOutcome DEF ReleaseSucceeded
<1>3. CASE ReleaseStillWanted(s)
  <2>1. /\ worker' = [worker EXCEPT ![b] = [state |-> "IDLE", lid |-> NoLease,
                                            art |-> NoArtifact]]
        /\ lease' = [lease EXCEPT ![s] = [lease[s] EXCEPT !.state = "UNASSIGNED",
                             !.worker = None, !.lid = NoLease, !.art = NoArtifact]]
    BY <1>3 DEF ReleaseSucceeded
  <2>2. lease[s] \in Lease
    BY <1>0
  <2>3. /\ LeaseBecomes(s, "UNASSIGNED", None, NoLease, NoArtifact)
        /\ \A t \in Students \ {s} : lease'[t] = lease[t]
    BY <1>0, <2>1, <2>2 DEF Lease, LeaseBecomes
  <2>4. WorkerBecomes(b, "IDLE", NoLease, NoArtifact)
    BY <1>0, <2>1 DEF WorkerBecomes
  <2>5. OpGoesTo(s, "free", NoRequest) /\ \A t \in Students \ {s} : op'[t] = op[t]
    BY <1>0, <1>1, OpFreeRow
  <2>6. Released(s)
    BY <1>1, <1>3, <2>3, <2>4, <2>5 DEF Released
  <2> QED BY <1>0, <1>1, <2>3, <2>5, <2>6 DEF StepOf, Outcome
<1> QED BY <1>2, <1>3

LEMMA ReleaseFailedOutcome ==
  ASSUME OwnershipInvariant, NEW s \in Students, ReleaseFailed(s)
  PROVE  StepOf(s)
<1> DEFINE b == op[s].board
<1>0. /\ central = "up" /\ lease \in [Students -> Lease] /\ op \in [Students -> Op]
      /\ worker \in [Boards -> Worker] /\ b \in Boards
  BY AnswerFacts DEF ReleaseFailed, Awaiting
<1>1. /\ SameRequest(s) /\ op[s].pc = "release" /\ op[s].reply = "error" /\ leases' = leases
      /\ UNCHANGED <<request, latest, artifacts, central, unchecked, check, board, orphans>>
      /\ op' = [op EXCEPT ![s] = FreeOp]
  BY DEF ReleaseFailed, SameRequest, world
<1>2. CASE ~StillOwned(s)
  BY <1>1, <1>2, LeavesOutcome DEF ReleaseFailed, ReleaseStillWanted
<1>3. CASE StillOwned(s)
  <2>1. /\ lease' = [lease EXCEPT ![s] = [lease[s] EXCEPT !.state = "ERROR"]]
        /\ worker' = [worker EXCEPT ![b] = [worker[b] EXCEPT !.state = "ERROR"]]
    BY <1>3 DEF ReleaseFailed
  <2>2. LeaseMoves(s, "ERROR") /\ \A t \in Students \ {s} : lease'[t] = lease[t]
    BY <1>0, <2>1, LeaseMoveRow
  <2>3. WorkerBecomes(b, "ERROR", worker[b].lid, worker[b].art)
    BY <1>0, <2>1, WorkerMoveRow
  <2>4. OpGoesTo(s, "free", NoRequest) /\ \A t \in Students \ {s} : op'[t] = op[t]
    BY <1>0, <1>1, OpFreeRow
  <2>5. ReleaseLost(s)
    BY <1>1, <1>3, <2>2, <2>3, <2>4 DEF ReleaseLost
  <2> QED BY <1>0, <1>1, <2>2, <2>4, <2>5 DEF StepOf, Outcome
<1> QED BY <1>2, <1>3

LEMMA CoroutineOutcome ==
  ASSUME OwnershipInvariant, NEW s \in Students, Coroutine(s)
  PROVE  StepOf(s)
  BY ProcessOutcome, ReserveOutcome, DrainOutcome, MarkRunningOutcome,
     DeploySucceededOutcome, DeployFailedOutcome, PredictSucceededOutcome,
     PredictFailedOutcome, ReleaseSucceededOutcome, ReleaseFailedOutcome
  DEF Coroutine

LEMMA SubmitOutcome ==
  ASSUME OwnershipInvariant, NEW s \in Students, SubmitPredict(s)
  PROVE  StepOf(s) /\ Submits(s)
<1>0. /\ central = "up" /\ op \in [Students -> Op] /\ op[s].pc = "free"
      /\ request \in [Students -> [Requests -> Request]] /\ latest[s] # NoArtifact
      /\ SameLease(s) /\ SameWorkers /\ leases' = leases /\ lease' = lease
      /\ UNCHANGED <<latest, artifacts, central, unchecked, check, board, orphans>>
  BY DEF SubmitPredict, EventLoopFree, LockFree, LatestArtifact, SameLease, SameWorkers,
         world, OwnershipInvariant, TypeOK
<1>1. OpGoesTo(s, "process", NoRequest) /\ \A t \in Students \ {s} : op'[t] = op[t]
  BY <1>0 DEF SubmitPredict, OpGoesTo, OpBecomes, FreeOp
<1>2. PICK i \in Requests :
        /\ request[s][i].status = "NONE"
        /\ \A j \in Requests : j < i => request[s][j].status # "NONE"
        /\ request' = WithRequest(s, i, [status |-> "QUEUED", art |-> latest[s],
                                         worker |-> None])
  BY DEF SubmitPredict, LatestArtifact
<1>3. /\ RequestBecomes(s, i, "QUEUED", None, latest[s])
      /\ \A t \in Students \ {s} : request'[t] = request[t]
  <2>1. request[s] \in [Requests -> Request]
    BY <1>0
  <2> QED BY <1>0, <1>2, <2>1 DEF WithRequest, RequestBecomes
<1>4. Submits(s)
  BY <1>0, <1>1, <1>2, <1>3 DEF Submits
<1> QED BY <1>0, <1>1, <1>3, <1>4 DEF StepOf, Outcome

LEMMA AllocatorHoldsOutcome ==
  ASSUME OwnershipInvariant, NEW s \in Students, AllocatorHolds(s), LockFree(s),
         central = "up",
         UNCHANGED <<database, central, unchecked, reaper, check, failures, world>>
  PROVE  StepOf(s)
<1>0. /\ op \in [Students -> Op] /\ op[s].pc = "free"
      /\ SameLease(s) /\ SameWorkers /\ SameRequest(s) /\ leases' = leases
      /\ lease' = lease /\ request' = request
      /\ UNCHANGED <<latest, artifacts, central, unchecked, check, board, orphans>>
  BY DEF LockFree, SameLease, SameWorkers, SameRequest, database, world,
         OwnershipInvariant, TypeOK
<1>1. OpGoesTo(s, "process", NoRequest) /\ \A t \in Students \ {s} : op'[t] = op[t]
  BY <1>0 DEF AllocatorHolds, OpGoesTo, OpBecomes, FreeOp
<1>2. Takes(s)
  BY <1>0, <1>1 DEF Takes
<1> QED BY <1>0, <1>1, <1>2 DEF StepOf, Outcome

LEMMA StartReleaseOutcome ==
  ASSUME OwnershipInvariant, NEW s \in Students, NEW by, StartRelease(s, by), LockFree(s),
         central = "up",
         UNCHANGED <<worker, request, latest, artifacts, leases, central, unchecked,
                     check, board, orphans>>
  PROVE  StepOf(s)
<1>0. /\ op \in [Students -> Op] /\ op[s].pc = "free" /\ lease \in [Students -> Lease]
      /\ SameWorkers /\ SameRequest(s) /\ MayRelease(s)
  BY DEF StartRelease, LockFree, SameWorkers, SameRequest, OwnershipInvariant, TypeOK
<1>1. LeaseMoves(s, "RELEASING") /\ \A t \in Students \ {s} : lease'[t] = lease[t]
  BY <1>0, LeaseMoveRow DEF StartRelease
<1>2. /\ OpBecomes(s, "release", NoRequest, lease[s].worker, lease[s].lid, NoArtifact,
                   "pending")
      /\ \A t \in Students \ {s} : op'[t] = op[t]
  BY <1>0 DEF StartRelease, OpBecomes
<1>3. Releases(s)
  BY <1>0, <1>1, <1>2 DEF Releases
<1> QED BY <1>1, <1>2, <1>3 DEF StepOf, Outcome

-----------------------------------------------------------------------------
(* What the steps of the others do.                                        *)

SameRows == \A t \in Students : LeaseKept(t) /\ SameRequest(t)

\* Time passes, an artifact arrives, a background task goes on: no row and no call moves.
Quiet ==
  /\ SameRows /\ SameWorkers
  /\ UNCHANGED <<leases, central, unchecked, op, check, board, orphans>>

\* reap_once queues lost leases with requests.
Reaps ==
  /\ \A t \in Students :
       \/ LeaseKept(t)
       \/ /\ lease[t].state \in {"LOST", "ERROR"} /\ Pending(t) # {}
          /\ LeaseBecomes(t, "QUEUED", None, NoLease, NoArtifact)
  /\ SameWorkers /\ EventLoopFree
  /\ UNCHANGED <<request, latest, leases, central, unchecked, op, check, board, orphans>>

FailsRunning(t) ==
  \A i \in Requests :
    IF request[t][i].status = "RUNNING"
    THEN /\ request'[t][i].status = "FAILED"
         /\ request'[t][i].worker = request[t][i].worker
         /\ request'[t][i].art = request[t][i].art
    ELSE request'[t][i] = request[t][i]

\* Recovery looks at every board, the monitor at a moment when nobody keeps the loop.
MayCheck(b) == (central = "recovering" /\ b \in unchecked) \/ EventLoopFree

\* A check of b ends; what it does to the rows of b and of b's lease.
Checked(b) ==
  /\ MayCheck(b) /\ unchecked' = unchecked \ {b}
  /\ check'[b].lid = NoLease /\ \A c \in Boards \ {b} : check'[c] = check[c]
  /\ UNCHANGED <<latest, leases, central, op, board, orphans>>

Spared(b) ==
  /\ Checked(b) /\ central = "up" /\ SameWorkers
  /\ UNCHANGED <<lease, request>>

Settles(b, s, x, y) ==
  /\ Checked(b) /\ IsLeaseOf(s, b) /\ (central = "up" => lease[s].state = "READY")
  /\ LeaseMoves(s, x) /\ WorkerBecomes(b, y, worker[b].lid, worker[b].art)
  /\ \A t \in Students \ {s} : lease'[t] = lease[t]
  /\ UNCHANGED request

Confirms(b, s) == Confirmed(s, b) /\ Settles(b, s, "READY", "READY")
Denies(b, s)   == ~Confirmed(s, b) /\ Settles(b, s, "LOST", "ERROR")

Clears(b) ==
  /\ Checked(b) /\ \A s \in Students : ~IsLeaseOf(s, b)
  /\ \/ check[b].lid # NoLease /\ WorkerBecomes(b, "ERROR", check[b].lid, check[b].art)
     \/ check[b].lid = NoLease /\ WorkerBecomes(b, "IDLE", NoLease, worker[b].art)
  /\ UNCHANGED <<lease, request>>

Offline(b) ==
  /\ Checked(b) /\ WorkerBecomes(b, "OFFLINE", worker[b].lid, worker[b].art)
  /\ \A t \in Students :
       IF IsLeaseOf(t, b) THEN LeaseMoves(t, "LOST") /\ FailsRunning(t)
       ELSE SameLease(t) /\ SameRequest(t)

\* A board answers /status.
Reports(b) ==
  /\ SameRows /\ SameWorkers
  /\ check'[b].lid = board[b].lid /\ check'[b].art = board[b].art
  /\ \A c \in Boards \ {b} : check'[c] = check[c]
  /\ UNCHANGED <<latest, leases, central, unchecked, op, board, orphans>>

\* A step of the boards or of the network.
Outside ==
  /\ UNCHANGED <<lease, worker, request, latest, leases, central, unchecked, check>>

\* The coroutine of t has got an answer, or waits on.
Answered(t, reply) ==
  OpBecomes(t, op[t].pc, op[t].req, op[t].board, op[t].lid, op[t].art, reply)

BoardBecomes(b, l, a, r) ==
  /\ board'[b].lid = l /\ board'[b].art = a /\ board'[b].ready = r
  /\ \A c \in Boards \ {b} : board'[c] = board[c]

\* What the call c does to its board.
Effect(c, ok) ==
  LET b == c.board IN
  \/ /\ board' = board
     /\ ok => c.kind = "predict" /\ board[b].lid = c.lid /\ board[b].ready
  \/ c.kind = "deploy" /\ MayDeploy(c) /\ ok /\ BoardBecomes(b, c.lid, c.art, TRUE)
  \/ /\ \/ c.kind = "deploy" /\ MayDeploy(c)
        \/ c.kind = "predict" /\ board[b].lid = c.lid
     /\ ~ok /\ BoardBecomes(b, board[b].lid, board[b].art, FALSE)
  \/ /\ c.kind = "release" /\ board[b].lid = c.lid /\ ok
     /\ BoardBecomes(b, NoLease, NoArtifact, FALSE)

Served(s) ==
  /\ Outside /\ op[s].reply = "pending" /\ UNCHANGED orphans
  /\ \E ok \in BOOLEAN : Effect(CallOf(s), ok) /\ Answered(s, IF ok THEN "ok" ELSE "error")
  /\ \A t \in Students \ {s} : op'[t] = op[t]

ServedLate ==
  /\ Outside /\ UNCHANGED op
  /\ \E c \in orphans : orphans' = orphans \ {c} /\ \E ok \in BOOLEAN : Effect(c, ok)

TimedOut(s) ==
  /\ Outside /\ UNCHANGED board /\ "timeout" \in Environment
  /\ op[s].reply \in {"pending", "ok"} /\ Answered(s, "error")
  /\ orphans' = IF op[s].reply = "pending" THEN orphans \cup {CallOf(s)} ELSE orphans
  /\ \A t \in Students \ {s} : op'[t] = op[t]

Restarted(b) ==
  /\ Outside /\ "board restart" \in Environment
  /\ BoardBecomes(b, NoLease, NoArtifact, FALSE)
  /\ \A s \in Students :
       IF op[s].board = b /\ op[s].reply = "pending" THEN Answered(s, "error")
       ELSE op'[s] = op[s]
  /\ orphans' = {c \in orphans : c.board # b}

\* Central dies, recovers its requests, and serves again.
Crashed ==
  /\ "crash" \in Environment /\ central # "down" /\ central' = "down" /\ unchecked' = {}
  /\ \A t \in Students : op'[t] = FreeOp /\ lease'[t] = lease[t] /\ SameRequest(t)
  /\ SameWorkers /\ leases' = leases /\ latest' = latest /\ UNCHANGED board
  /\ \A b \in Boards : check'[b].lid = NoLease
  /\ orphans' = orphans \cup {CallOf(s) : s \in {t \in Students : op[t].reply = "pending"}}

Recovers ==
  /\ central = "down" /\ central' = "recovering" /\ unchecked' = Boards
  /\ \A t \in Students :
       /\ FailsRunning(t)
       /\ IF RunningOf(t) # {} THEN LeaseMoves(t, "LOST") ELSE SameLease(t)
  /\ SameWorkers /\ UNCHANGED <<latest, leases, op, check, board, orphans>>

Serves ==
  /\ central = "recovering" /\ unchecked = {} /\ central' = "up" /\ unchecked' = unchecked
  /\ UNCHANGED <<lease, worker, request, latest, leases, op, check, board, orphans>>

LEMMA GrowIdleQuiet ==
  ASSUME OwnershipInvariant, NEW s \in Students, GrowIdle(s)
  PROVE  Quiet
<1>1. /\ lease \in [Students -> Lease] /\ lease[s] \in Lease
  BY DEF OwnershipInvariant, TypeOK
<1>2. \A t \in Students : LeaseKept(t)
  BY <1>1 DEF GrowIdle, Lease, LeaseKept, LeaseMoves, LeaseBecomes
<1> QED
  BY <1>2 DEF GrowIdle, Quiet, SameRows, SameRequest, SameWorkers, tasks, world

\* Nothing that the other modules of the proof look at has changed.
LEMMA NothingMoves ==
  UNCHANGED <<lease, worker, request, leases, central, unchecked, op, check, board, orphans>>
    => Quiet
  BY DEF Quiet, SameRows, SameRequest, SameWorkers, LeaseKept, LeaseMoves, LeaseBecomes

LEMMA AllocatorOutcome ==
  ASSUME OwnershipInvariant, AllocatorTask
  PROVE  Quiet \/ \E s \in Students : StepOf(s)
<1>1. ASSUME NEW s \in Students, AllocatorLocks(s) PROVE StepOf(s)
  BY <1>1, AllocatorHoldsOutcome DEF AllocatorLocks, EventLoopFree
<1>2. CASE AllocatorLoop
  <2>1. central = "up"
    BY <1>2 DEF AllocatorLoop, EventLoopFree, OwnershipInvariant, OnlyUpHasTasks,
                IdleAllocator
  <2>2. UNCHANGED <<database, central, unchecked, reaper, check, failures, world>>
    BY <1>2 DEF AllocatorLoop
  <2>3. ASSUME NEW s \in Students, LockFree(s), AllocatorHolds(s) PROVE StepOf(s)
    BY <2>1, <2>2, <2>3, AllocatorHoldsOutcome
  <2>4. CASE UNCHANGED op
    BY <2>2, <2>4, NothingMoves DEF database, world
  <2> QED BY <1>2, <2>3, <2>4 DEF AllocatorLoop
<1> QED BY <1>1, <1>2 DEF AllocatorTask

LEMMA ReleaseWorkerOutcome ==
  ASSUME OwnershipInvariant, NEW b \in Boards, ReleaseWorker(b)
  PROVE  \E s \in Students : StepOf(s)
  BY StartReleaseOutcome DEF ReleaseWorker, EventLoopFree, world

LEMMA ReapOnceOutcome ==
  ASSUME OwnershipInvariant, ReapOnce
  PROVE  Reaps
<1>1. \A t \in Students : lease[t] \in Lease
  BY DEF OwnershipInvariant, TypeOK
<1>2. lease' = [t \in Students |-> IF t \in Requeued THEN Queued(lease[t]) ELSE lease[t]]
  BY DEF ReapOnce
<1>3. ASSUME NEW t \in Students
      PROVE  \/ LeaseKept(t)
             \/ /\ lease[t].state \in {"LOST", "ERROR"} /\ Pending(t) # {}
                /\ LeaseBecomes(t, "QUEUED", None, NoLease, NoArtifact)
  <2>1. CASE t \in Requeued
    <3>1. lease[t] \in Lease /\ lease'[t] = Queued(lease[t])
      BY <1>1, <1>2, <2>1
    <3>2. LeaseBecomes(t, "QUEUED", None, NoLease, NoArtifact)
      BY <3>1 DEF Lease, Queued, LeaseBecomes
    <3> QED BY <2>1, <3>2 DEF Requeued, LostLeases
  <2>2. CASE t \notin Requeued
    BY <1>2, <2>2 DEF LeaseKept, LeaseMoves, LeaseBecomes
  <2> QED BY <2>1, <2>2
<1> QED BY <1>3 DEF ReapOnce, Reaps, SameWorkers, world

LEMMA ReaperOutcome ==
  ASSUME OwnershipInvariant, ReaperTask
  PROVE  Quiet \/ Reaps \/ \E s \in Students : StepOf(s)
<1>0. ASSUME reaper.pc # "sleep" PROVE central = "up"
  BY <1>0 DEF OwnershipInvariant, OnlyUpHasTasks, IdleReaper
<1>1. CASE ReapNext
  BY <1>1, NothingMoves DEF ReapNext, database, world
<1>2. ASSUME NEW s \in Students, ReapRelease(s)
      PROVE  Quiet \/ StepOf(s)
  <2>1. CASE UNCHANGED <<lease, op>>
    BY <1>2, <2>1, NothingMoves DEF ReapRelease, world
  <2>2. CASE LockFree(s) /\ StartRelease(s, "reaper")
    <3>1. central = "up"
      BY <1>0, <1>2 DEF ReapRelease, EventLoopFree
    <3> QED BY <1>2, <2>2, <3>1, StartReleaseOutcome DEF ReapRelease, world
  <2> QED BY <1>2, <2>1, <2>2 DEF ReapRelease
<1> QED BY <1>1, <1>2, ReapOnceOutcome DEF ReaperTask

LEMMA StatusOutcome ==
  ASSUME OwnershipInvariant, NEW b \in Boards, StatusAnswered(b)
  PROVE  Reports(b)
  BY DEF StatusAnswered, Reports, SameRows, SameWorkers, SameRequest, LeaseKept, LeaseMoves,
         LeaseBecomes, OwnershipInvariant, TypeOK, database, world

LEMMA CheckedFacts ==
  ASSUME OwnershipInvariant, NEW b \in Boards, CheckDone(b),
         Recovering(b) \/ Monitoring(b),
         UNCHANGED <<latest, leases, central, op, board, orphans>>
  PROVE  Checked(b)
  BY DEF CheckDone, Checked, MayCheck, Recovering, Monitoring, NoStatus,
         OwnershipInvariant, TypeOK

LEMMA ApplyOutcome ==
  ASSUME OwnershipInvariant, NEW b \in Boards, ApplyStatus(b)
  PROVE  \/ Spared(b) \/ Clears(b)
         \/ \E s \in Students : Confirms(b, s) \/ Denies(b, s)
<1>0. /\ lease \in [Students -> Lease] /\ worker \in [Boards -> Worker]
      /\ UNCHANGED request /\ central \in {"down", "recovering", "up"}
  BY DEF OwnershipInvariant, TypeOK, ApplyStatus
<1>1. Checked(b)
  BY CheckedFacts DEF ApplyStatus, world
<1>2. Recovering(b) => central # "up"
  BY DEF Recovering
<1>3. ASSUME NEW s \in Students, IsLeaseOf(s, b), InTransition(s), UNCHANGED <<lease, worker>>
      PROVE  Spared(b)
  BY <1>0, <1>1, <1>3 DEF Spared, SameWorkers, InTransition
<1>4. ASSUME NEW s \in Students, IsLeaseOf(s, b), ~InTransition(s), NEW x, NEW y,
             worker' = [worker EXCEPT ![b] = [worker[b] EXCEPT !.state = y]],
             lease' = [lease EXCEPT ![s] = [lease[s] EXCEPT !.state = x]]
      PROVE  Settles(b, s, x, y)
  <2>1. LeaseMoves(s, x) /\ \A t \in Students \ {s} : lease'[t] = lease[t]
    BY <1>0, <1>4, LeaseMoveRow
  <2>2. WorkerBecomes(b, y, worker[b].lid, worker[b].art)
    BY <1>0, <1>4, WorkerMoveRow
  <2> QED BY <1>0, <1>1, <1>4, <2>1, <2>2 DEF Settles, InTransition
<1>5. ASSUME NEW s \in Students, IsLeaseOf(s, b), ~InTransition(s), Confirmed(s, b),
             ~(Recovering(b) \/ worker[b].state = "OFFLINE"), UNCHANGED <<lease, worker>>
      PROVE  Spared(b)
  BY <1>0, <1>1, <1>5 DEF Spared, SameWorkers, ApplyStatus, Monitoring, EventLoopFree
<1>6. ASSUME \A s \in Students : ~IsLeaseOf(s, b), UNCHANGED lease,
             worker' = [worker EXCEPT ![b] = UnleasedRow(b)]
      PROVE  Clears(b)
  <2>1. worker[b] \in Worker /\ check[b] \in Status
    BY DEF OwnershipInvariant, TypeOK
  <2>2. \/ check[b].lid # NoLease /\ WorkerBecomes(b, "ERROR", check[b].lid, check[b].art)
        \/ check[b].lid = NoLease /\ WorkerBecomes(b, "IDLE", NoLease, worker[b].art)
    BY <1>0, <1>6, <2>1 DEF UnleasedRow, Worker, Status, WorkerBecomes
  <2> QED BY <1>0, <1>1, <1>6, <2>2 DEF Clears
<1>7. CASE \E s \in Students :
             /\ IsLeaseOf(s, b)
             /\ \/ InTransition(s) /\ UNCHANGED <<lease, worker>>
                \/ /\ ~InTransition(s) /\ Confirmed(s, b)
                   /\ IF Recovering(b) \/ worker[b].state = "OFFLINE"
                      THEN /\ worker' = [worker EXCEPT ![b] =
                                           [worker[b] EXCEPT !.state = "READY"]]
                           /\ lease' = [lease EXCEPT ![s] =
                                          [lease[s] EXCEPT !.state = "READY"]]
                      ELSE UNCHANGED <<lease, worker>>
                \/ /\ ~InTransition(s) /\ ~Confirmed(s, b)
                   /\ worker' = [worker EXCEPT ![b] = [worker[b] EXCEPT !.state = "ERROR"]]
                   /\ lease' = [lease EXCEPT ![s] = [lease[s] EXCEPT !.state = "LOST"]]
  BY <1>3, <1>4, <1>5, <1>7 DEF Confirms, Denies
<1> QED BY <1>6, <1>7 DEF ApplyStatus

LEMMA CheckFailsOutcome ==
  ASSUME OwnershipInvariant, NEW b \in Boards, CheckFails(b)
  PROVE  Spared(b) \/ Offline(b)
<1>0. /\ lease \in [Students -> Lease] /\ worker \in [Boards -> Worker]
      /\ request \in [Students -> [Requests -> Request]]
  BY DEF OwnershipInvariant, TypeOK
<1>1. Checked(b)
  BY CheckedFacts DEF CheckFails
<1>2. CASE Tolerated(b)
  BY <1>1, <1>2 DEF CheckFails, Tolerated, Spared, SameWorkers
<1>3. CASE ~Tolerated(b)
  <2>1. MarkOffline(b)
    BY <1>3 DEF CheckFails
  <2>2. WorkerBecomes(b, "OFFLINE", worker[b].lid, worker[b].art)
    BY <1>0, <2>1, WorkerMoveRow DEF MarkOffline
  <2>3. ASSUME NEW t \in Students
        PROVE  IF IsLeaseOf(t, b) THEN LeaseMoves(t, "LOST") /\ FailsRunning(t)
               ELSE SameLease(t) /\ SameRequest(t)
    <3>1. lease[t] \in Lease /\ request[t] \in [Requests -> Request]
      BY <1>0
    <3>2. CASE IsLeaseOf(t, b)
      <4>1. LeaseMoves(t, "LOST")
        BY <2>1, <3>1, <3>2 DEF MarkOffline, LeaseMoves, LeaseBecomes, Lease
      <4>2. FailsRunning(t)
        BY <2>1, <3>1, <3>2 DEF MarkOffline, FailsRunning, Request
      <4> QED BY <3>2, <4>1, <4>2
    <3>3. CASE ~IsLeaseOf(t, b)
      <4>1. SameLease(t)
        BY <2>1, <3>3 DEF MarkOffline, SameLease
      <4>2. request'[t] = [i \in Requests |-> request[t][i]]
        BY <2>1, <3>3 DEF MarkOffline
      <4>3. SameRequest(t)
        BY <3>1, <4>2 DEF SameRequest
      <4> QED BY <3>3, <4>1, <4>3
    <3> QED BY <3>2, <3>3
  <2> QED BY <1>1, <2>2, <2>3 DEF Offline
<1> QED BY <1>2, <1>3

LEMMA ServeCallEffect ==
  ASSUME OwnershipInvariant, NEW c \in Call, NEW ok \in BOOLEAN, ServeCall(c, ok)
  PROVE  Effect(c, ok)
<1> DEFINE b == c.board
<1>1. board \in [Boards -> Board] /\ b \in Boards /\ board[b] \in Board
  BY DEF OwnershipInvariant, TypeOK, Call
<1>2. ASSUME NEW l, NEW a, NEW r, board' = [board EXCEPT ![b] = [lid |-> l, art |-> a,
                                                                   ready |-> r]]
      PROVE  BoardBecomes(b, l, a, r)
  BY <1>1, <1>2 DEF BoardBecomes
<1>3. ASSUME board' = [board EXCEPT ![b] = [board[b] EXCEPT !.ready = FALSE]]
      PROVE  BoardBecomes(b, board[b].lid, board[b].art, FALSE)
  BY <1>1, <1>3 DEF BoardBecomes, Board
<1>4. CASE c.kind = "deploy" /\ ServeDeploy(c, ok)
  BY <1>2, <1>3, <1>4 DEF ServeDeploy, Effect
<1>5. CASE c.kind = "predict" /\ ServePredict(c, ok)
  BY <1>3, <1>5 DEF ServePredict, MayPredict, Effect
<1>6. CASE c.kind = "release" /\ ServeRelease(c, ok)
  BY <1>2, <1>6 DEF ServeRelease, Effect
<1> QED BY <1>4, <1>5, <1>6 DEF ServeCall

LEMMA AnswerRow ==
  ASSUME OwnershipInvariant, NEW s \in Students, NEW x,
         op' = [op EXCEPT ![s] = [op[s] EXCEPT !.reply = x]]
  PROVE  Answered(s, x) /\ \A t \in Students \ {s} : op'[t] = op[t]
<1>1. op \in [Students -> Op] /\ op[s] \in Op
  BY DEF OwnershipInvariant, TypeOK
<1> QED BY <1>1 DEF Op, Answered, OpBecomes

LEMMA ServeOutcome ==
  ASSUME OwnershipInvariant, NEW s \in Students, Serve(s)
  PROVE  Served(s)
<1>1. CallOf(s) \in Call
  BY CallOfType DEF Serve
<1>2. PICK ok \in BOOLEAN :
        /\ ServeCall(CallOf(s), ok)
        /\ op' = [op EXCEPT ![s] = [op[s] EXCEPT !.reply = IF ok THEN "ok" ELSE "error"]]
  BY DEF Serve
<1>3. Effect(CallOf(s), ok)
  BY <1>1, <1>2, ServeCallEffect
<1>4. /\ Answered(s, IF ok THEN "ok" ELSE "error")
      /\ \A t \in Students \ {s} : op'[t] = op[t]
  BY <1>2, AnswerRow
<1> QED BY <1>3, <1>4 DEF Serve, Served, Outside, database

LEMMA ServeOrphanOutcome ==
  ASSUME OwnershipInvariant, ServeOrphan
  PROVE  ServedLate
<1>1. PICK c \in orphans : /\ \E ok \in BOOLEAN : ServeCall(c, ok)
                           /\ orphans' = orphans \ {c}
  BY DEF ServeOrphan
<1>2. c \in Call
  BY DEF OwnershipInvariant, TypeOK
<1>3. \E ok \in BOOLEAN : Effect(c, ok)
  BY <1>1, <1>2, ServeCallEffect
<1> QED BY <1>1, <1>3 DEF ServeOrphan, ServedLate, Outside, database, tasks

LEMMA TimeOutOutcome ==
  ASSUME OwnershipInvariant, NEW s \in Students, TimeOut(s)
  PROVE  TimedOut(s)
<1>1. Answered(s, "error") /\ \A t \in Students \ {s} : op'[t] = op[t]
  BY AnswerRow DEF TimeOut
<1> QED BY <1>1 DEF TimeOut, TimedOut, Outside, Fault, database

LEMMA BoardRestartOutcome ==
  ASSUME OwnershipInvariant, NEW b \in Boards, BoardRestart(b)
  PROVE  Restarted(b)
<1>1. /\ board \in [Boards -> Board] /\ \A s \in Students : op[s] \in Op
  BY DEF OwnershipInvariant, TypeOK
<1>2. BoardBecomes(b, NoLease, NoArtifact, FALSE)
  BY <1>1 DEF BoardRestart, BoardBecomes
<1>3. ASSUME NEW s \in Students
      PROVE  IF op[s].board = b /\ op[s].reply = "pending" THEN Answered(s, "error")
             ELSE op'[s] = op[s]
  <2>1. op[s] \in Op
    BY <1>1
  <2> QED BY <2>1 DEF BoardRestart, Op, Answered, OpBecomes
<1> QED BY <1>2, <1>3 DEF BoardRestart, Restarted, Outside, Fault, database

LEMMA CrashOutcome ==
  ASSUME OwnershipInvariant, Crash
  PROVE  Crashed
  BY DEF Crash, Crashed, Fault, NoStatus, SameRequest, SameWorkers, database

LEMMA RecoverOutcome ==
  ASSUME OwnershipInvariant, RecoverRequests
  PROVE  Recovers
<1>1. ASSUME NEW t \in Students
      PROVE  /\ FailsRunning(t)
             /\ IF RunningOf(t) # {} THEN LeaseMoves(t, "LOST") ELSE SameLease(t)
  <2>1. lease[t] \in Lease /\ request[t] \in [Requests -> Request]
    BY DEF OwnershipInvariant, TypeOK
  <2>2. FailsRunning(t)
    BY <2>1 DEF RecoverRequests, FailsRunning, Request
  <2>3. IF RunningOf(t) # {} THEN LeaseMoves(t, "LOST") ELSE SameLease(t)
    BY <2>1 DEF RecoverRequests, Interrupted, LeaseMoves, LeaseBecomes, SameLease, Lease
  <2> QED BY <2>2, <2>3
<1> QED BY <1>1 DEF RecoverRequests, Recovers, SameWorkers, world

LEMMA StartServingOutcome ==
  ASSUME StartServing
  PROVE  Serves
  BY DEF StartServing, Serves, database, world

(* Every step of Central is one of these.                                  *)
LEMMA StepKinds ==
  ASSUME OwnershipInvariant, Next
  PROVE  \/ \E s \in Students : StepOf(s) \/ Served(s) \/ TimedOut(s)
         \/ \E b \in Boards : Reports(b) \/ Spared(b) \/ Clears(b) \/ Offline(b)
                              \/ Restarted(b)
         \/ \E b \in Boards, s \in Students : Confirms(b, s) \/ Denies(b, s)
         \/ Quiet \/ Reaps \/ ServedLate \/ Crashed \/ Recovers \/ Serves
<1>1. ASSUME NEW s \in Students, CreateArtifact(s) PROVE Quiet
  BY <1>1, NothingMoves DEF CreateArtifact, tasks, world
<1>2. ASSUME NEW s \in Students,
             \/ Coroutine(s) \/ CreateArtifact(s) \/ SubmitPredict(s)
             \/ GrowIdle(s) \/ Serve(s) \/ TimeOut(s)
      PROVE  StepOf(s) \/ Served(s) \/ TimedOut(s) \/ Quiet
  BY <1>1, <1>2, CoroutineOutcome, SubmitOutcome, GrowIdleQuiet, ServeOutcome,
     TimeOutOutcome
<1>3. ASSUME NEW b \in Boards,
             \/ CheckTask(b) \/ CheckFails(b) \/ ReleaseWorker(b) \/ BoardRestart(b)
      PROVE  \/ Reports(b) \/ Spared(b) \/ Clears(b) \/ Offline(b) \/ Restarted(b)
             \/ \E s \in Students : Confirms(b, s) \/ Denies(b, s) \/ StepOf(s)
  BY <1>3, StatusOutcome, ApplyOutcome, CheckFailsOutcome, ReleaseWorkerOutcome,
     BoardRestartOutcome DEF CheckTask
<1>4. CASE AllocatorTask \/ ReaperTask \/ Lifespan \/ ServeOrphan \/ Crash
  BY <1>4, AllocatorOutcome, ReaperOutcome, RecoverOutcome, StartServingOutcome,
     ServeOrphanOutcome, CrashOutcome DEF Lifespan
<1> QED BY <1>2, <1>3, <1>4 DEF Next
=============================================================================
