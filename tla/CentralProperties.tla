-------------------------- MODULE CentralProperties --------------------------
(***************************************************************************)
(* What must be true of Central: ownership of boards, the life of a        *)
(* request, and that work which was accepted is done in the end.           *)
(***************************************************************************)
EXTENDS Central

Active(s) == lease[s].state \in ActiveStates

(* A lease that is being used and its board agree, whatever happened to    *)
(* both: the worker row carries the lease's id, and no other student's     *)
(* lease in use names that board (lease_manager, scheduler, registry each  *)
(* write one or both rows).                                                *)
Ownership ==
  \A s \in Students : Active(s) =>
    /\ lease[s].worker \in Boards
    /\ worker[lease[s].worker].lid = lease[s].lid
    /\ \A t \in Students \ {s} : Active(t) => lease[t].worker # lease[s].worker

(* While Central is up no board stays reserved, deploying, ready or busy   *)
(* without a lease that uses it: such a board would never be given out     *)
(* again. The other way round an IDLE or OFFLINE board is in nobody's use. *)
NoLeakedBoard ==
  central = "up" =>
    \A b \in Boards :
      worker[b].state \in {"RESERVED", "DEPLOYING", "READY", "BUSY"}
        <=> \E s \in Students : Active(s) /\ lease[s].worker = b

(* While Central is up a lease in a transient state has the coroutine that *)
(* will take it out of it: none is left DEPLOYING, BUSY, RELEASING or      *)
(* RESERVED with nobody working on it. A READY lease is the opposite case: *)
(* nobody holds its student's lock across an await, so release_worker's    *)
(* snapshot cannot be stale when release_student looks again.              *)
TransientLeaseHasTask ==
  central = "up" =>
    \A s \in Students :
      /\ lease[s].state = "DEPLOYING" => op[s].pc = "deploy"
      /\ lease[s].state = "BUSY" => op[s].pc = "predict"
      /\ lease[s].state = "RELEASING" => op[s].pc = "release"
      /\ lease[s].state = "RESERVED" => op[s].pc = "drain"
      /\ lease[s].state = "READY" => op[s].pc \notin Awaiting

(* The rows of a lease in use and of its board move together: RESERVED,    *)
(* DEPLOYING and BUSY on both sides, and a board is READY while its lease  *)
(* is RELEASING (KV260_PYNQ_Framework.md, 8.5).                            *)
RowsInStep ==
  central = "up" =>
    \A s \in Students :
      /\ lease[s].state \in {"RESERVED", "DEPLOYING", "BUSY"} =>
           worker[lease[s].worker].state = lease[s].state
      /\ lease[s].state = "RELEASING" => worker[lease[s].worker].state = "READY"

(* A request is RUNNING exactly while its student's lease is BUSY, on the  *)
(* board the request names, and a student has at most one of them: losing  *)
(* the board fails the request in the same transaction.                    *)
RunningIffBusy ==
  \A s \in Students :
    /\ (lease[s].state = "BUSY") <=> (RunningOf(s) # {})
    /\ \A i, j \in RunningOf(s) : i = j
    /\ \A i \in RunningOf(s) : request[s][i].worker = lease[s].worker

(* A board is never taken back from a student with work: while a lease is  *)
(* RELEASING its student has nothing QUEUED or RUNNING (release_locked's   *)
(* check and its release call are far apart in time).                      *)
ReleasingHasNoWork ==
  \A s \in Students :
    lease[s].state = "RELEASING" => Pending(s) \cup RunningOf(s) = {}

(* As long as neither Central nor a board restarts, a READY lease means    *)
(* that the board really holds this lease, its artifact and a loaded       *)
(* overlay, in spite of timeouts, late calls and FPGA errors.              *)
ReadyIsReal ==
  \A s \in Students :
    (lease[s].state = "READY" /\ lease[s].art # NoArtifact) =>
       board[lease[s].worker] = [lid |-> lease[s].lid, art |-> lease[s].art, ready |-> TRUE]

\* A board could be given out now.
Available(b) == worker[b].state = "IDLE" /\ worker[b].lid = NoLease
BoardToGive  == leases < MaxLeases /\ \E b \in Boards : Available(b)

\* s waits beside such a board, and neither his own coroutine nor the allocator is about
\* to look, nor will the allocator be woken.
Stranded(s) ==
  /\ central = "up" /\ BoardToGive
  /\ lease[s].state = "QUEUED" /\ op[s].pc \notin {"process", "reserve"}
  /\ ~event /\ allocator.pc = "wait"

\* A check of a board ends, and makes it available.
MonitorFrees ==
  \E b \in Boards : check[b].open /\ ~check'[b].open /\ ~Available(b) /\ Available(b)'

(* No wake-up of the allocator is lost but the one that the monitor does   *)
(* not send: whatever else happens, nobody comes to wait beside an idle    *)
(* board with allocator_event clear and the allocator asleep (it clears    *)
(* the event before it looks, may wait for a lock and goes back to sleep   *)
(* after a student it could not serve).                                    *)
OnlyMonitorStrands ==
  [][\A s \in Students : ~Stranded(s) /\ Stranded(s)' => MonitorFrees]_vars

(* A board that runs a predict request has an artifact loaded that a       *)
(* request of this student was bound to, whatever restarts and however     *)
(* late calls arrive: never that of another student who had the board.     *)
PredictsOnOwnArtifact ==
  [][\A s \in Students :
       (op[s].pc = "predict" /\ op[s].reply = "pending" /\ op'[s].reply = "ok")
         => \E i \in Requests : /\ request[s][i].status # "NONE"
                                /\ request[s][i].art = board[op[s].board].art]_vars

(* A board that runs a predict request has the artifact loaded that this   *)
(* very request was bound to when it was submitted. So it is as long as    *)
(* Central does not restart; with a restart it is not: a deployment that   *)
(* the dead process sent may arrive after one of the process that follows, *)
(* and both carry the id of the lease that lived on.                       *)
PredictsOnItsArtifact ==
  [][\A s \in Students :
       (op[s].pc = "predict" /\ op[s].reply = "pending" /\ op'[s].reply = "ok")
         => board[op[s].board].art = op[s].art]_vars

(* Boards as a pool: see BoardPool. A board in use belongs to the student  *)
(* of the lease in use that names it.                                      *)
OwnerOf(b) ==
  IF \E s \in Students : Active(s) /\ lease[s].worker = b
  THEN CHOOSE s \in Students : Active(s) /\ lease[s].worker = b
  ELSE None
Pool == INSTANCE BoardPool WITH owner <- [b \in Boards |-> OwnerOf(b)]

(* No board passes from one student to the next without having been free,  *)
(* and nobody holds two: Central implements BoardPool.                     *)
ImplementsBoardPool == Pool!PoolSpec

Service == INSTANCE RequestService WITH
  status <- [s \in Students |-> [i \in Requests |-> request[s][i].status]],
  bound  <- [s \in Students |-> [i \in Requests |-> request[s][i].art]]

(* One request of a student at a time, in order, each run at most once and *)
(* never replayed, across crashes too: Central implements RequestService.  *)
ImplementsRequestService == Service!ServiceSpec

Use == INSTANCE ArtifactUse WITH
  Ids <- 1 .. MaxArtifacts, newest <- latest,
  bound <- [s \in Students |-> {request[s][i].art : i \in Pending(s) \cup RunningOf(s)}],
  held <- [s \in Students |-> lease[s].art], shown <- [b \in Boards |-> worker[b].art]

(* Central uses artifacts as artifact cleanup reckons with it: a request   *)
(* is bound to the newest one at its submission, a deployment puts only    *)
(* the artifact of an unfinished request into use, in both rows at once,   *)
(* and whatever else happens, uses only end: see ArtifactUse.              *)
ImplementsArtifactUse == Use!UseSpec

LeasedBoard(b) == INSTANCE LeasedBoard WITH
  Nothing <- NoLease, lid <- board[b].lid, art <- board[b].art, ready <- board[b].ready

(* The boards as Central's model has them are boards of the same kind as   *)
(* the Worker in detail: see LeasedBoard and WorkerProperties.             *)
ImplementsLeasedBoards ==
  /\ \A b \in Boards : LeasedBoard(b)!BoardInit
  /\ [][\A b \in Boards : LeasedBoard(b)!BoardNext \/ UNCHANGED board[b]]_board

(* Nothing is forgotten: a request that was accepted ends, COMPLETED or    *)
(* FAILED, without the student asking again.                               *)
EveryRequestEnds ==
  \A s \in Students, i \in Requests :
    request[s][i].status = "QUEUED" ~> request[s][i].status \in {"COMPLETED", "FAILED"}

(* An IDLE board and a waiting student do not stay side by side: the       *)
(* allocator is told of every board that becomes free.                     *)
IdleBoardIsGivenOut ==
  (QueuedStudents # {} /\ \E b \in Boards : worker[b].state = "IDLE")
    ~> (QueuedStudents = {} \/ \A b \in Boards : worker[b].state # "IDLE")

(* Nobody keeps a board for nothing: a READY lease without work is         *)
(* released after its idle timeout, without the student's doing.           *)
IdleLeaseIsReleased ==
  \A s \in Students :
    (lease[s].state = "READY" /\ Pending(s) = {})
      ~> (lease[s].state # "READY" \/ Pending(s) # {})

(* A failure does not take a board out of service for good: once a board   *)
(* in ERROR or OFFLINE is free and answers, the monitor makes it IDLE.     *)
FreeBoardRecovers ==
  \A b \in Boards :
    (worker[b].state \in {"ERROR", "OFFLINE"} /\ board[b].lid = NoLease)
      ~> (worker[b].state \notin {"ERROR", "OFFLINE"} \/ board[b].lid # NoLease)

-----------------------------------------------------------------------------
(* What the documentation says and the code does not keep.                 *)

(* A student who holds a READY lease has queued requests executed without  *)
(* having to submit again.                                                 *)
ReadyLeaseServesItsQueue ==
  \A s \in Students :
    (lease[s].state = "READY" /\ Pending(s) # {})
      ~> (lease[s].state # "READY" \/ Pending(s) = {})

(* The monitor takes a READY lease away only when its board does not hold  *)
(* the lease: an old answer must not undo what happened since.             *)
MonitorSparesLiveLeases ==
  [][\A s \in Students :
       (lease[s].state = "READY" /\ lease'[s].state = "LOST" /\ faults' = faults)
         => board[lease[s].worker] # [lid |-> lease[s].lid, art |-> lease[s].art,
                                      ready |-> TRUE]]_vars

(* The reaper releases a lease only when it has been idle for at least the *)
(* reclaim grace.                                                          *)
ReclaimsOnlyIdleLeases ==
  [][\A s \in Students :
       (lease'[s].state = "RELEASING" /\ lease[s].state = "READY" /\ op'[s].by = "reaper")
         => lease[s].idle # "active"]_vars
=============================================================================
