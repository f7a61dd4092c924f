------------------------ MODULE CoordinationInvariant ------------------------
(***************************************************************************)
(* The inductive invariant behind TransientLeaseHasTask, RunningIffBusy,   *)
(* ReleasingHasNoWork, NoLeakedBoard and RowsInStep: what the coroutine of *)
(* a student, his lease, his requests and the row of his board know of     *)
(* each other between any two transactions of Central.                     *)
(***************************************************************************)
EXTENDS CentralInvariant

\* Lease states in which no call to a board is under way.
Settled == {"UNASSIGNED", "QUEUED", "READY", "ERROR", "LOST"}
\* What has become of a lease that was lost, and perhaps reaped, during a call.
Taken   == {"LOST", "QUEUED"}
\* States of a board that some lease uses.
InUse   == {"RESERVED", "DEPLOYING", "READY", "BUSY"}
Ended   == {"COMPLETED", "FAILED"}

\* While Central is up, where the holder of the lock stands tells the state of the lease;
\* others may only have taken the lease away from one that awaits a board.
LeaseFitsCoroutine(s) ==
  central = "up" =>
    /\ op[s].pc \in {"free", "process", "reserve"} => lease[s].state \in Settled
    /\ op[s].pc = "drain" => lease[s].state \in {"RESERVED", "READY"}
    /\ op[s].pc = "run" => lease[s].state = "READY"
    /\ op[s].pc = "deploy" => lease[s].state \in {"DEPLOYING"} \cup Taken
    /\ op[s].pc = "predict" => lease[s].state \in {"BUSY"} \cup Taken
    /\ op[s].pc = "release" => lease[s].state \in {"RELEASING"} \cup Taken

\* Unless the lease was taken away, a call was made for it and for its board.
HolderKnowsLease(s) ==
  op[s].pc \in Awaiting /\ Active(s) =>
    lease[s].lid = op[s].lid /\ lease[s].worker = op[s].board

\* Requests against the lease: RUNNING while it is BUSY, nothing while it is RELEASING.
RequestsFitLease(s) ==
  /\ lease[s].state = "BUSY" <=> RunningOf(s) # {}
  /\ \A i, j \in RunningOf(s) : i = j
  /\ \A i \in RunningOf(s) : request[s][i].worker = lease[s].worker
  /\ op[s].pc = "predict" /\ lease[s].state = "BUSY" => op[s].req \in RunningOf(s)
  /\ lease[s].state = "RELEASING" => Pending(s) \cup RunningOf(s) = {}

\* The rows of a lease in use and of its board, as RowsInStep has it.
RowsFit(s) ==
  central = "up" =>
    /\ lease[s].state \in {"RESERVED", "DEPLOYING", "BUSY"} =>
         worker[lease[s].worker].state = lease[s].state
    /\ lease[s].state = "RELEASING" => worker[lease[s].worker].state = "READY"

StudentFits(s) ==
  LeaseFitsCoroutine(s) /\ HolderKnowsLease(s) /\ RequestsFitLease(s) /\ RowsFit(s)

\* A board that recovery has been through is in use exactly when a lease uses it.
BoardFits(b) ==
  central # "down" /\ b \notin unchecked =>
    (worker[b].state \in InUse <=> \E s \in Students : Active(s) /\ lease[s].worker = b)

\* What the lifespan has settled: nothing is BUSY after recover_requests, and of the
\* leases in use only those on boards still to be checked are in transition.
RecoverySettles ==
  /\ central # "recovering" => unchecked = {}
  /\ central = "recovering" =>
       \A s \in Students :
         /\ lease[s].state # "BUSY"
         /\ Active(s) => lease[s].state = "READY" \/ lease[s].worker \in unchecked

\* Lease id l appears in connection with board b: in its row, in what it reports or
\* holds, in a lease, or in a call that is or may be on its way to it.
LidOnBoard(l, b) ==
  /\ l # NoLease
  /\ \/ worker[b].lid = l \/ check[b].lid = l \/ board[b].lid = l
     \/ \E s \in Students : lease[s].lid = l /\ lease[s].worker = b
     \/ \E s \in Students : op[s].lid = l /\ op[s].board = b
     \/ \E c \in orphans : c.lid = l /\ c.board = b

(* A lease id is for one board, wherever it turns up and however late: so  *)
(* what _check_worker and _mark_offline look up by the id in a board's row *)
(* is never the lease of another board.                                    *)
LidsNameOneBoard ==
  \A b, c \in Boards, l \in 0 .. leases : LidOnBoard(l, b) /\ LidOnBoard(l, c) => b = c

(* The conjunction that every step preserves, on top of                    *)
(* OwnershipInvariant: coroutines, leases, requests and boards of          *)
(* lease_manager.py and worker_registry.py move together.                  *)
CoordinationInvariant ==
  /\ \A s \in Students : StudentFits(s)
  /\ \A b \in Boards : BoardFits(b)
  /\ RecoverySettles
  /\ LidsNameOneBoard
=============================================================================
