-------------------------- MODULE CentralInvariant --------------------------
(***************************************************************************)
(* The inductive invariant behind TypeOK and Ownership. Ownership alone is *)
(* not inductive: that two leases in use have different boards follows     *)
(* from lease ids being unique, and that a lease and its board still agree *)
(* when a coroutine writes both rows follows from what the coroutine has   *)
(* seen before it awaited.                                                 *)
(***************************************************************************)
EXTENDS CentralProperties

\* No lease id is in use anywhere that has not been drawn.
LidsAreDrawn ==
  /\ \A s \in Students : lease[s].lid <= leases /\ op[s].lid <= leases
  /\ \A b \in Boards : worker[b].lid <= leases /\ check[b].lid <= leases
                       /\ board[b].lid <= leases
  /\ \A c \in orphans : c.lid <= leases

\* Two students never carry the same lease id.
LidsAreUnique ==
  \A s, t \in Students : lease[s].lid = lease[t].lid => s = t \/ lease[s].lid = NoLease

\* A lease in use has an id and a board whose row carries that id.
LeaseOwnsBoard ==
  \A s \in Students : Active(s) =>
    /\ lease[s].lid # NoLease /\ lease[s].worker \in Boards
    /\ worker[lease[s].worker].lid = lease[s].lid

\* A student who waits or has no lease holds no id.
WaitingIsBare ==
  \A s \in Students : lease[s].state \in {"QUEUED", "UNASSIGNED"} => lease[s].lid = NoLease

\* A coroutine that drains has a lease in use, and a request once it has picked one; one
\* that awaits a board has called a real board for a real lease, and only such a one has
\* an answer to wait for.
CoroutineHoldsLease ==
  \A s \in Students :
    /\ op[s].pc \in {"drain", "run"} => Active(s)
    /\ op[s].pc \in {"deploy", "run", "predict"} => op[s].req \in Requests
    /\ op[s].pc \in Awaiting => op[s].board \in Boards /\ op[s].lid # NoLease
    /\ op[s].reply # "none" => op[s].pc \in Awaiting

\* Only a Central that is up has coroutines and background tasks.
OnlyUpHasTasks ==
  central # "up" =>
    /\ \A s \in Students : op[s] = FreeOp
    /\ allocator = IdleAllocator /\ reaper = IdleReaper

(* The conjunction that every step preserves: what the rows and the calls  *)
(* in flight must satisfy for lease_manager.py, scheduler.py and           *)
(* worker_registry.py to keep leases and boards in agreement.              *)
OwnershipInvariant ==
  /\ TypeOK
  /\ LidsAreDrawn
  /\ LidsAreUnique
  /\ LeaseOwnsBoard
  /\ WaitingIsBare
  /\ CoroutineHoldsLease
  /\ OnlyUpHasTasks
=============================================================================
