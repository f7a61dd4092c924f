-------------------------- MODULE AllocatorInvariant --------------------------
(***************************************************************************)
(* The inductive invariant behind OnlyMonitorStrands: the order of the     *)
(* queue, on whose behalf coroutines run, and what allocator_event has     *)
(* been set for while the allocator is at work or waits for a lock.        *)
(***************************************************************************)
EXTENDS OverlayInvariant

\* Whoever is ahead of s waits himself, and so do those ahead of him.
QueueIsOrdered ==
  \A s \in Students : \A t \in ahead[s] :
    t # s /\ t \in QueuedStudents /\ ahead[t] \subseteq ahead[s]

\* The request that the submission of s has just made.
LastAccepted(s) == Cardinality(Accepted(s))

\* Looking for a board is done for a submission, whose own request waits, or for the
\* allocator.
LooksForSomebody(s) ==
  /\ op[s].by = "allocator" => allocator.pc = "run" /\ allocator.student = s
  /\ op[s].pc \in {"process", "reserve"} =>
       \/ op[s].by = "allocator"
       \/ op[s].by = "submit" /\ LastAccepted(s) \in Pending(s)

\* The allocator found s QUEUED. If s is not the first to be served any more, or has been
\* served and waits again, the event is set.
AllocatorKnowsQueue(s) ==
  op[s].by = "allocator" /\ allocator.queued =>
    IF op[s].pc \in {"process", "reserve"}
    THEN lease[s].state = "QUEUED" /\ (event \/ OldestQueued(s))
    ELSE lease[s].state = "QUEUED" => event

\* While the allocator waits for the lock of s, s may be served, lose the board again and
\* go to the end of the queue.
LockedOutKnowsQueue(s) ==
  allocator.pc = "lock" /\ allocator.student = s /\ lease[s].state = "QUEUED" =>
    event \/ OldestQueued(s) \/ (op[s].pc = "reserve" /\ op[s].by = "submit")

(* The conjunction that every step preserves, on top of the other          *)
(* invariants of Central: what _allocator_loop, submit_predict and         *)
(* everything that sets allocator_event rely on together.                  *)
AllocatorInvariant ==
  /\ QueueIsOrdered
  /\ \A s \in Students :
       LooksForSomebody(s) /\ AllocatorKnowsQueue(s) /\ LockedOutKnowsQueue(s)
=============================================================================
