-------------------------- MODULE WorkerProperties --------------------------
(***************************************************************************)
(* What must be true of a Worker process: its buffers, what /status says,  *)
(* what a prediction ran on, and that every caller gets an answer.         *)
(***************************************************************************)
EXTENDS WorkerRuntime

\* The Worker's lock is held by a handler that has begun its work.
InService == \E c \in Callers : call[c].pc \in Stages

(* No CMA buffer is lost track of: what the driver has given out is what   *)
(* the process refers to plus what it has tried in vain to free, however   *)
(* loads, predictions and releases fail halfway (fpga.py).                 *)
BuffersAccountedFor ==
  cma = Cardinality(held) + Cardinality(fresh) + leaked

(* Nobody's board holds nothing: while no lease owns the board and no      *)
(* handler is at work there is no overlay and no buffer, though the        *)
(* deployment of a lease may have failed at any of its steps.              *)
FreeBoardHoldsNothing ==
  (lid = None /\ ~InService) => overlay = None /\ held \cup fresh = {}

(* A ready board can predict: its lease's artifact is bound with both      *)
(* buffers. The one exception is a release whose buffers could not be      *)
(* freed (fpga.py:113), which leaves ready set over a cleared runtime.     *)
ReadyIsLoaded ==
  (ready /\ ~InService) =>
    \/ overlay = art /\ fabric = art /\ held = Buffers
    \/ overlay = None /\ held = {} /\ leaked > 0

(* /status takes no lock and never mixes two deployments: lease and        *)
(* artifact come and go together, a board is ready only for a lease, and   *)
(* never between the first and the last step of a deployment.              *)
StatusIsWhole ==
  /\ lid = None <=> art = None
  /\ ready => lid # None
  /\ ready => \A c \in Callers :
       call[c].pc \notin {"clear", "program", "x", "y", "bind", "deployed"}

(* A prediction is answered only with the result of the overlay that was   *)
(* deployed for the caller's own lease, whatever calls of other leases,    *)
(* failed loads and releases came before it.                               *)
PredictsOnItsOverlay ==
  [][\A c \in Callers :
       (call[c].pc = "predict" /\ call'[c].answer = "ok")
         => lid = call[c].lid /\ overlay = art /\ fabric = art /\ held = Buffers]_vars

LeasedBoard == INSTANCE LeasedBoard WITH Nothing <- None

(* The Worker's many steps amount to the board that Central counts on: see *)
(* LeasedBoard.                                                            *)
ImplementsLeasedBoard == LeasedBoard!BoardSpec

(* Nobody waits for ever: whoever has called is answered, in whatever way, *)
(* unless a DMA transfer hangs, which holds the lock until a restart.      *)
EveryCallIsAnswered ==
  \A c \in Callers :
    call[c].pc # "idle" ~> (call[c].pc = "idle" \/ \E d \in Callers : call[d].pc = "hung")
=============================================================================
