----------------------------- MODULE WorkerBoard -----------------------------
(***************************************************************************)
(* worker/app/state.py as Central meets it: a board holds at most one      *)
(* lease, one artifact and a ready flag, and serves one call at a time     *)
(* under its lock. A call is served after Central has given up on it too:  *)
(* a timeout at Central does not stop the Worker's handler.                *)
(***************************************************************************)
EXTENDS CentralState

CallOf(s) == [kind |-> op[s].pc, board |-> op[s].board, lid |-> op[s].lid,
              art |-> op[s].art]

\* Mistaken form of MayDeploy: the board does not look at who holds it.
MayDeployAnyway(c) == board[c.board].lid \in {NoLease} \cup Nat

\* A deployment is for the holder of the board or for a free board.
MayDeploy(c) == board[c.board].lid \in {NoLease, c.lid}

\* WorkerState.deploy. When the overlay cannot be loaded the board is not ready and
\* keeps whatever lease and artifact it had.
ServeDeploy(c, ok) ==
  LET b == c.board IN
  \/ /\ ~MayDeploy(c) /\ ~ok
     /\ UNCHANGED <<board, faults>>
  \/ /\ MayDeploy(c) /\ ok
     /\ board' = [board EXCEPT ![b] = [lid |-> c.lid, art |-> c.art, ready |-> TRUE]]
     /\ UNCHANGED faults
  \/ /\ MayDeploy(c) /\ ~ok /\ Fault("fpga")
     /\ board' = [board EXCEPT ![b] = [board[b] EXCEPT !.ready = FALSE]]

\* Mistaken form of MayPredict: any loaded overlay will do.
MayPredictLoaded(c) == board[c.board].ready

\* A prediction is for the holder of the board and needs a loaded overlay.
MayPredict(c) == board[c.board].lid = c.lid /\ board[c.board].ready

\* WorkerState.predict: a bad image leaves the overlay ready, an FPGA error does not.
ServePredict(c, ok) ==
  LET b == c.board IN
  \/ /\ ok = MayPredict(c)
     /\ UNCHANGED <<board, faults>>
  \/ /\ MayPredict(c) /\ ~ok /\ Fault("fpga")
     /\ \/ UNCHANGED board
        \/ board' = [board EXCEPT ![b] = [board[b] EXCEPT !.ready = FALSE]]

\* WorkerState.release: the lease is dropped after the backend has freed its buffers.
ServeRelease(c, ok) ==
  LET b == c.board
      mine == board[b].lid = c.lid
  IN
  \/ /\ ~mine /\ ~ok
     /\ UNCHANGED <<board, faults>>
  \/ /\ mine /\ ok
     /\ board' = [board EXCEPT ![b] = [lid |-> NoLease, art |-> NoArtifact,
                                       ready |-> FALSE]]
     /\ UNCHANGED faults
  \/ /\ mine /\ ~ok /\ Fault("fpga")
     /\ UNCHANGED board

ServeCall(c, ok) ==
  \/ c.kind = "deploy" /\ ServeDeploy(c, ok)
  \/ c.kind = "predict" /\ ServePredict(c, ok)
  \/ c.kind = "release" /\ ServeRelease(c, ok)

\* The board serves the call that the holder of s's lock awaits.
Serve(s) ==
  /\ op[s].reply = "pending"
  /\ \E ok \in BOOLEAN :
       /\ ServeCall(CallOf(s), ok)
       /\ op' = [op EXCEPT ![s] = [op[s] EXCEPT !.reply = IF ok THEN "ok" ELSE "error"]]
  /\ UNCHANGED <<database, central, unchecked, event, allocator, reaper, check,
                 failures, orphans>>

\* The board serves a call that Central no longer waits for.
ServeOrphan ==
  /\ \E c \in orphans : /\ \E ok \in BOOLEAN : ServeCall(c, ok)
                        /\ orphans' = orphans \ {c}
  /\ UNCHANGED <<database, tasks>>

\* The client gives up: the call may still arrive, or its answer is lost.
TimeOut(s) ==
  /\ op[s].reply \in {"pending", "ok"}
  /\ Fault("timeout")
  /\ op' = [op EXCEPT ![s] = [op[s] EXCEPT !.reply = "error"]]
  /\ orphans' = IF op[s].reply = "pending" THEN orphans \cup {CallOf(s)} ELSE orphans
  /\ UNCHANGED <<database, central, unchecked, event, allocator, reaper, check,
                 failures, board>>

\* The worker process restarts with an empty state, and its connections with it.
BoardRestart(b) ==
  /\ Fault("board restart")
  /\ board' = [board EXCEPT ![b] = [lid |-> NoLease, art |-> NoArtifact, ready |-> FALSE]]
  /\ op' = [s \in Students |-> IF op[s].board = b /\ op[s].reply = "pending"
                               THEN [op[s] EXCEPT !.reply = "error"] ELSE op[s]]
  /\ orphans' = {c \in orphans : c.board # b}
  /\ UNCHANGED <<database, central, unchecked, event, allocator, reaper, check, failures>>
=============================================================================
