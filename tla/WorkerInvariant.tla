--------------------------- MODULE WorkerInvariant ---------------------------
(***************************************************************************)
(* The inductive invariant behind the safety properties of the Worker.     *)
(* They speak of the moments when no handler is at work; what a handler    *)
(* has done so far at each of its stages carries them from one such moment *)
(* to the next.                                                            *)
(***************************************************************************)
EXTENDS WorkerProperties

\* Only the holder of the lock is past "waiting".
StageHoldsLock == \A c \in Callers : call[c].pc \in Stages => Holds(c)

\* A request that is being handled names a lease and an artifact and has no answer yet.
CallsAreWhole ==
  \A c \in Callers : call[c].pc # "idle" =>
    call[c].lid \in Leases /\ call[c].art \in Artifacts /\ call[c].answer = "none"

Loaded  == overlay = art /\ fabric = art /\ held = Buffers
Cleared == overlay = None /\ held = {}

\* What the handler of c has done to the board by the time it is where it is.
StageFacts(c) ==
  /\ call[c].pc \in {"program", "x", "y", "bind", "released"} => Cleared
  /\ call[c].pc \in {"x", "y", "bind", "deployed"} => fabric = call[c].art
  /\ call[c].pc = "y" => fresh = {"x"}
  /\ call[c].pc = "bind" => fresh = Buffers
  /\ call[c].pc = "deployed" => overlay = call[c].art /\ held = Buffers
  /\ call[c].pc \in {"clear", "program", "x", "y", "bind", "deployed"} =>
       ~ready /\ lid \in {None, call[c].lid}
  /\ call[c].pc \in {"predict", "hung"} => ready /\ lid = call[c].lid

FreshIsLoading == fresh # {} => \E c \in Callers : call[c].pc \in {"y", "bind"}

\* A runtime that is neither the one deployed nor cleared exists only during a load.
ReadyOrCleared ==
  ready => Loaded \/ (Cleared /\ (leaked > 0 \/ \E c \in Callers : call[c].pc = "released"))
FreeIsCleared == lid = None => Cleared \/ \E c \in Callers : call[c].pc = "deployed"

LeaseWithArtifact == (lid = None <=> art = None) /\ (ready => lid # None)

(* The conjunction that every step preserves: what each stage of a         *)
(* handler of state.py has made of the backend of fpga.py.                 *)
RuntimeInvariant ==
  /\ TypeOK /\ BuffersAccountedFor
  /\ StageHoldsLock /\ CallsAreWhole
  /\ \A c \in Callers : StageFacts(c)
  /\ FreshIsLoading /\ ReadyOrCleared /\ FreeIsCleared /\ LeaseWithArtifact
=============================================================================
