--------------------------- MODULE OverlayInvariant ---------------------------
(***************************************************************************)
(* The inductive invariant behind what a request is run on: the order of   *)
(* a student's requests, whose artifact a board and every call for it      *)
(* carry, and, as long as Central does not restart, that a board that      *)
(* still holds a lease holds the artifact of the lease's row as well.      *)
(***************************************************************************)
EXTENDS CoordinationInvariant

-----------------------------------------------------------------------------
(* Requests, and the artifacts they are bound to.                          *)

Accepted(s) == {i \in Requests : request[s][i].status # "NONE"}

\* The artifacts that the requests of s are or were bound to.
BoundOf(s) == {request[s][i].art : i \in Accepted(s)}

\* Artifact ids that have been drawn.
Drawn == 1 .. artifacts

\* Requests are accepted in order; one whose turn has come is next to run.
RequestsInOrder(s) ==
  /\ \A i \in Accepted(s), j \in Requests : j < i => j \in Accepted(s)
  /\ op[s].pc \in {"deploy", "run"} =>
       /\ request[s][op[s].req].status = "QUEUED"
       /\ \A j \in Requests : j < op[s].req => request[s][j].status \in Ended

\* A call to a board is for the artifact of the request it is made for.
BindsArtifacts(s) ==
  /\ \A i \in Accepted(s) : request[s][i].art \in Drawn
  /\ op[s].pc \in {"deploy", "predict"} =>
       op[s].req \in Accepted(s) /\ op[s].art = request[s][op[s].req].art
  /\ op[s].lid # NoLease => op[s].pc \in Awaiting

-----------------------------------------------------------------------------
(* Lease ids and the artifacts they come with.                             *)

OwnsLid(s, l) == l # NoLease /\ l \in {lease[s].lid, op[s].lid}

\* A call that awaits an answer carries its student's id.
CallsAreOwn == \A s, t \in Students : OwnsLid(s, op[t].lid) => s = t

\* Whatever holds or deploys under an id of s does so with an artifact of a request of s.
HoldsOwnArtifacts(s) ==
  /\ \A b \in Boards : OwnsLid(s, board[b].lid) => board[b].art \in BoundOf(s)
  /\ \A c \in orphans : c.kind = "deploy" /\ OwnsLid(s, c.lid) => c.art \in BoundOf(s)

\* Boards, answers and calls under way never carry an artifact that does not exist.
ArtifactsAreDrawn ==
  /\ artifacts <= MaxArtifacts
  /\ \A b \in Boards : /\ board[b].lid # NoLease => board[b].art \in Drawn
                       /\ check[b].lid # NoLease => check[b].art \in Drawn
  /\ \A c \in orphans : c.lid # NoLease /\ (c.kind = "deploy" => c.art \in Drawn)

ArtifactsAreOwn ==
  /\ \A s \in Students : RequestsInOrder(s) /\ BindsArtifacts(s) /\ HoldsOwnArtifacts(s)
  /\ CallsAreOwn /\ ArtifactsAreDrawn

-----------------------------------------------------------------------------
(* As long as Central does not restart.                                    *)

\* A late call is one that its caller has given up; it is of no lease in use but the
\* caller's.
OrphansAreStale(s) ==
  \A c \in orphans :
    /\ c.lid = op[s].lid => op[s].reply = "error" /\ c.kind = op[s].pc
    /\ c.lid = lease[s].lid /\ Active(s) => op[s].lid = c.lid

\* If the board still holds the lease, it holds what the row or the caller thinks.
OverlayFollowsRows(s) ==
  /\ lease[s].state \in {"RESERVED", "READY", "BUSY", "RELEASING"} =>
       LET d == board[lease[s].worker] IN d.lid = lease[s].lid => d.art = lease[s].art
  /\ op[s].pc = "run" => lease[s].art = request[s][op[s].req].art
  /\ op[s].pc = "predict" \/ (op[s].pc = "deploy" /\ op[s].reply = "ok") =>
       LET d == board[op[s].board] IN d.lid = op[s].lid => d.art = op[s].art

OverlaysFollow ==
  /\ central # "up" => \A s \in Students : ~Active(s)
  /\ \A s \in Students : OrphansAreStale(s) /\ OverlayFollowsRows(s)

-----------------------------------------------------------------------------
(* As long as no board restarts either.                                    *)

\* A lease with an artifact has its board ready until a call fails.
BoardIsReady(s) ==
  LET d == board[lease[s].worker]
      isReady == d.lid = lease[s].lid /\ d.ready
  IN
  /\ lease[s].state = "READY" /\ lease[s].art # NoArtifact => isReady
  /\ lease[s].state = "BUSY" /\ op[s].reply # "error" => isReady
  /\ lease[s].state = "DEPLOYING" /\ op[s].reply = "ok" => isReady
  /\ lease[s].state \in {"QUEUED", "UNASSIGNED", "RESERVED"} => lease[s].art = NoArtifact
  /\ op[s].pc = "run" => lease[s].art # NoArtifact

(* The conjunction that every step preserves, on top of                    *)
(* OwnershipInvariant and CoordinationInvariant: what lease_manager.py's   *)
(* rows and calls say of the overlay that worker/app/state.py has loaded.  *)
OverlayInvariant ==
  /\ ArtifactsAreOwn
  /\ "crash" \notin Environment => OverlaysFollow
  /\ {"crash", "board restart"} \cap Environment = {} =>
       \A s \in Students : BoardIsReady(s)
=============================================================================
