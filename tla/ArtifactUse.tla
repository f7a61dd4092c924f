----------------------------- MODULE ArtifactUse -----------------------------
(***************************************************************************)
(* How the lease manager and the registry use artifacts, as artifact       *)
(* cleanup has to reckon with it: a request is bound to its student's      *)
(* newest READY artifact, a deployment puts a bound artifact into the rows *)
(* of the lease and the board, the monitor copies what a board reports,    *)
(* and uses end at any time, with or without the student's lock.           *)
(***************************************************************************)
EXTENDS Naturals

CONSTANTS Students, Boards, Ids

VARIABLES newest,   \* by student, the id of the newest READY artifact or 0
          bound,    \* by student, the artifacts of QUEUED and RUNNING requests
          held,     \* by student, student_leases.current_artifact_id or 0
          shown     \* by board, workers.current_artifact_id or 0

uses == <<bound, held, shown>>

UseInit ==
  /\ bound = [s \in Students |-> {}]
  /\ held = [s \in Students |-> 0] /\ shown = [b \in Boards |-> 0]

\* submit_predict: a new request of student s.
Bind(s) ==
  /\ newest[s] # 0
  /\ bound' = [bound EXCEPT ![s] = bound[s] \cup {newest[s]}]
  /\ UNCHANGED <<held, shown>>

\* _deploy: board b holds the artifact of one of the requests of s.
DeployUse(s, b, a) ==
  /\ a \in bound[s]
  /\ held' = [held EXCEPT ![s] = a] /\ shown' = [shown EXCEPT ![b] = a]
  /\ UNCHANGED bound

\* _check_worker: the row of b gets the artifact of a lease that Central does not know.
ReportUse(b, a) ==
  /\ shown' = [shown EXCEPT ![b] = a]
  /\ UNCHANGED <<bound, held>>

\* Requests end (the pairs of R), leases (S) and boards (B) let go of their artifact.
LetGo(R, S, B) ==
  /\ bound' = [s \in Students |-> {a \in bound[s] : <<s, a>> \notin R}]
  /\ held' = [s \in Students |-> IF s \in S THEN 0 ELSE held[s]]
  /\ shown' = [b \in Boards |-> IF b \in B THEN 0 ELSE shown[b]]

UseNext ==
  \/ \E s \in Students : Bind(s)
  \/ \E s \in Students, b \in Boards, a \in Ids : DeployUse(s, b, a)
  \/ \E b \in Boards, a \in Ids : ReportUse(b, a)
  \/ \E R \in SUBSET (Students \X Ids), S \in SUBSET Students, B \in SUBSET Boards :
       LetGo(R, S, B)

UseSpec == UseInit /\ [][UseNext]_uses
=============================================================================
