--------------------------- MODULE RequestService ---------------------------
(***************************************************************************)
(* What a student is promised about predict requests: they run one at a    *)
(* time and in the order they were submitted, each is given to a board at  *)
(* most once and on the artifact it was bound to, and a finished request   *)
(* never changes again.                                                    *)
(***************************************************************************)
EXTENDS Naturals

CONSTANTS Students, MaxRequests

VARIABLES status,   \* of each student's requests, in the order of submission
          bound     \* the artifact each request was bound to, 0 before it exists

Positions == 1 .. MaxRequests

ServiceInit ==
  /\ status = [s \in Students |-> [i \in Positions |-> "NONE"]]
  /\ bound = [s \in Students |-> [i \in Positions |-> 0]]

Accept(s, i) ==
  /\ status[s][i] = "NONE"
  /\ \A j \in Positions : j < i => status[s][j] # "NONE"
  /\ status' = [status EXCEPT ![s] = [@ EXCEPT ![i] = "QUEUED"]]
  /\ bound'[s][i] # 0
  /\ \A t \in Students, j \in Positions : <<t, j>> # <<s, i>> => bound'[t][j] = bound[t][j]

\* The oldest unfinished request of a student starts; all before it have ended.
Start(s, i) ==
  /\ status[s][i] = "QUEUED"
  /\ \A j \in Positions : j < i => status[s][j] \in {"COMPLETED", "FAILED"}
  /\ status' = [status EXCEPT ![s] = [@ EXCEPT ![i] = "RUNNING"]]
  /\ UNCHANGED bound

Complete(s, i) ==
  /\ status[s][i] = "RUNNING"
  /\ status' = [status EXCEPT ![s] = [@ EXCEPT ![i] = "COMPLETED"]]
  /\ UNCHANGED bound

\* The running requests of one or, after a restart, of several students fail together.
Fail(S) ==
  /\ status' = [s \in Students |-> [i \in Positions |->
                  IF s \in S /\ status[s][i] = "RUNNING" THEN "FAILED" ELSE status[s][i]]]
  /\ UNCHANGED bound

ServiceNext ==
  \/ \E s \in Students, i \in Positions :
       \/ Accept(s, i)
       \/ Start(s, i)
       \/ Complete(s, i)
  \/ \E S \in SUBSET Students : Fail(S)

ServiceSpec == ServiceInit /\ [][ServiceNext]_<<status, bound>>
=============================================================================
