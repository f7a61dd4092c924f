--------------------------- MODULE WorkerRegistry ---------------------------
(***************************************************************************)
(* worker_registry.py: reconciling the workers table with what the boards  *)
(* report, at Central's start (recover) and then periodically (monitor).   *)
(* A check awaits /health and /status with no transaction open, so what it *)
(* applies in the end may be older than the rows it is applied to.         *)
(***************************************************************************)
EXTENDS CentralState

Recovering(b) == central = "recovering" /\ b \in unchecked
Monitoring(b) == EventLoopFree /\ "monitor" \in Environment

\* Recovery checks every board once; the monitor starts over.
CheckDone(b) ==
  /\ check' = [check EXCEPT ![b] = NoStatus]
  /\ unchecked' = unchecked \ {b}

\* Phase B: the board answers /status with what it holds now.
StatusAnswered(b) ==
  /\ Recovering(b) \/ (central = "up" /\ "monitor" \in Environment)
  /\ ~check[b].open
  /\ check' = [check EXCEPT ![b] = [open |-> TRUE, lid |-> board[b].lid,
                                    art |-> board[b].art]]
  /\ UNCHANGED <<database, central, unchecked, op, event, allocator, reaper,
                 failures, world>>

\* Outside recovery, only a READY lease is compared with the board: every other active
\* state belongs to a task in flight.
InTransition(s) == central = "up" /\ lease[s].state # "READY"

\* The board confirms the lease and the artifact of the row.
Confirmed(s, b) == check[b].lid = lease[s].lid /\ check[b].art = lease[s].art

\* Mistaken form of UnleasedRow: a board in ERROR waits for somebody to look at it.
UnleasedErrorStays(b) ==
  IF check[b].lid # NoLease
  THEN [state |-> "ERROR", lid |-> check[b].lid, art |-> check[b].art]
  ELSE IF worker[b].state = "ERROR" THEN worker[b]
  ELSE [worker[b] EXCEPT !.state = "IDLE", !.lid = NoLease]

\* The row of a board that no lease uses: in ERROR while the board holds a lease that
\* Central does not know of, and IDLE otherwise.
UnleasedRow(b) ==
  IF check[b].lid # NoLease
  THEN [state |-> "ERROR", lid |-> check[b].lid, art |-> check[b].art]
  ELSE [worker[b] EXCEPT !.state = "IDLE", !.lid = NoLease]

\* Phase C on an answer: reconcile against the rows as they are by now.
ApplyStatus(b) ==
  /\ check[b].open
  /\ Recovering(b) \/ Monitoring(b)
  /\ \/ \E s \in Students :
          /\ IsLeaseOf(s, b)
          /\ \/ /\ InTransition(s)
                /\ UNCHANGED <<lease, worker>>
             \/ /\ ~InTransition(s) /\ Confirmed(s, b)
                /\ IF Recovering(b) \/ worker[b].state = "OFFLINE"
                   THEN /\ worker' = [worker EXCEPT ![b] = [worker[b] EXCEPT !.state = "READY"]]
                        /\ lease' = [lease EXCEPT ![s] = [lease[s] EXCEPT !.state = "READY"]]
                   ELSE UNCHANGED <<lease, worker>>
             \/ /\ ~InTransition(s) /\ ~Confirmed(s, b)
                /\ worker' = [worker EXCEPT ![b] = [worker[b] EXCEPT !.state = "ERROR"]]
                /\ lease' = [lease EXCEPT ![s] = [lease[s] EXCEPT !.state = "LOST"]]
     \/ /\ \A s \in Students : ~IsLeaseOf(s, b)
        /\ worker' = [worker EXCEPT ![b] = UnleasedRow(b)]
        /\ UNCHANGED lease
  /\ CheckDone(b)
  /\ failures' = [failures EXCEPT ![b] = 0]
  /\ UNCHANGED <<ahead, request, latest, artifacts, leases, central, op, event,
                 allocator, reaper, world>>

\* _mark_offline on the rows: the board is OFFLINE, its active lease LOST but still
\* carrying its ids, and the lease's running request FAILED.
MarkOffline(b) ==
  LET lost == {s \in Students : IsLeaseOf(s, b)} IN
  /\ worker' = [worker EXCEPT ![b] = [worker[b] EXCEPT !.state = "OFFLINE"]]
  /\ lease' = [s \in Students |-> IF s \in lost THEN [lease[s] EXCEPT !.state = "LOST"]
                                  ELSE lease[s]]
  /\ request' = [s \in Students |-> [i \in Requests |->
                   IF s \in lost /\ request[s][i].status = "RUNNING"
                   THEN [request[s][i] EXCEPT !.status = "FAILED"]
                   ELSE request[s][i]]]

\* Mistaken form of Tolerated: recovery waits for the threshold too.
ToleratedAtStart(b) == failures[b] + 1 < Threshold

\* One failed check in a row too few for the monitor; recovery does not wait.
Tolerated(b) == central = "up" /\ failures[b] + 1 < Threshold

\* The failure branch of _check_worker: the board counts as offline at once during
\* recovery, and after Threshold failures in a row otherwise.
CheckFails(b) ==
  /\ Recovering(b) \/ Monitoring(b)
  /\ ~check[b].open
  /\ Fault("health")
  /\ failures' = [failures EXCEPT ![b] = failures[b] + 1]
  /\ IF Tolerated(b)
     THEN UNCHANGED <<worker, lease, request>>
     ELSE MarkOffline(b)
  /\ CheckDone(b)
  /\ UNCHANGED <<ahead, latest, artifacts, leases, central, op, event, allocator,
                 reaper, board, orphans>>
=============================================================================
