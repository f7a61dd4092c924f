---------------------------- MODULE WorkerRuntime ----------------------------
(***************************************************************************)
(* worker/app/state.py and main.py: the Worker process of one board. The   *)
(* handlers of deploy, predict and release wait for one asyncio.Lock, in   *)
(* the order of their arrival; while the holder works in a thread, others  *)
(* arrive and /status reads lid, art and ready without the lock.           *)
(***************************************************************************)
EXTENDS FpgaBackend, Sequences

CONSTANTS
  Callers,   \* connections, each with one request at a time
  Leases     \* lease ids

ASSUME LeasesAssumption == None \notin Leases

VARIABLES
  lid,       \* current_lease_id
  art,       \* current_artifact_id
  ready,     \* fpga_ready
  files,     \* the artifact directories under artifact_root
  queue,     \* self.lock: its holder, then those waiting for it
  call       \* by caller, the request being handled and the last answer

status == <<lid, art, ready>>
vars   == <<backend, faults, status, files, queue, call>>

Kinds   == {"deploy", "predict", "release"}
Stages  == {"clear", "program", "x", "y", "bind", "deployed", "predict", "hung", "released"}
Answers == {"none", "ok", "conflict", "invalid", "error"}
Call == [pc: {"idle", "waiting"} \cup Stages, kind: Kinds \cup {"none"},
         lid: Leases \cup {None}, art: Artifacts \cup {None}, answer: Answers]
Answered(answer) == [pc |-> "idle", kind |-> "none", lid |-> None, art |-> None,
                     answer |-> answer]

TypeOK ==
  /\ BackendTypeOK
  /\ lid \in Leases \cup {None} /\ art \in Artifacts \cup {None} /\ ready \in BOOLEAN
  /\ files \in SUBSET Artifacts /\ queue \in Seq(Callers) /\ call \in [Callers -> Call]

Init ==
  /\ BackendInit
  /\ lid = None /\ art = None /\ ready = FALSE /\ files = {} /\ queue = <<>>
  /\ call = [c \in Callers |-> Answered("none")]

-----------------------------------------------------------------------------
Holds(c) == queue # <<>> /\ Head(queue) = c
At(c, pc) == Holds(c) /\ call[c].pc = pc
Entering(c, kind) == At(c, "waiting") /\ call[c].kind = kind

GoTo(c, pc) ==
  /\ call' = [call EXCEPT ![c] = [call[c] EXCEPT !.pc = pc]]
  /\ UNCHANGED queue

\* Mistaken form of Leave: the lock is not given back.
Stay == UNCHANGED queue
Leave == queue' = Tail(queue)

\* The handler answers and the lock goes to the next in line.
Answer(c, answer) ==
  /\ call' = [call EXCEPT ![c] = Answered(answer)]
  /\ Leave

\* A request arrives; one that is malformed is refused before it takes the lock.
Arrive(c) ==
  /\ call[c].pc = "idle"
  /\ \E kind \in Kinds, l \in Leases, a \in Artifacts :
       call' = [call EXCEPT ![c] = [pc |-> "waiting", kind |-> kind, lid |-> l, art |-> a,
                                    answer |-> "none"]]
  /\ queue' = Append(queue, c)
  /\ UNCHANGED <<backend, faults, status, files>>

-----------------------------------------------------------------------------
\* Mistaken form of MayDeploy: nobody asks who holds the board.
MayDeployAnyway(c) == TRUE
\* A deployment is for the holder of the board or for a free board.
MayDeploy(c) == lid \in {None, call[c].lid}

DeployConflict(c) ==
  /\ Entering(c, "deploy") /\ ~MayDeploy(c)
  /\ Answer(c, "conflict")
  /\ UNCHANGED <<backend, faults, status, files>>

\* Mistaken form of Unready: the old overlay counts until the new one is there.
StillReady == UNCHANGED ready
Unready == ready' = FALSE

\* deploy up to the thread: the files replace those of an earlier deployment.
StageFiles(c) ==
  /\ Entering(c, "deploy") /\ MayDeploy(c)
  /\ files' = files \cup {call[c].art}
  /\ Unready
  /\ GoTo(c, "clear")
  /\ UNCHANGED <<backend, faults, lid, art>>

\* The files cannot be written: mkdtemp leaves ready alone, everything else resets it,
\* and the earlier directory may be gone already.
StageFails(c) ==
  /\ Entering(c, "deploy") /\ MayDeploy(c)
  /\ Faults(1)
  /\ \/ UNCHANGED <<ready, files>>
     \/ ready' = FALSE /\ files' \in {files, files \ {call[c].art}}
  /\ Answer(c, "error")
  /\ UNCHANGED <<backend, lid, art>>

\* _load_overlay_sync, in its thread; a failure anywhere in it ends the deployment.
ClearForLoad(c) ==
  /\ At(c, "clear")
  /\ \E stuck \in SUBSET held :
       /\ ClearRuntime(stuck) /\ Faults(Cardinality(stuck))
       /\ IF stuck = {} THEN GoTo(c, "program") ELSE Answer(c, "error")
  /\ UNCHANGED <<fabric, fresh, status, files>>

Program(c) ==
  /\ At(c, "program")
  /\ \/ ProgramOverlay(call[c].art) /\ GoTo(c, "x")
     \/ ProgramFails(call[c].art) /\ Answer(c, "error")
  /\ UNCHANGED <<status, files>>

AllocateBuffer(c, buffer, next) ==
  /\ At(c, buffer)
  /\ \/ Allocate(buffer) /\ GoTo(c, next)
     \/ \E stuck \in SUBSET Buffers : AllocateFails(stuck) /\ Answer(c, "error")
  /\ UNCHANGED <<status, files>>

Bind(c) ==
  /\ At(c, "bind")
  /\ BindRuntime(call[c].art) /\ GoTo(c, "deployed")
  /\ UNCHANGED <<status, files>>

\* deploy back on the event loop: only now does the board belong to the lease.
Deployed(c) ==
  /\ At(c, "deployed")
  /\ lid' = call[c].lid /\ art' = call[c].art /\ ready' = TRUE
  /\ Answer(c, "ok")
  /\ UNCHANGED <<backend, faults, files>>

-----------------------------------------------------------------------------
\* Mistaken form of MayPredict: a ready board serves everybody.
MayPredictReady(c) == ready
MayPredict(c) == call[c].lid = lid /\ ready

PredictConflict(c) ==
  /\ Entering(c, "predict") /\ ~MayPredict(c)
  /\ Answer(c, "conflict")
  /\ UNCHANGED <<backend, faults, status, files>>

StartPredict(c) ==
  /\ Entering(c, "predict") /\ MayPredict(c)
  /\ GoTo(c, "predict")
  /\ UNCHANGED <<backend, faults, status, files>>

\* Mistaken form of AfterFailure: the board counts as ready.
RemainsReady == UNCHANGED ready
AfterFailure == ready' = FALSE

\* _predict_sync: a bad image leaves the overlay in use.
RefuseImage(c) ==
  /\ At(c, "predict")
  /\ Answer(c, "invalid")
  /\ UNCHANGED <<backend, faults, status, files>>

PredictSucceeds(c) ==
  /\ At(c, "predict") /\ RuntimeBound
  /\ Answer(c, "ok")
  /\ UNCHANGED <<backend, faults, status, files>>

\* Without a runtime, or by a DMA error that clears it, or by any other exception, the
\* prediction fails and the board has to be deployed again.
PredictFails(c) ==
  /\ At(c, "predict")
  /\ \/ ~RuntimeBound /\ UNCHANGED <<runtime, faults>>
     \/ RuntimeBound /\ \E stuck \in SUBSET held : ClearRuntime(stuck)
                                                  /\ Faults(1 + Cardinality(stuck))
     \/ Faults(1) /\ UNCHANGED runtime
  /\ AfterFailure
  /\ Answer(c, "error")
  /\ UNCHANGED <<fabric, fresh, lid, art, files>>

\* A DMA channel's wait() has no timeout: the transfer may never end.
TransferHangs(c) ==
  /\ At(c, "predict") /\ RuntimeBound
  /\ Faults(1)
  /\ GoTo(c, "hung")
  /\ UNCHANGED <<backend, status, files>>

-----------------------------------------------------------------------------
ReleaseConflict(c) ==
  /\ Entering(c, "release") /\ call[c].lid # lid
  /\ Answer(c, "conflict")
  /\ UNCHANGED <<backend, faults, status, files>>

\* backend.release in its thread: when a buffer cannot be freed the handler ends here
\* and the lease stays, ready and without a runtime.
ReleaseBackend(c) ==
  /\ Entering(c, "release") /\ call[c].lid = lid
  /\ \E stuck \in SUBSET held :
       /\ ReleaseRuntime(stuck) /\ Faults(Cardinality(stuck))
       /\ IF stuck = {} THEN GoTo(c, "released") ELSE Answer(c, "error")
  /\ UNCHANGED <<fabric, fresh, status, files>>

Released(c) ==
  /\ At(c, "released")
  /\ lid' = None /\ art' = None /\ ready' = FALSE
  /\ Answer(c, "ok")
  /\ UNCHANGED <<backend, faults, files>>

\* The process dies with everything it holds and starts again.
Restart ==
  /\ Faults(1)
  /\ BackendRestart
  /\ lid' = None /\ art' = None /\ ready' = FALSE /\ queue' = <<>>
  /\ call' = [c \in Callers |-> IF call[c].pc = "idle" THEN call[c] ELSE Answered("error")]
  /\ UNCHANGED files

-----------------------------------------------------------------------------
Deploy(c) ==
  \/ DeployConflict(c) \/ StageFiles(c) \/ StageFails(c) \/ ClearForLoad(c)
  \/ Program(c) \/ AllocateBuffer(c, "x", "y") \/ AllocateBuffer(c, "y", "bind")
  \/ Bind(c) \/ Deployed(c)
Predict(c) ==
  \/ PredictConflict(c) \/ StartPredict(c) \/ RefuseImage(c)
  \/ PredictSucceeds(c) \/ PredictFails(c) \/ TransferHangs(c)
Release(c) == ReleaseConflict(c) \/ ReleaseBackend(c) \/ Released(c)

Handler(c) == Deploy(c) \/ Predict(c) \/ Release(c)

Next == \/ \E c \in Callers : Arrive(c) \/ Handler(c)
        \/ Restart

Spec == Init /\ [][Next]_vars

\* The event loop and its threads go on; nothing is assumed of those who call.
Fairness == \A c \in Callers : WF_vars(Handler(c))

FairSpec == Spec /\ Fairness
=============================================================================
