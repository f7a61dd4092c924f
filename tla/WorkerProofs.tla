---------------------------- MODULE WorkerProofs ----------------------------
(***************************************************************************)
(* TLAPS proofs about the Worker: RuntimeInvariant is inductive, hence its *)
(* safety properties hold for any callers, leases, artifacts and number of *)
(* failures, and the Worker implements LeasedBoard.                        *)
(***************************************************************************)
EXTENDS WorkerInvariant, FiniteSetTheorems, SequenceTheorems, TLAPS

-----------------------------------------------------------------------------
(* Buffers and their number.                                               *)

LEMMA BufferSets ==
  /\ IsFiniteSet(Buffers) /\ Cardinality(Buffers) = 2
  /\ Cardinality({"x"}) = 1 /\ Cardinality({}) = 0
<1>1. IsFiniteSet({"x"}) /\ Cardinality({"x"}) = 1 /\ Cardinality({}) = 0
  BY FS_Singleton, FS_EmptySet
<1>2. Buffers = {"x"} \cup {"y"}
  BY DEF Buffers
<1>3. /\ IsFiniteSet({"x"} \cup {"y"})
      /\ Cardinality({"x"} \cup {"y"}) = IF "y" \in {"x"} THEN 1 ELSE 1 + 1
  BY <1>1, FS_AddElement
<1>4. "y" \notin {"x"}
  OBVIOUS
<1> QED BY <1>1, <1>2, <1>3, <1>4

LEMMA BufferCount ==
  ASSUME NEW B \in SUBSET Buffers
  PROVE  IsFiniteSet(B) /\ Cardinality(B) \in Nat
  BY BufferSets, FS_Subset, FS_CardinalityType

LEMMA PartOfBuffers ==
  ASSUME NEW B \in SUBSET Buffers, NEW S \in SUBSET B
  PROVE  /\ Cardinality(S) \in Nat
         /\ Cardinality(B \ S) \in Nat
         /\ Cardinality(B) = Cardinality(B \ S) + Cardinality(S)
         /\ S # {} => Cardinality(S) > 0
<1>1. IsFiniteSet(B) /\ Cardinality(B) \in Nat /\ IsFiniteSet(S) /\ Cardinality(S) \in Nat
  BY BufferCount
<1>2. Cardinality(B \ S) = Cardinality(B) - Cardinality(B \cap S)
  BY <1>1, FS_Difference
<1>3. B \cap S = S
  OBVIOUS
<1>4. Cardinality(B \ S) \in Nat
  BY BufferCount
<1>5. S # {} => Cardinality(S) # 0
  BY <1>1, FS_EmptySet
<1>6. Cardinality(B \ S) = Cardinality(B) - Cardinality(S)
  BY <1>2, <1>3
<1> QED BY <1>1, <1>4, <1>5, <1>6

-----------------------------------------------------------------------------
(* How a handler moves on. What it has done must suit its next stage.      *)

LEMMA OnlyHolderAtWork ==
  ASSUME StageHoldsLock, NEW c \in Callers, Holds(c)
  PROVE  \A d \in Callers \ {c} : call[d].pc \notin Stages
  BY DEF StageHoldsLock, Holds

LEMMA AnswerFacts ==
  ASSUME TypeOK, StageHoldsLock, CallsAreWhole,
         NEW c \in Callers, NEW answer \in Answers, Holds(c), Answer(c, answer)
  PROVE  /\ call' \in [Callers -> Call] /\ queue' \in Seq(Callers)
         /\ call'[c].pc = "idle" /\ call'[c].answer = answer
         /\ \A d \in Callers \ {c} : call'[d] = call[d]
         /\ \A d \in Callers : call'[d].pc \notin Stages
         /\ StageHoldsLock' /\ CallsAreWhole'
<1>1. /\ Answered(answer) \in Call /\ Answered(answer).pc = "idle"
      /\ Answered(answer).answer = answer
  BY DEF Answered, Call
<1>2. call' = [call EXCEPT ![c] = Answered(answer)] /\ call \in [Callers -> Call]
  BY DEF Answer, TypeOK
<1>3. /\ call' \in [Callers -> Call] /\ call'[c].pc = "idle" /\ call'[c].answer = answer
      /\ \A d \in Callers \ {c} : call'[d] = call[d]
  BY <1>1, <1>2
<1>4. queue' \in Seq(Callers)
  BY HeadTailProperties DEF TypeOK, Holds, Answer, Leave
<1>5. \A d \in Callers : call'[d].pc \notin Stages
  BY <1>3, OnlyHolderAtWork DEF Stages
<1>6. StageHoldsLock' /\ CallsAreWhole'
  BY <1>3, <1>5 DEF StageHoldsLock, CallsAreWhole
<1> QED BY <1>3, <1>4, <1>5, <1>6

LEMMA GoToFacts ==
  ASSUME TypeOK, StageHoldsLock, CallsAreWhole,
         NEW c \in Callers, NEW pc \in Stages, Holds(c), call[c].pc # "idle", GoTo(c, pc)
  PROVE  /\ call' \in [Callers -> Call] /\ queue' \in Seq(Callers)
         /\ call'[c].pc = pc /\ call'[c].lid = call[c].lid /\ call'[c].art = call[c].art
         /\ call'[c].answer = call[c].answer
         /\ call[c].lid \in Leases /\ call[c].art \in Artifacts
         /\ \A d \in Callers \ {c} : call'[d] = call[d] /\ call'[d].pc \notin Stages
         /\ StageHoldsLock' /\ CallsAreWhole'
<1> DEFINE r == [call[c] EXCEPT !.pc = pc]
<1>1. call \in [Callers -> Call] /\ call[c] \in Call
  BY DEF TypeOK
<1>2. /\ r \in Call /\ r.pc = pc /\ r.lid = call[c].lid /\ r.art = call[c].art
      /\ r.answer = call[c].answer
  BY <1>1 DEF Call
<1>3. call' = [call EXCEPT ![c] = r] /\ queue' = queue
  BY DEF GoTo
<1> HIDE DEF r
<1>4. call' \in [Callers -> Call] /\ call'[c] = r /\ \A d \in Callers \ {c} : call'[d] = call[d]
  BY <1>1, <1>2, <1>3
<1>5. \A d \in Callers \ {c} : call'[d].pc \notin Stages
  BY <1>4, OnlyHolderAtWork
<1>6. call[c].lid \in Leases /\ call[c].art \in Artifacts /\ call[c].answer = "none"
  BY DEF CallsAreWhole
<1>7. StageHoldsLock'
  BY <1>3, <1>5 DEF StageHoldsLock, Holds
<1>8. CallsAreWhole'
  BY <1>2, <1>4, <1>6 DEF CallsAreWhole
<1> QED BY <1>2, <1>3, <1>4, <1>5, <1>6, <1>7, <1>8 DEF TypeOK

-----------------------------------------------------------------------------
(* The invariant at the two ends of a step.                                *)

LEMMA AnswerStep ==
  ASSUME RuntimeInvariant,
         NEW c \in Callers, NEW answer \in Answers, Holds(c), Answer(c, answer),
         BackendTypeOK', BuffersAccountedFor', fresh' = {},
         files' \in SUBSET Artifacts,
         lid' \in Leases \cup {None}, art' \in Artifacts \cup {None}, ready' \in BOOLEAN,
         LeaseWithArtifact',
         ready' => Loaded' \/ (Cleared' /\ leaked' > 0),
         lid' = None => Cleared'
  PROVE  RuntimeInvariant'
<1>1. /\ call' \in [Callers -> Call] /\ queue' \in Seq(Callers)
      /\ \A d \in Callers : call'[d].pc \notin Stages
      /\ StageHoldsLock' /\ CallsAreWhole'
  BY AnswerFacts DEF RuntimeInvariant
<1>2. TypeOK'
  BY <1>1 DEF TypeOK
<1>3. \A d \in Callers : StageFacts(d)'
  BY <1>1 DEF StageFacts, Stages
<1>4. FreshIsLoading' /\ ReadyOrCleared' /\ FreeIsCleared'
  BY DEF FreshIsLoading, ReadyOrCleared, FreeIsCleared
<1> QED BY <1>1, <1>2, <1>3, <1>4 DEF RuntimeInvariant

LEMMA GoToStep ==
  ASSUME RuntimeInvariant,
         NEW c \in Callers, NEW pc \in Stages, Holds(c), call[c].pc # "idle", GoTo(c, pc),
         BackendTypeOK', BuffersAccountedFor',
         files' \in SUBSET Artifacts,
         lid' \in Leases \cup {None}, art' \in Artifacts \cup {None}, ready' \in BOOLEAN,
         LeaseWithArtifact', StageFacts(c)',
         fresh' # {} => pc \in {"y", "bind"},
         ready' => Loaded' \/ (Cleared' /\ (leaked' > 0 \/ pc = "released")),
         lid' = None => Cleared' \/ pc = "deployed"
  PROVE  RuntimeInvariant'
<1>1. /\ call' \in [Callers -> Call] /\ queue' \in Seq(Callers) /\ call'[c].pc = pc
      /\ \A d \in Callers \ {c} : call'[d].pc \notin Stages
      /\ StageHoldsLock' /\ CallsAreWhole'
  BY GoToFacts DEF RuntimeInvariant
<1>2. TypeOK'
  BY <1>1 DEF TypeOK
<1>3. \A d \in Callers : StageFacts(d)'
  BY <1>1 DEF StageFacts, Stages
<1>4. FreshIsLoading' /\ ReadyOrCleared' /\ FreeIsCleared'
  BY <1>1 DEF FreshIsLoading, ReadyOrCleared, FreeIsCleared
<1> QED BY <1>1, <1>2, <1>3, <1>4 DEF RuntimeInvariant

LEMMA QuietHolder ==
  ASSUME RuntimeInvariant, NEW c \in Callers, Holds(c),
         call[c].pc \notin {"y", "bind", "deployed", "released"}
  PROVE  /\ fresh = {}
         /\ ready => Loaded \/ (Cleared /\ leaked > 0)
         /\ lid = None => Cleared
<1>1. \A d \in Callers \ {c} : call[d].pc \notin Stages
  BY OnlyHolderAtWork DEF RuntimeInvariant
<1>2. \A d \in Callers : call[d].pc \notin {"y", "bind", "deployed", "released"}
  BY <1>1 DEF Stages
<1> QED BY <1>2 DEF RuntimeInvariant, FreshIsLoading, ReadyOrCleared, FreeIsCleared

\* A handler answers and has changed nothing.
LEMMA RefusalStep ==
  ASSUME RuntimeInvariant, NEW c \in Callers, NEW answer \in Answers,
         Holds(c), call[c].pc \in {"waiting", "predict"}, Answer(c, answer),
         UNCHANGED <<backend, faults, status, files>>
  PROVE  RuntimeInvariant'
<1>1. /\ fresh = {} /\ (ready => Loaded \/ (Cleared /\ leaked > 0))
      /\ lid = None => Cleared
  BY QuietHolder
<1>2. /\ BackendTypeOK' /\ BuffersAccountedFor' /\ LeaseWithArtifact'
      /\ files' \in SUBSET Artifacts
      /\ lid' \in Leases \cup {None} /\ art' \in Artifacts \cup {None} /\ ready' \in BOOLEAN
  BY DEF RuntimeInvariant, TypeOK, BackendTypeOK, BuffersAccountedFor, LeaseWithArtifact,
         backend, runtime, status
<1>3. /\ fresh' = {} /\ (ready' => Loaded' \/ (Cleared' /\ leaked' > 0))
      /\ lid' = None => Cleared'
  BY <1>1 DEF Loaded, Cleared, backend, runtime, status
<1> QED BY <1>2, <1>3, AnswerStep

\* _clear_runtime, whether or not all buffers can be freed.
LEMMA ClearFacts ==
  ASSUME BackendTypeOK, BuffersAccountedFor, NEW stuck, ClearRuntime(stuck),
         UNCHANGED fresh
  PROVE  /\ Cleared' /\ BuffersAccountedFor'
         /\ cma' \in Nat /\ leaked' \in Nat /\ leaked' >= leaked
         /\ stuck # {} => leaked' > 0
         /\ overlay' = None /\ held' \in SUBSET Buffers
         /\ Cardinality(stuck) \in Nat
<1>1. /\ overlay' = None /\ held' = {} /\ stuck \in SUBSET held
      /\ cma' = cma - Cardinality(held \ stuck)
      /\ leaked' = leaked + Cardinality(stuck)
  BY DEF ClearRuntime, FreeAll, Free
<1>2. /\ Cardinality(stuck) \in Nat /\ Cardinality(held \ stuck) \in Nat
      /\ Cardinality(held) = Cardinality(held \ stuck) + Cardinality(stuck)
      /\ stuck # {} => Cardinality(stuck) > 0
  BY <1>1, PartOfBuffers DEF BackendTypeOK
<1>3. Cardinality(fresh) \in Nat
  BY BufferCount DEF BackendTypeOK
<1>4. cma = Cardinality(held) + Cardinality(fresh) + leaked /\ leaked \in Nat /\ cma \in Nat
  BY DEF BuffersAccountedFor, BackendTypeOK
<1>5. /\ cma' = Cardinality(fresh) + leaked' /\ leaked' \in Nat /\ leaked' >= leaked
      /\ stuck # {} => leaked' > 0
  BY <1>1, <1>2, <1>3, <1>4
<1>6. cma' \in Nat
  BY <1>3, <1>5
<1>7. Cardinality(held') = 0
  BY <1>1, BufferSets
<1>8. BuffersAccountedFor'
  BY <1>3, <1>5, <1>7 DEF BuffersAccountedFor
<1> QED BY <1>1, <1>2, <1>5, <1>6, <1>8 DEF Cleared

-----------------------------------------------------------------------------
(* The steps of a deployment.                                              *)

LEMMA ArriveStep ==
  ASSUME RuntimeInvariant, NEW c \in Callers, Arrive(c)
  PROVE  RuntimeInvariant'
<1>1. PICK kind \in Kinds, l \in Leases, a \in Artifacts :
        call' = [call EXCEPT ![c] = [pc |-> "waiting", kind |-> kind, lid |-> l, art |-> a,
                                     answer |-> "none"]]
  BY DEF Arrive
<1>2. /\ call' \in [Callers -> Call] /\ \A d \in Callers \ {c} : call'[d] = call[d]
      /\ call'[c].pc = "waiting" /\ call'[c].lid = l /\ call'[c].art = a
      /\ call'[c].answer = "none"
  BY <1>1 DEF RuntimeInvariant, TypeOK, Call, Answers
<1>3. UNCHANGED <<backend, faults, status, files>> /\ call[c].pc = "idle"
  BY DEF Arrive
<1>4. /\ queue' \in Seq(Callers) /\ queue' # <<>>
      /\ queue # <<>> => Head(queue') = Head(queue)
  BY AppendProperties, HeadTailAppend DEF Arrive, RuntimeInvariant, TypeOK
<1>5. TypeOK' /\ BuffersAccountedFor' /\ LeaseWithArtifact'
  BY <1>2, <1>3, <1>4 DEF RuntimeInvariant, TypeOK, BackendTypeOK, BuffersAccountedFor,
     LeaseWithArtifact, backend, runtime, status
<1>6. StageHoldsLock' /\ CallsAreWhole'
  BY <1>2, <1>4 DEF RuntimeInvariant, StageHoldsLock, CallsAreWhole, Holds, Stages
<1>7. \A d \in Callers : StageFacts(d)'
  BY <1>2, <1>3 DEF RuntimeInvariant, StageFacts, Cleared, backend, runtime, status
<1>8. FreshIsLoading' /\ ReadyOrCleared' /\ FreeIsCleared'
  BY <1>2, <1>3 DEF RuntimeInvariant, FreshIsLoading, ReadyOrCleared, FreeIsCleared, Loaded,
     Cleared, backend, runtime, status
<1> QED BY <1>5, <1>6, <1>7, <1>8 DEF RuntimeInvariant

LEMMA StageFilesStep ==
  ASSUME RuntimeInvariant, NEW c \in Callers, StageFiles(c)
  PROVE  RuntimeInvariant'
<1>1. /\ Holds(c) /\ call[c].pc = "waiting" /\ MayDeploy(c) /\ GoTo(c, "clear")
      /\ files' = files \cup {call[c].art} /\ ready' = FALSE
      /\ UNCHANGED <<backend, faults, lid, art>>
  BY DEF StageFiles, Entering, At, Unready
<1>2. call'[c].pc = "clear" /\ call'[c].lid = call[c].lid /\ call[c].art \in Artifacts
  BY <1>1, GoToFacts DEF RuntimeInvariant, Stages
<1>3. fresh = {} /\ (lid = None => Cleared)
  BY <1>1, QuietHolder
<1>4. /\ BackendTypeOK' /\ BuffersAccountedFor' /\ LeaseWithArtifact'
      /\ files' \in SUBSET Artifacts
      /\ lid' \in Leases \cup {None} /\ art' \in Artifacts \cup {None} /\ ready' \in BOOLEAN
  BY <1>1, <1>2 DEF RuntimeInvariant, TypeOK, BackendTypeOK, BuffersAccountedFor,
     LeaseWithArtifact, backend, runtime
<1>5. StageFacts(c)'
  BY <1>1, <1>2 DEF StageFacts, MayDeploy
<1>6. fresh' = {} /\ ~ready' /\ (lid' = None => Cleared')
  BY <1>1, <1>3 DEF Cleared, backend, runtime
<1> QED BY <1>1, <1>4, <1>5, <1>6, GoToStep DEF Stages

LEMMA StageFailsStep ==
  ASSUME RuntimeInvariant, NEW c \in Callers, StageFails(c)
  PROVE  RuntimeInvariant'
<1>1. /\ Holds(c) /\ call[c].pc = "waiting" /\ Answer(c, "error")
      /\ Faults(1) /\ UNCHANGED <<backend, lid, art>>
      /\ \/ UNCHANGED <<ready, files>>
         \/ ready' = FALSE /\ files' \in {files, files \ {call[c].art}}
  BY DEF StageFails, Entering, At
<1>2. files' \in SUBSET Artifacts /\ ready' \in BOOLEAN /\ (ready' => ready)
  <2>1. ready \in BOOLEAN /\ files \in SUBSET Artifacts
    BY DEF RuntimeInvariant, TypeOK
  <2>2. CASE UNCHANGED <<ready, files>>
    BY <2>1, <2>2
  <2>3. CASE ready' = FALSE /\ files' \in {files, files \ {call[c].art}}
    BY <2>1, <2>3
  <2> QED BY <1>1, <2>2, <2>3
<1>3. faults' \in 0 .. MaxFaults
  BY <1>1, MaxFaultsAssumption DEF Faults, RuntimeInvariant, TypeOK, BackendTypeOK
<1>4. /\ fresh = {} /\ (ready => Loaded \/ (Cleared /\ leaked > 0))
      /\ lid = None => Cleared
  BY <1>1, QuietHolder
<1>5. /\ BackendTypeOK' /\ BuffersAccountedFor' /\ LeaseWithArtifact'
      /\ lid' \in Leases \cup {None} /\ art' \in Artifacts \cup {None}
  BY <1>1, <1>2, <1>3 DEF RuntimeInvariant, TypeOK, BackendTypeOK, BuffersAccountedFor,
     LeaseWithArtifact, backend, runtime
<1>6. /\ fresh' = {} /\ (ready' => Loaded' \/ (Cleared' /\ leaked' > 0))
      /\ lid' = None => Cleared'
  BY <1>1, <1>2, <1>4 DEF Loaded, Cleared, backend, runtime
<1> QED BY <1>1, <1>2, <1>5, <1>6, AnswerStep DEF Answers

LEMMA ClearForLoadStep ==
  ASSUME RuntimeInvariant, NEW c \in Callers, ClearForLoad(c)
  PROVE  RuntimeInvariant'
<1>1. PICK stuck \in SUBSET held :
        /\ ClearRuntime(stuck) /\ Faults(Cardinality(stuck))
        /\ IF stuck = {} THEN GoTo(c, "program") ELSE Answer(c, "error")
  BY DEF ClearForLoad
<1>2. Holds(c) /\ call[c].pc = "clear" /\ UNCHANGED <<fabric, fresh, status, files>>
  BY DEF ClearForLoad, At
<1>3. /\ fresh = {} /\ ~ready /\ lid \in {None, call[c].lid}
  BY <1>2, QuietHolder DEF RuntimeInvariant, StageFacts
<1>4. /\ Cleared' /\ BuffersAccountedFor' /\ cma' \in Nat /\ leaked' \in Nat
      /\ overlay' = None /\ held' \in SUBSET Buffers /\ Cardinality(stuck) \in Nat
  BY <1>1, <1>2, ClearFacts DEF RuntimeInvariant, TypeOK
<1>5. faults' \in 0 .. MaxFaults
  BY <1>1, <1>4, MaxFaultsAssumption DEF Faults, RuntimeInvariant, TypeOK, BackendTypeOK
<1>6. /\ BackendTypeOK' /\ LeaseWithArtifact' /\ files' \in SUBSET Artifacts
      /\ lid' \in Leases \cup {None} /\ art' \in Artifacts \cup {None} /\ ready' \in BOOLEAN
      /\ fresh' = {} /\ ~ready'
  BY <1>2, <1>3, <1>4, <1>5 DEF RuntimeInvariant, TypeOK, BackendTypeOK, LeaseWithArtifact,
     status
<1>7. CASE stuck # {}
  BY <1>1, <1>2, <1>4, <1>6, <1>7, AnswerStep DEF Answers
<1>8. CASE stuck = {}
  <2>1. GoTo(c, "program")
    BY <1>1, <1>8
  <2>2. call'[c].pc = "program" /\ call'[c].lid = call[c].lid
    BY <1>2, <2>1, GoToFacts DEF RuntimeInvariant, Stages
  <2>3. StageFacts(c)'
    BY <1>2, <1>3, <1>4, <1>6, <2>2 DEF StageFacts, status
  <2> QED BY <1>2, <1>4, <1>6, <2>1, <2>3, GoToStep DEF Stages
<1> QED BY <1>7, <1>8

LEMMA ProgramStep ==
  ASSUME RuntimeInvariant, NEW c \in Callers, Program(c)
  PROVE  RuntimeInvariant'
<1>1. /\ Holds(c) /\ call[c].pc = "program" /\ UNCHANGED <<status, files>>
      /\ UNCHANGED <<runtime, fresh>>
  BY DEF Program, At, ProgramOverlay, ProgramFails
<1>2. /\ fresh = {} /\ ~ready /\ lid \in {None, call[c].lid} /\ Cleared
      /\ call[c].lid \in Leases /\ call[c].art \in Artifacts
  BY <1>1, QuietHolder DEF RuntimeInvariant, StageFacts, CallsAreWhole
<1>3. fabric' \in Artifacts \cup {None} /\ faults' \in 0 .. MaxFaults
  BY <1>2, MaxFaultsAssumption
  DEF Program, ProgramOverlay, ProgramFails, Faults, RuntimeInvariant, TypeOK, BackendTypeOK
<1>4. /\ BackendTypeOK' /\ LeaseWithArtifact' /\ BuffersAccountedFor'
      /\ files' \in SUBSET Artifacts
      /\ lid' \in Leases \cup {None} /\ art' \in Artifacts \cup {None} /\ ready' \in BOOLEAN
      /\ fresh' = {} /\ ~ready' /\ Cleared'
  BY <1>1, <1>2, <1>3 DEF RuntimeInvariant, TypeOK, BackendTypeOK, LeaseWithArtifact,
     BuffersAccountedFor, Cleared, status, runtime
<1>5. CASE ProgramOverlay(call[c].art) /\ GoTo(c, "x")
  <2>1. call'[c].pc = "x" /\ call'[c].lid = call[c].lid /\ call'[c].art = call[c].art
    BY <1>1, <1>5, GoToFacts DEF RuntimeInvariant, Stages
  <2>2. StageFacts(c)'
    BY <1>1, <1>2, <1>4, <1>5, <2>1 DEF StageFacts, status, ProgramOverlay
  <2> QED BY <1>1, <1>4, <1>5, <2>2, GoToStep DEF Stages
<1>6. CASE ProgramFails(call[c].art) /\ Answer(c, "error")
  BY <1>1, <1>4, <1>6, AnswerStep DEF Answers
<1> QED BY <1>5, <1>6 DEF Program

LEMMA AllocateFailsStep ==
  ASSUME RuntimeInvariant, NEW c \in Callers, NEW stuck \in SUBSET Buffers,
         Holds(c), call[c].pc \in {"x", "y"},
         AllocateFails(stuck), Answer(c, "error"), UNCHANGED <<status, files>>
  PROVE  RuntimeInvariant'
<1>1. ~ready /\ Cleared
  BY DEF RuntimeInvariant, StageFacts
<1>2. /\ fresh' = {} /\ UNCHANGED <<fabric, overlay, held>> /\ stuck \in SUBSET fresh
      /\ cma' = cma - Cardinality(fresh \ stuck) /\ leaked' = leaked + Cardinality(stuck)
  BY DEF AllocateFails, Free
<1>3. BackendTypeOK /\ cma = Cardinality(held) + Cardinality(fresh) + leaked
  BY DEF RuntimeInvariant, TypeOK, BuffersAccountedFor
<1>4. /\ Cardinality(stuck) \in Nat /\ Cardinality(fresh \ stuck) \in Nat
      /\ Cardinality(fresh) = Cardinality(fresh \ stuck) + Cardinality(stuck)
  BY <1>2, <1>3, PartOfBuffers DEF BackendTypeOK
<1>5. Cardinality(held) = 0
  BY <1>1, BufferSets DEF Cleared
<1>6. cma' = leaked' /\ leaked' \in Nat
  BY <1>2, <1>3, <1>4, <1>5 DEF BackendTypeOK
<1>7. faults' \in 0 .. MaxFaults
  BY <1>3, <1>4, MaxFaultsAssumption DEF AllocateFails, Faults, BackendTypeOK
<1>8. Cardinality(held') = 0 /\ Cardinality(fresh') = 0
  BY <1>2, <1>5, BufferSets
<1>9. BackendTypeOK' /\ BuffersAccountedFor'
  BY <1>2, <1>3, <1>6, <1>7, <1>8 DEF BackendTypeOK, BuffersAccountedFor
<1>10. /\ LeaseWithArtifact' /\ files' \in SUBSET Artifacts /\ ~ready' /\ Cleared'
       /\ lid' \in Leases \cup {None} /\ art' \in Artifacts \cup {None} /\ ready' \in BOOLEAN
  BY <1>1, <1>2 DEF RuntimeInvariant, TypeOK, LeaseWithArtifact, Cleared, status
<1> QED BY <1>2, <1>9, <1>10, AnswerStep DEF Answers

LEMMA AllocateStep ==
  ASSUME RuntimeInvariant, NEW c \in Callers, NEW buffer \in Buffers, NEW pc,
         <<buffer, pc>> \in {<<"x", "y">>, <<"y", "bind">>},
         At(c, buffer), Allocate(buffer), GoTo(c, pc), UNCHANGED <<status, files>>
  PROVE  RuntimeInvariant'
<1>1. /\ Holds(c) /\ call[c].pc = buffer /\ pc \in {"y", "bind"} /\ buffer \in {"x", "y"}
      /\ pc \in Stages
  BY DEF At, Stages
<1>2. /\ ~ready /\ Cleared /\ lid \in {None, call[c].lid} /\ fabric = call[c].art
      /\ buffer = "y" => fresh = {"x"}
  BY <1>1 DEF RuntimeInvariant, StageFacts
<1>3. buffer = "x" => fresh = {}
  BY <1>1, QuietHolder
<1>4. /\ fresh' = fresh \cup {buffer} /\ cma' = cma + 1
      /\ UNCHANGED <<fabric, overlay, held, leaked, faults>>
  BY DEF Allocate
<1>5. /\ pc = "y" => fresh' = {"x"}
      /\ pc = "bind" => fresh' = Buffers
      /\ fresh' \in SUBSET Buffers
  BY <1>1, <1>2, <1>3, <1>4 DEF Buffers
<1>6. Cardinality(fresh') = Cardinality(fresh) + 1 /\ Cardinality(fresh) \in Nat
  BY <1>1, <1>2, <1>3, <1>5, BufferSets
<1>7. BackendTypeOK' /\ BuffersAccountedFor'
  <2>1. /\ cma = Cardinality(held) + Cardinality(fresh) + leaked
        /\ Cardinality(held) \in Nat /\ leaked \in Nat
    BY BufferCount DEF RuntimeInvariant, TypeOK, BackendTypeOK, BuffersAccountedFor
  <2>2. BackendTypeOK'
    BY <1>4, <1>5 DEF RuntimeInvariant, TypeOK, BackendTypeOK
  <2>3. cma' = Cardinality(held') + Cardinality(fresh') + leaked'
    BY <1>4, <1>6, <2>1
  <2> QED BY <2>2, <2>3 DEF BuffersAccountedFor
<1>8. /\ LeaseWithArtifact' /\ files' \in SUBSET Artifacts /\ ~ready' /\ Cleared'
      /\ lid' \in Leases \cup {None} /\ art' \in Artifacts \cup {None} /\ ready' \in BOOLEAN
  BY <1>2, <1>4 DEF RuntimeInvariant, TypeOK, LeaseWithArtifact, Cleared, status
<1>9. call'[c].pc = pc /\ call'[c].lid = call[c].lid /\ call'[c].art = call[c].art
  BY <1>1, GoToFacts DEF RuntimeInvariant
<1>10. StageFacts(c)'
  BY <1>1, <1>2, <1>4, <1>5, <1>8, <1>9 DEF StageFacts, status
<1> QED BY <1>1, <1>7, <1>8, <1>10, GoToStep

LEMMA BindStep ==
  ASSUME RuntimeInvariant, NEW c \in Callers, Bind(c)
  PROVE  RuntimeInvariant'
<1>1. /\ Holds(c) /\ call[c].pc = "bind" /\ GoTo(c, "deployed")
      /\ overlay' = call[c].art /\ held' = fresh /\ fresh' = {}
      /\ UNCHANGED <<fabric, cma, leaked, faults>> /\ UNCHANGED <<status, files>>
  BY DEF Bind, At, BindRuntime
<1>2. /\ ~ready /\ Cleared /\ lid \in {None, call[c].lid} /\ fabric = call[c].art
      /\ fresh = Buffers /\ call[c].art \in Artifacts
  BY <1>1 DEF RuntimeInvariant, StageFacts, CallsAreWhole
<1>3. /\ Cardinality(held) = 0 /\ Cardinality(fresh) = 2
      /\ Cardinality(held') = 2 /\ Cardinality(fresh') = 0
  BY <1>1, <1>2, BufferSets DEF Cleared
<1>4. BackendTypeOK' /\ BuffersAccountedFor'
  BY <1>1, <1>2, <1>3 DEF RuntimeInvariant, TypeOK, BackendTypeOK, BuffersAccountedFor
<1>5. /\ LeaseWithArtifact' /\ files' \in SUBSET Artifacts /\ ~ready'
      /\ lid' \in Leases \cup {None} /\ art' \in Artifacts \cup {None} /\ ready' \in BOOLEAN
  BY <1>1, <1>2 DEF RuntimeInvariant, TypeOK, LeaseWithArtifact, status
<1>6. call'[c].pc = "deployed" /\ call'[c].lid = call[c].lid /\ call'[c].art = call[c].art
  BY <1>1, GoToFacts DEF RuntimeInvariant, Stages
<1>7. StageFacts(c)'
  BY <1>1, <1>2, <1>5, <1>6 DEF StageFacts, status
<1> QED BY <1>1, <1>4, <1>5, <1>7, GoToStep DEF Stages

LEMMA DeployedStep ==
  ASSUME RuntimeInvariant, NEW c \in Callers, Deployed(c)
  PROVE  RuntimeInvariant'
<1>1. /\ Holds(c) /\ call[c].pc = "deployed" /\ Answer(c, "ok")
      /\ lid' = call[c].lid /\ art' = call[c].art /\ ready' = TRUE
      /\ UNCHANGED <<backend, faults, files>>
  BY DEF Deployed, At
<1>2. /\ call[c].lid \in Leases /\ call[c].art \in Artifacts
      /\ overlay = call[c].art /\ fabric = call[c].art /\ held = Buffers
  BY <1>1 DEF RuntimeInvariant, StageFacts, CallsAreWhole
<1>3. fresh = {}
  <2>1. \A d \in Callers \ {c} : call[d].pc \notin Stages
    BY <1>1, OnlyHolderAtWork DEF RuntimeInvariant
  <2> QED BY <1>1, <2>1 DEF RuntimeInvariant, FreshIsLoading, Stages
<1>4. BackendTypeOK' /\ BuffersAccountedFor' /\ files' \in SUBSET Artifacts
  BY <1>1 DEF RuntimeInvariant, TypeOK, BackendTypeOK, BuffersAccountedFor, backend, runtime
<1>5. LeaseWithArtifact' /\ Loaded' /\ fresh' = {} /\ lid' # None
  BY <1>1, <1>2, <1>3, LeasesAssumption, ArtifactsAssumption
  DEF LeaseWithArtifact, Loaded, backend, runtime
<1>6. lid' \in Leases \cup {None} /\ art' \in Artifacts \cup {None} /\ ready' \in BOOLEAN
  BY <1>1, <1>2
<1> QED BY <1>1, <1>4, <1>5, <1>6, AnswerStep DEF Answers

-----------------------------------------------------------------------------
(* The steps of predictions and releases, and the restart.                 *)

\* A handler whose stage tells nothing about the backend goes on to "predict" or "hung".
LEMMA PredictionGoesOn ==
  ASSUME RuntimeInvariant, NEW c \in Callers, NEW pc \in {"predict", "hung"},
         Holds(c), call[c].pc \in {"waiting", "predict"}, GoTo(c, pc),
         call[c].lid = lid, ready, UNCHANGED <<backend, status, files>>,
         faults' \in 0 .. MaxFaults
  PROVE  RuntimeInvariant'
<1>1. fresh = {} /\ (Loaded \/ (Cleared /\ leaked > 0)) /\ (lid = None => Cleared)
  BY QuietHolder
<1>2. /\ BackendTypeOK' /\ BuffersAccountedFor' /\ LeaseWithArtifact'
      /\ files' \in SUBSET Artifacts
      /\ lid' \in Leases \cup {None} /\ art' \in Artifacts \cup {None} /\ ready' \in BOOLEAN
  BY DEF RuntimeInvariant, TypeOK, BackendTypeOK, BuffersAccountedFor, LeaseWithArtifact,
         backend, runtime, status
<1>3. /\ fresh' = {} /\ (Loaded' \/ (Cleared' /\ leaked' > 0)) /\ (lid' = None => Cleared')
  BY <1>1 DEF Loaded, Cleared, backend, runtime, status
<1>4. call'[c].pc = pc /\ call'[c].lid = call[c].lid
  BY GoToFacts DEF RuntimeInvariant, Stages
<1>5. StageFacts(c)'
  BY <1>4 DEF StageFacts, status
<1> QED BY <1>2, <1>3, <1>5, GoToStep DEF Stages

LEMMA PredictFailsStep ==
  ASSUME RuntimeInvariant, NEW c \in Callers, PredictFails(c)
  PROVE  RuntimeInvariant'
<1>1. /\ Holds(c) /\ call[c].pc = "predict" /\ ready' = FALSE /\ Answer(c, "error")
      /\ UNCHANGED <<fabric, fresh, lid, art, files>>
  BY DEF PredictFails, At, AfterFailure
<1>2. fresh = {} /\ (lid = None => Cleared)
  BY <1>1, QuietHolder
<1>3. BackendTypeOK /\ BuffersAccountedFor
  BY DEF RuntimeInvariant, TypeOK
<1>4. BackendTypeOK' /\ BuffersAccountedFor' /\ (lid' = None => Cleared')
  <2>1. CASE UNCHANGED runtime /\ (UNCHANGED faults \/ Faults(1))
    <3>1. faults' \in 0 .. MaxFaults
      BY <1>3, <2>1, MaxFaultsAssumption DEF Faults, BackendTypeOK
    <3> QED BY <1>1, <1>2, <1>3, <2>1, <3>1 DEF BackendTypeOK, BuffersAccountedFor, Cleared, runtime
  <2>2. ASSUME NEW stuck \in SUBSET held, ClearRuntime(stuck), Faults(1 + Cardinality(stuck))
        PROVE  BackendTypeOK' /\ BuffersAccountedFor' /\ (lid' = None => Cleared')
    <3>1. /\ Cleared' /\ BuffersAccountedFor' /\ cma' \in Nat /\ leaked' \in Nat
          /\ overlay' = None /\ held' \in SUBSET Buffers /\ Cardinality(stuck) \in Nat
      BY <1>1, <1>3, <2>2, ClearFacts
    <3>2. faults' \in 0 .. MaxFaults
      BY <1>3, <2>2, <3>1, MaxFaultsAssumption DEF Faults, BackendTypeOK
    <3> QED BY <1>1, <1>3, <3>1, <3>2 DEF BackendTypeOK
  <2> QED BY <2>1, <2>2 DEF PredictFails
<1>5. /\ LeaseWithArtifact' /\ files' \in SUBSET Artifacts /\ fresh' = {}
      /\ lid' \in Leases \cup {None} /\ art' \in Artifacts \cup {None} /\ ready' \in BOOLEAN
  BY <1>1, <1>2 DEF RuntimeInvariant, TypeOK, LeaseWithArtifact
<1> QED BY <1>1, <1>4, <1>5, AnswerStep DEF Answers

LEMMA PredictStep ==
  ASSUME RuntimeInvariant, NEW c \in Callers, Predict(c)
  PROVE  RuntimeInvariant'
<1>1. CASE PredictConflict(c) \/ RefuseImage(c) \/ PredictSucceeds(c)
  BY <1>1, RefusalStep
  DEF PredictConflict, RefuseImage, PredictSucceeds, Entering, At, Answers
<1>2. CASE StartPredict(c)
  <2>1. faults' \in 0 .. MaxFaults
    BY <1>2 DEF StartPredict, RuntimeInvariant, TypeOK, BackendTypeOK
  <2> QED BY <1>2, <2>1, PredictionGoesOn DEF StartPredict, MayPredict, Entering, At
<1>3. CASE TransferHangs(c)
  <2>1. faults' \in 0 .. MaxFaults
    BY <1>3, MaxFaultsAssumption
    DEF TransferHangs, Faults, RuntimeInvariant, TypeOK, BackendTypeOK
  <2>2. ready /\ call[c].lid = lid
    BY <1>3 DEF TransferHangs, At, RuntimeInvariant, StageFacts
  <2> QED BY <1>3, <2>1, <2>2, PredictionGoesOn DEF TransferHangs, At
<1>4. CASE PredictFails(c)
  BY <1>4, PredictFailsStep
<1> QED BY <1>1, <1>2, <1>3, <1>4 DEF Predict

LEMMA ReleaseBackendStep ==
  ASSUME RuntimeInvariant, NEW c \in Callers, ReleaseBackend(c)
  PROVE  RuntimeInvariant'
<1>1. PICK stuck \in SUBSET held :
        /\ ClearRuntime(stuck) /\ Faults(Cardinality(stuck))
        /\ IF stuck = {} THEN GoTo(c, "released") ELSE Answer(c, "error")
  BY DEF ReleaseBackend, ReleaseRuntime
<1>2. Holds(c) /\ call[c].pc = "waiting" /\ UNCHANGED <<fabric, fresh, status, files>>
  BY DEF ReleaseBackend, Entering, At
<1>3. fresh = {}
  BY <1>2, QuietHolder
<1>4. /\ Cleared' /\ BuffersAccountedFor' /\ cma' \in Nat /\ leaked' \in Nat
      /\ overlay' = None /\ held' \in SUBSET Buffers /\ Cardinality(stuck) \in Nat
      /\ stuck # {} => leaked' > 0
  BY <1>1, <1>2, ClearFacts DEF RuntimeInvariant, TypeOK
<1>5. faults' \in 0 .. MaxFaults
  BY <1>1, <1>4, MaxFaultsAssumption DEF Faults, RuntimeInvariant, TypeOK, BackendTypeOK
<1>6. /\ BackendTypeOK' /\ LeaseWithArtifact' /\ files' \in SUBSET Artifacts /\ fresh' = {}
      /\ lid' \in Leases \cup {None} /\ art' \in Artifacts \cup {None} /\ ready' \in BOOLEAN
  BY <1>2, <1>3, <1>4, <1>5 DEF RuntimeInvariant, TypeOK, BackendTypeOK, LeaseWithArtifact,
     status
<1>7. CASE stuck # {}
  BY <1>1, <1>2, <1>4, <1>6, <1>7, AnswerStep DEF Answers
<1>8. CASE stuck = {}
  <2>1. GoTo(c, "released")
    BY <1>1, <1>8
  <2>2. call'[c].pc = "released"
    BY <1>2, <2>1, GoToFacts DEF RuntimeInvariant, Stages
  <2>3. StageFacts(c)'
    BY <1>4, <2>2 DEF StageFacts
  <2> QED BY <1>2, <1>4, <1>6, <2>1, <2>3, GoToStep DEF Stages
<1> QED BY <1>7, <1>8

LEMMA ReleasedStep ==
  ASSUME RuntimeInvariant, NEW c \in Callers, Released(c)
  PROVE  RuntimeInvariant'
<1>1. /\ Holds(c) /\ call[c].pc = "released" /\ Answer(c, "ok")
      /\ lid' = None /\ art' = None /\ ready' = FALSE
      /\ UNCHANGED <<backend, faults, files>>
  BY DEF Released, At
<1>2. fresh = {} /\ Cleared
  <2>1. \A d \in Callers \ {c} : call[d].pc \notin Stages
    BY <1>1, OnlyHolderAtWork DEF RuntimeInvariant
  <2> QED BY <1>1, <2>1 DEF RuntimeInvariant, FreshIsLoading, StageFacts, Stages
<1>3. BackendTypeOK' /\ BuffersAccountedFor' /\ files' \in SUBSET Artifacts
  BY <1>1 DEF RuntimeInvariant, TypeOK, BackendTypeOK, BuffersAccountedFor, backend, runtime
<1>4. LeaseWithArtifact' /\ Cleared' /\ fresh' = {} /\ ~ready'
  BY <1>1, <1>2 DEF LeaseWithArtifact, Cleared, backend, runtime
<1>5. lid' \in Leases \cup {None} /\ art' \in Artifacts \cup {None} /\ ready' \in BOOLEAN
  BY <1>1
<1> QED BY <1>1, <1>3, <1>4, <1>5, AnswerStep DEF Answers

LEMMA RestartStep ==
  ASSUME RuntimeInvariant, Restart
  PROVE  RuntimeInvariant'
<1>1. /\ overlay' = None /\ held' = {} /\ fresh' = {} /\ cma' = 0 /\ leaked' = 0
      /\ lid' = None /\ art' = None /\ ready' = FALSE /\ queue' = <<>>
      /\ Faults(1) /\ UNCHANGED <<fabric, files>>
  BY DEF Restart, BackendRestart
<1>2. call' \in [Callers -> Call] /\ \A c \in Callers : call'[c].pc = "idle"
  <2>1. Answered("error") \in Call /\ Answered("error").pc = "idle"
    BY DEF Answered, Call, Answers
  <2>2. call \in [Callers -> Call]
    BY DEF RuntimeInvariant, TypeOK
  <2>3. call' = [c \in Callers |-> IF call[c].pc = "idle" THEN call[c] ELSE Answered("error")]
    BY DEF Restart
  <2> HIDE DEF Call
  <2> QED BY <2>1, <2>2, <2>3
<1>3. faults' \in 0 .. MaxFaults
  BY <1>1, MaxFaultsAssumption DEF Faults, RuntimeInvariant, TypeOK, BackendTypeOK
<1>4. BackendTypeOK' /\ files' \in SUBSET Artifacts
  BY <1>1, <1>3 DEF RuntimeInvariant, TypeOK, BackendTypeOK
<1>5. queue' \in Seq(Callers)
  BY <1>1, EmptySeq
<1>6. TypeOK'
  BY <1>1, <1>2, <1>4, <1>5 DEF TypeOK
<1>7. BuffersAccountedFor' /\ LeaseWithArtifact'
  BY <1>1, BufferSets DEF BuffersAccountedFor, LeaseWithArtifact
<1>8. StageHoldsLock' /\ CallsAreWhole' /\ \A c \in Callers : StageFacts(c)'
  BY <1>2 DEF StageHoldsLock, CallsAreWhole, StageFacts, Stages
<1>9. FreshIsLoading' /\ ReadyOrCleared' /\ FreeIsCleared'
  BY <1>1 DEF FreshIsLoading, ReadyOrCleared, FreeIsCleared, Cleared
<1> QED BY <1>6, <1>7, <1>8, <1>9 DEF RuntimeInvariant

-----------------------------------------------------------------------------
(* The invariant and what follows from it, for any callers, leases,        *)
(* artifacts and number of failures.                                       *)

LEMMA InitialState == Init => RuntimeInvariant
<1> SUFFICES ASSUME Init PROVE RuntimeInvariant
  OBVIOUS
<1>1. Answered("none") \in Call /\ Answered("none").pc = "idle"
  BY DEF Answered, Call, Answers
<1>2. call \in [Callers -> Call] /\ \A c \in Callers : call[c].pc = "idle"
  BY <1>1 DEF Init
<1>3. BackendTypeOK /\ BuffersAccountedFor
  BY BufferSets, MaxFaultsAssumption DEF Init, BackendInit, BackendTypeOK, BuffersAccountedFor
<1>4. TypeOK
  BY <1>2, <1>3, EmptySeq DEF Init, TypeOK
<1>5. StageHoldsLock /\ CallsAreWhole /\ \A c \in Callers : StageFacts(c)
  BY <1>2 DEF StageHoldsLock, CallsAreWhole, StageFacts, Stages
<1>6. FreshIsLoading /\ ReadyOrCleared /\ FreeIsCleared /\ LeaseWithArtifact
  BY DEF Init, BackendInit, FreshIsLoading, ReadyOrCleared, FreeIsCleared, Cleared,
         LeaseWithArtifact
<1> QED BY <1>3, <1>4, <1>5, <1>6 DEF RuntimeInvariant

LEMMA HandlerStep ==
  ASSUME RuntimeInvariant, NEW c \in Callers, Handler(c)
  PROVE  RuntimeInvariant'
<1>1. CASE DeployConflict(c) \/ ReleaseConflict(c)
  BY <1>1, RefusalStep DEF DeployConflict, ReleaseConflict, Entering, At, Answers
<1>2. CASE AllocateBuffer(c, "x", "y") \/ AllocateBuffer(c, "y", "bind")
  <2>1. ASSUME NEW buffer \in Buffers, NEW pc,
               <<buffer, pc>> \in {<<"x", "y">>, <<"y", "bind">>},
               AllocateBuffer(c, buffer, pc)
        PROVE  RuntimeInvariant'
    <3>1. Holds(c) /\ call[c].pc \in {"x", "y"} /\ UNCHANGED <<status, files>> /\ At(c, buffer)
      BY <2>1 DEF AllocateBuffer, At, Buffers
    <3>2. CASE Allocate(buffer) /\ GoTo(c, pc)
      BY <2>1, <3>1, <3>2, AllocateStep
    <3>3. ASSUME NEW stuck \in SUBSET Buffers, AllocateFails(stuck), Answer(c, "error")
          PROVE  RuntimeInvariant'
      BY <3>1, <3>3, AllocateFailsStep
    <3> QED BY <2>1, <3>2, <3>3 DEF AllocateBuffer
  <2> QED BY <1>2, <2>1 DEF Buffers
<1>3. CASE \/ StageFiles(c) \/ StageFails(c) \/ ClearForLoad(c) \/ Program(c)
           \/ Bind(c) \/ Deployed(c)
  BY <1>3, StageFilesStep, StageFailsStep, ClearForLoadStep, ProgramStep, BindStep,
     DeployedStep
<1>4. CASE ReleaseBackend(c) \/ Released(c)
  BY <1>4, ReleaseBackendStep, ReleasedStep
<1>5. CASE Predict(c)
  BY <1>5, PredictStep
<1> QED BY <1>1, <1>2, <1>3, <1>4, <1>5 DEF Handler, Deploy, Release

LEMMA EveryStep == RuntimeInvariant /\ [Next]_vars => RuntimeInvariant'
<1> SUFFICES ASSUME RuntimeInvariant, [Next]_vars PROVE RuntimeInvariant'
  OBVIOUS
<1>1. CASE UNCHANGED vars
  <2>1. UNCHANGED <<fabric, overlay, held, cma, leaked, fresh, faults, lid, art, ready,
                    files, queue, call>>
    BY <1>1 DEF vars, backend, runtime, status
  <2>2. TypeOK' /\ BuffersAccountedFor' /\ LeaseWithArtifact'
    BY <2>1 DEF RuntimeInvariant, TypeOK, BackendTypeOK, BuffersAccountedFor, LeaseWithArtifact
  <2>3. StageHoldsLock' /\ CallsAreWhole' /\ \A c \in Callers : StageFacts(c)'
    BY <2>1 DEF RuntimeInvariant, StageHoldsLock, Holds, CallsAreWhole, StageFacts, Cleared
  <2>4. FreshIsLoading' /\ ReadyOrCleared' /\ FreeIsCleared'
    BY <2>1 DEF RuntimeInvariant, FreshIsLoading, ReadyOrCleared, FreeIsCleared, Loaded, Cleared
  <2> QED BY <2>2, <2>3, <2>4 DEF RuntimeInvariant
<1>2. ASSUME NEW c \in Callers, Arrive(c) \/ Handler(c) PROVE RuntimeInvariant'
  BY <1>2, ArriveStep, HandlerStep
<1>3. CASE Restart
  BY <1>3, RestartStep
<1> QED BY <1>1, <1>2, <1>3 DEF Next

(* What each stage of a handler of state.py has made of the backend of     *)
(* fpga.py is as RuntimeInvariant says, in every reachable state.          *)
THEOREM RuntimeInvariantHolds == Spec => []RuntimeInvariant
  BY InitialState, EveryStep, PTL DEF Spec

(* Every variable keeps its type; above all the number of CMA buffers is   *)
(* never negative: _clear_runtime never frees a buffer twice.              *)
THEOREM WorkerTypeCorrect == Spec => []TypeOK
<1>1. RuntimeInvariant => TypeOK
  BY DEF RuntimeInvariant
<1> QED BY <1>1, RuntimeInvariantHolds, PTL

(* No CMA buffer is lost track of, wherever _load_overlay_sync,            *)
(* _predict_sync or release fails.                                         *)
THEOREM BuffersHold == Spec => []BuffersAccountedFor
<1>1. RuntimeInvariant => BuffersAccountedFor
  BY DEF RuntimeInvariant
<1> QED BY <1>1, RuntimeInvariantHolds, PTL

LEMMA AtRest ==
  ASSUME ~InService
  PROVE  \A c \in Callers : call[c].pc \notin Stages
  BY DEF InService

(* A board that no lease owns holds neither overlay nor buffers while no   *)
(* handler is at work (state.py's deploy and release).                     *)
THEOREM FreeBoardIsEmpty == Spec => []FreeBoardHoldsNothing
<1>1. RuntimeInvariant => FreeBoardHoldsNothing
  BY AtRest DEF RuntimeInvariant, FreeIsCleared, FreshIsLoading, Cleared,
     FreeBoardHoldsNothing, Stages
<1> QED BY <1>1, RuntimeInvariantHolds, PTL

(* A ready board has its artifact loaded, but for the release that could   *)
(* not free its buffers (state.py's ready against fpga.py's runtime).      *)
THEOREM ReadyBoardIsLoaded == Spec => []ReadyIsLoaded
<1>1. RuntimeInvariant => ReadyIsLoaded
  BY AtRest DEF RuntimeInvariant, ReadyOrCleared, Loaded, Cleared, ReadyIsLoaded, Stages
<1> QED BY <1>1, RuntimeInvariantHolds, PTL

(* /status, which takes no lock, never shows half of a deployment.         *)
THEOREM StatusHolds == Spec => []StatusIsWhole
<1>1. RuntimeInvariant => StatusIsWhole
  BY DEF RuntimeInvariant, LeaseWithArtifact, StageFacts, StatusIsWhole
<1> QED BY <1>1, RuntimeInvariantHolds, PTL

LEMMA StageIsPrivate ==
  ASSUME RuntimeInvariant, NEW c \in Callers, call[c].pc \in Stages,
         NEW d \in Callers \ {c}, Handler(d)
  PROVE  FALSE
<1>1. Holds(c)
  BY DEF RuntimeInvariant, StageHoldsLock
<1>2. Holds(d)
  BY DEF Handler, Deploy, Predict, Release, DeployConflict, StageFiles, StageFails,
     ClearForLoad, Program, AllocateBuffer, Bind, Deployed, PredictConflict, StartPredict,
     RefuseImage, PredictSucceeds, PredictFails, TransferHangs, ReleaseConflict,
     ReleaseBackend, Released, Entering, At
<1> QED BY <1>1, <1>2 DEF Holds

LEMMA PredictionStep ==
  ASSUME RuntimeInvariant, [Next]_vars, NEW c \in Callers, call[c].pc = "predict",
         call'[c].answer = "ok"
  PROVE  PredictSucceeds(c)
<1>1. call[c].answer = "none" /\ call \in [Callers -> Call]
  BY DEF RuntimeInvariant, CallsAreWhole, TypeOK
<1>2. CASE UNCHANGED vars
  BY <1>1, <1>2 DEF vars
<1>3. CASE Restart
  BY <1>3 DEF Restart, Answered
<1>4. ASSUME NEW d \in Callers, Arrive(d) PROVE FALSE
  <2>1. d # c
    BY <1>4 DEF Arrive
  <2>2. call'[c] = call[c]
    BY <1>1, <1>4, <2>1 DEF Arrive
  <2> QED BY <1>1, <2>2
<1>5. CASE Handler(c)
  <2>1. Predict(c)
    BY <1>5 DEF Handler, Deploy, Release, DeployConflict, StageFiles, StageFails,
       ClearForLoad, Program, AllocateBuffer, Bind, Deployed, ReleaseConflict,
       ReleaseBackend, Released, Entering, At
  <2>2. ~PredictConflict(c) /\ ~StartPredict(c)
    BY DEF PredictConflict, StartPredict, Entering, At
  <2>3. ASSUME NEW answer \in Answers \ {"ok"}, Holds(c), Answer(c, answer) PROVE FALSE
    BY <2>3, AnswerFacts DEF RuntimeInvariant
  <2>4. ~RefuseImage(c) /\ ~PredictFails(c)
    BY <2>3 DEF RefuseImage, PredictFails, At, Answers
  <2>5. ~TransferHangs(c)
    <3>1. SUFFICES ASSUME Holds(c), GoTo(c, "hung") PROVE FALSE
      BY DEF TransferHangs, At
    <3> QED BY <1>1, <3>1, GoToFacts DEF RuntimeInvariant, Stages
  <2> QED BY <2>1, <2>2, <2>4, <2>5 DEF Predict
<1>6. ASSUME NEW d \in Callers \ {c}, Handler(d) PROVE FALSE
  BY <1>6, StageIsPrivate DEF Stages
<1> QED BY <1>2, <1>3, <1>4, <1>5, <1>6 DEF Next

(* Every successful prediction ran on the overlay that was deployed for    *)
(* the caller's own lease (state.py's predict, fpga.py's _predict_sync).   *)
THEOREM PredictionsRunOnTheirOverlay == Spec => PredictsOnItsOverlay
<1>1. ASSUME RuntimeInvariant, [Next]_vars, NEW c \in Callers, call[c].pc = "predict",
             call'[c].answer = "ok"
      PROVE  lid = call[c].lid /\ overlay = art /\ fabric = art /\ held = Buffers
  <2>1. RuntimeBound
    BY <1>1, PredictionStep DEF PredictSucceeds
  <2>2. /\ Holds(c) /\ ready /\ lid = call[c].lid
    BY <1>1 DEF RuntimeInvariant, StageHoldsLock, StageFacts, Stages
  <2>3. Loaded \/ Cleared
    BY <1>1, <2>2, QuietHolder
  <2> QED BY <2>1, <2>2, <2>3 DEF RuntimeBound, Loaded, Cleared
<1>2. RuntimeInvariant /\ [Next]_vars =>
        [\A c \in Callers :
           (call[c].pc = "predict" /\ call'[c].answer = "ok")
             => lid = call[c].lid /\ overlay = art /\ fabric = art /\ held = Buffers]_vars
  BY <1>1
<1> QED BY <1>2, RuntimeInvariantHolds, PTL DEF Spec, PredictsOnItsOverlay

(* The many steps of state.py's handlers amount to the board that Central  *)
(* counts on: every step is one of LeasedBoard or changes nothing of it.   *)
THEOREM WorkerImplementsLeasedBoard == Spec => ImplementsLeasedBoard
<1> USE DEF LeasedBoard!board
<1>1. Init => LeasedBoard!BoardInit
  BY DEF Init, LeasedBoard!BoardInit
<1>2. ASSUME RuntimeInvariant, [Next]_vars
      PROVE  LeasedBoard!BoardNext \/ UNCHANGED <<lid, art, ready>>
  <2>1. CASE UNCHANGED vars
    BY <2>1 DEF vars, status
  <2>2. CASE Restart
    BY <2>2 DEF Restart, LeasedBoard!BoardNext, LeasedBoard!Freed
  <2>3. ASSUME NEW c \in Callers, Deployed(c)
        PROVE  LeasedBoard!BoardNext
    <3>1. /\ lid' = call[c].lid /\ art' = call[c].art /\ ready' = TRUE
          /\ call[c].pc = "deployed"
      BY <2>3 DEF Deployed, At
    <3>2. /\ call[c].lid \in Leases /\ call[c].art \in Artifacts
          /\ lid \in {None, call[c].lid}
      BY <1>2, <3>1 DEF RuntimeInvariant, CallsAreWhole, StageFacts
    <3> QED BY <3>1, <3>2, LeasesAssumption, ArtifactsAssumption
            DEF LeasedBoard!BoardNext, LeasedBoard!Deployed
  <2>4. ASSUME NEW c \in Callers, Released(c)
        PROVE  LeasedBoard!BoardNext
    BY <2>4 DEF Released, LeasedBoard!BoardNext, LeasedBoard!Freed
  <2>5. ASSUME NEW c \in Callers, StageFiles(c) \/ StageFails(c) \/ PredictFails(c)
        PROVE  LeasedBoard!BoardNext \/ UNCHANGED <<lid, art, ready>>
    BY <2>5 DEF StageFiles, StageFails, PredictFails, Unready, AfterFailure,
       LeasedBoard!BoardNext, LeasedBoard!Unready
  <2>6. ASSUME NEW c \in Callers,
               \/ Arrive(c) \/ DeployConflict(c) \/ ClearForLoad(c) \/ Program(c)
               \/ AllocateBuffer(c, "x", "y") \/ AllocateBuffer(c, "y", "bind") \/ Bind(c)
               \/ PredictConflict(c) \/ StartPredict(c) \/ RefuseImage(c)
               \/ PredictSucceeds(c) \/ TransferHangs(c)
               \/ ReleaseConflict(c) \/ ReleaseBackend(c)
        PROVE  UNCHANGED <<lid, art, ready>>
    BY <2>6 DEF Arrive, DeployConflict, ClearForLoad, Program, AllocateBuffer, Bind,
       PredictConflict, StartPredict, RefuseImage, PredictSucceeds, TransferHangs,
       ReleaseConflict, ReleaseBackend, status
  <2> QED BY <1>2, <2>1, <2>2, <2>3, <2>4, <2>5, <2>6
          DEF Next, Handler, Deploy, Predict, Release
<1>3. RuntimeInvariant /\ [Next]_vars => [LeasedBoard!BoardNext]_(LeasedBoard!board)
  BY <1>2
<1> QED BY <1>1, <1>3, RuntimeInvariantHolds, PTL
        DEF Spec, ImplementsLeasedBoard, LeasedBoard!BoardSpec
=============================================================================
