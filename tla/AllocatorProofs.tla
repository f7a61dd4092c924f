---------------------------- MODULE AllocatorProofs ----------------------------
(***************************************************************************)
(* TLAPS proofs about the queue and the allocator: AllocatorInvariant is   *)
(* inductive, hence no wake-up of the allocator is lost but the one that   *)
(* the health monitor does not send.                                       *)
(*                                                                         *)
(* The queue has a head because there are finitely many students.          *)
(***************************************************************************)
EXTENDS OverlayProofs, AllocatorInvariant, FiniteSetTheorems

-----------------------------------------------------------------------------
(* The queue.                                                              *)

\* Whoever is ahead of s has fewer students ahead of himself.
LEMMA FewerAhead ==
  ASSUME IsFiniteSet(Students), TypeOK, QueueIsOrdered,
         NEW s \in Students, NEW t \in ahead[s]
  PROVE  /\ t \in QueuedStudents
         /\ Cardinality(ahead[s]) \in Nat /\ Cardinality(ahead[t]) \in Nat
         /\ Cardinality(ahead[t]) < Cardinality(ahead[s])
<1>1. t \in Students /\ t \in QueuedStudents /\ ahead[t] \subseteq ahead[s]
  BY DEF QueueIsOrdered, TypeOK
<1>2. t \notin ahead[t]
  BY <1>1 DEF QueueIsOrdered
<1>3. IsFiniteSet(ahead[s])
  BY FS_Subset DEF TypeOK
<1>4. IsFiniteSet(ahead[t]) /\ Cardinality(ahead[t]) <= Cardinality(ahead[s])
      /\ (Cardinality(ahead[s]) = Cardinality(ahead[t]) => ahead[s] = ahead[t])
  BY <1>1, <1>3, FS_Subset
<1>5. Cardinality(ahead[s]) \in Nat /\ Cardinality(ahead[t]) \in Nat
  BY <1>3, <1>4, FS_CardinalityType
<1> QED BY <1>1, <1>2, <1>4, <1>5

LEMMA QueueHasHead ==
  ASSUME IsFiniteSet(Students), TypeOK, QueueIsOrdered, QueuedStudents # {}
  PROVE  \E s \in Students : OldestQueued(s)
<1> DEFINE N == {Cardinality(ahead[s]) : s \in QueuedStudents}
<1>1. N \in SUBSET Nat /\ N # {}
  <2>1. ASSUME NEW s \in QueuedStudents PROVE Cardinality(ahead[s]) \in Nat
    <3>1. ahead[s] \in SUBSET Students
      BY DEF TypeOK, QueuedStudents
    <3> QED BY <3>1, FS_Subset, FS_CardinalityType
  <2> QED BY <2>1
<1>2. PICK n \in N : \A m \in N : n <= m
  BY <1>1, LeastElement
<1>3. PICK s \in QueuedStudents : n = Cardinality(ahead[s])
  BY <1>2
<1>4. ASSUME NEW t \in ahead[s] PROVE FALSE
  <2>1. /\ t \in QueuedStudents /\ Cardinality(ahead[t]) < Cardinality(ahead[s])
        /\ Cardinality(ahead[s]) \in Nat /\ Cardinality(ahead[t]) \in Nat
    BY <1>3, FewerAhead DEF QueuedStudents
  <2>2. Cardinality(ahead[t]) \in N
    BY <2>1
  <2> QED BY <1>2, <1>3, <2>1, <2>2
<1> QED BY <1>3, <1>4 DEF OldestQueued, QueuedStudents

\* The request that has just been accepted is the last one.
LEMMA SubmittedIsLast ==
  ASSUME Groundwork, NEW s \in Students, Submits(s)
  PROVE  LastAccepted(s)' \in Pending(s)'
<1>1. PICK i \in Requests :
        /\ request[s][i].status = "NONE"
        /\ \A j \in Requests : j < i => request[s][j].status # "NONE"
        /\ RequestBecomes(s, i, "QUEUED", None, latest[s])
  BY DEF Submits
<1>2. \A j \in Requests : j > i => request[s][j].status = "NONE"
  BY <1>1 DEF Groundwork, ArtifactsAreOwn, RequestsInOrder, Accepted, Requests
<1>3. Accepted(s)' = 1 .. i
  BY <1>1, <1>2, BoundsAssumption DEF Accepted, RequestBecomes, Requests
<1>4. Cardinality(1 .. i) = i
  BY FS_Interval DEF Requests
<1>5. LastAccepted(s)' = i
  BY <1>3, <1>4 DEF LastAccepted
<1> QED BY <1>1, <1>5 DEF Pending, RequestBecomes

-----------------------------------------------------------------------------
(* Steps that the queue and the allocator do not notice.                   *)

\* The coroutine is on its way to look for a board.
Looking == {"process", "reserve"}

\* t waits or not as before, and his coroutine goes on looking for a board or does not
\* begin to; while he waits it does not stop either.
QueueRests(t) ==
  /\ lease'[t].state = "QUEUED" <=> lease[t].state = "QUEUED"
  /\ op'[t].pc \in Looking =>
       op[t].pc \in Looking /\ op'[t].by = op[t].by /\ request'[t] = request[t]
  /\ op[t].pc \in Looking /\ lease[t].state = "QUEUED" => op'[t].pc \in Looking
  /\ op[t].pc = "reserve" => op'[t].pc = "reserve"
  /\ op'[t].by = "allocator" => op[t].by = "allocator"

Undisturbed ==
  /\ \A t \in Students : QueueRests(t)
  /\ ahead' = ahead /\ allocator' = allocator /\ (event => event')

PartsFor(t) == LooksForSomebody(t) /\ AllocatorKnowsQueue(t) /\ LockedOutKnowsQueue(t)

LEMMA SameRequestsSameLast ==
  ASSUME NEW t \in Students, request'[t] = request[t]
  PROVE  LastAccepted(t)' = LastAccepted(t) /\ Pending(t)' = Pending(t)
  BY DEF LastAccepted, Accepted, Pending

LEMMA QueueStays ==
  ASSUME \A t \in Students : lease'[t].state = "QUEUED" <=> lease[t].state = "QUEUED"
  PROVE  QueuedStudents' = QueuedStudents
  BY DEF QueuedStudents

LEMMA OrderStays ==
  ASSUME QueueIsOrdered, ahead' = ahead, QueuedStudents' = QueuedStudents
  PROVE  QueueIsOrdered'
  BY DEF QueueIsOrdered

\* What a student who takes no part in a step keeps: the allocator stays, or it has
\* returned from another student.
LEMMA PartsStay ==
  ASSUME NEW t \in Students, PartsFor(t), QueueRests(t), OldestQueued(t) => OldestQueued(t)',
         event => event',
         \/ allocator' = allocator
         \/ op[t].by # "allocator" /\ allocator'.pc # "lock"
  PROVE  PartsFor(t)'
<1>1. LooksForSomebody(t)'
  BY SameRequestsSameLast
  DEF PartsFor, LooksForSomebody, QueueRests, Looking
<1>2. AllocatorKnowsQueue(t)'
  BY DEF PartsFor, AllocatorKnowsQueue, QueueRests, Looking
<1>3. LockedOutKnowsQueue(t)'
  BY DEF PartsFor, LockedOutKnowsQueue, QueueRests, Looking
<1> QED BY <1>1, <1>2, <1>3 DEF PartsFor

LEMMA UndisturbedKeeps ==
  ASSUME AllocatorInvariant, Undisturbed
  PROVE  AllocatorInvariant'
<1>1. QueuedStudents' = QueuedStudents
  BY QueueStays DEF Undisturbed, QueueRests
<1>2. QueueIsOrdered'
  BY <1>1, OrderStays DEF AllocatorInvariant, Undisturbed
<1>3. ASSUME NEW t \in Students PROVE PartsFor(t)'
  BY <1>1, PartsStay DEF AllocatorInvariant, PartsFor, Undisturbed, OldestQueued
<1> QED BY <1>2, <1>3 DEF AllocatorInvariant, PartsFor

\* No board has become free for somebody.
NoBoardComes ==
  /\ leases <= leases'
  /\ \A b \in Boards : Available(b)' => Available(b)

LEMMA NothingNewToGive ==
  ASSUME NoBoardComes, leases \in Nat, leases' \in Nat, BoardToGive'
  PROVE  BoardToGive
  BY BoundsAssumption DEF NoBoardComes, BoardToGive

\* What the step does for somebody who is stranded afterwards.
Strands == \E t \in Students : ~Stranded(t) /\ Stranded(t)'

LEMMA UndisturbedStrands ==
  ASSUME TypeOK, TypeOK', Undisturbed, NoBoardComes, central' = central
  PROVE  ~Strands
<1>1. leases \in Nat /\ leases' \in Nat
  BY DEF TypeOK
<1>2. ASSUME NEW t \in Students, Stranded(t)' PROVE Stranded(t)
  BY <1>1, <1>2, NothingNewToGive DEF Stranded, Undisturbed, QueueRests, Looking
<1> QED BY <1>2 DEF Strands

\* An event that is set strands nobody.
LEMMA WokenStrandsNobody ==
  ASSUME event' \/ central' # "up" \/ allocator'.pc # "wait"
  PROVE  ~Strands
  BY DEF Strands, Stranded

-----------------------------------------------------------------------------
(* What a coroutine does to the queue when it goes on or returns.          *)

\* Of a step, what is to be shown.
QueueKept ==
  AllocatorInvariant' /\ (Strands => MonitorFrees /\ "monitor" \in Environment)

\* No other student takes part.
OthersRest(s) ==
  \A t \in Students \ {s} : lease'[t] = lease[t] /\ op'[t] = op[t] /\ request'[t] = request[t]

\* Who is already waiting stays where he is, s goes to the end.
LEMMA QueueLeaseOrder ==
  ASSUME TypeOK, QueueIsOrdered, NEW s \in Students, QueueLease(s)
  PROVE  /\ QueueIsOrdered' /\ QueuedStudents' = QueuedStudents \cup {s}
         /\ \A t \in Students \ {s} : ahead'[t] = ahead[t]
<1>1. /\ ahead \in [Students -> SUBSET Students] /\ lease \in [Students -> Lease]
      /\ lease' = [lease EXCEPT ![s] = Queued(lease[s])]
  BY DEF TypeOK, QueueLease
<1>2. lease'[s].state = "QUEUED"
  BY <1>1, QueuedFacts
<1>3. QueuedStudents' = QueuedStudents \cup {s}
  BY <1>1, <1>2 DEF QueuedStudents
<1>4. CASE lease[s].state = "QUEUED"
  BY <1>3, <1>4 DEF QueueLease, QueueIsOrdered
<1>5. CASE lease[s].state # "QUEUED"
  <2>1. s \notin QueuedStudents /\ ahead' = [ahead EXCEPT ![s] = QueuedStudents]
    BY <1>5 DEF QueueLease, QueuedStudents
  <2>2. ahead'[s] = QueuedStudents /\ \A t \in Students \ {s} : ahead'[t] = ahead[t]
    BY <1>1, <2>1
  <2>3. ASSUME NEW t \in Students, NEW u \in ahead'[t]
        PROVE  u # t /\ u \in QueuedStudents' /\ ahead'[u] \subseteq ahead'[t]
    <3>1. CASE t = s
      <4>1. u \in QueuedStudents /\ u # s /\ u \in Students
        BY <2>1, <2>2, <2>3, <3>1 DEF QueuedStudents
      <4>2. ahead'[u] = ahead[u] /\ ahead[u] \subseteq QueuedStudents
        BY <2>2, <4>1 DEF QueueIsOrdered
      <4> QED BY <1>3, <2>2, <3>1, <4>1, <4>2
    <3>2. CASE t # s
      <4>1. u \in ahead[t] /\ u # t /\ u \in QueuedStudents /\ ahead[u] \subseteq ahead[t]
        BY <2>2, <2>3, <3>2 DEF QueueIsOrdered
      <4>2. u # s /\ u \in Students
        BY <2>1, <4>1 DEF QueuedStudents
      <4> QED BY <1>3, <2>2, <3>2, <4>1, <4>2
    <3> QED BY <3>1, <3>2
  <2> QED BY <1>3, <2>2, <2>3 DEF QueueIsOrdered
<1> QED BY <1>4, <1>5

\* The coroutine of s goes on with a lease that does not wait.
GoesOn(s) ==
  /\ op'[s].by = op[s].by /\ op'[s].pc \notin Looking
  /\ op[s].pc # "reserve"
  /\ lease[s].state # "QUEUED" /\ lease'[s].state # "QUEUED"
  /\ UNCHANGED <<ahead, event, allocator>>

LEMMA GoingOnKeeps ==
  ASSUME TypeOK, TypeOK', AllocatorInvariant, NEW s \in Students, GoesOn(s), OthersRest(s),
         NoBoardComes, central' = central
  PROVE  QueueKept
<1>1. \A t \in Students : QueueRests(t)
  BY DEF QueueRests, GoesOn, OthersRest
<1>2. Undisturbed
  BY <1>1 DEF Undisturbed, GoesOn
<1> QED BY <1>2, UndisturbedKeeps, UndisturbedStrands DEF QueueKept

\* The coroutine of s returns.
Returns(s) ==
  /\ op'[s].pc = "free" /\ op'[s].by = "nobody"
  /\ event => event'
  /\ op[s].by = "submit" /\ request'[s] = request[s] /\ LastAccepted(s) \in Pending(s)
       => event'
  /\ IF op[s].by # "allocator" THEN allocator' = allocator
     ELSE /\ allocator'.pc # "lock"
          /\ allocator'.pc = "wait" => allocator.queued /\ lease'[s].state = "QUEUED"

LEMMA ReturnTells ==
  ASSUME TypeOK, NEW s \in Students, NEW wake \in BOOLEAN, Return(s, wake)
  PROVE  Returns(s) /\ (wake => event') /\ \A t \in Students \ {s} : op'[t] = op[t]
<1>1. op' = [op EXCEPT ![s] = FreeOp] /\ op \in [Students -> Op]
  BY DEF Return, TypeOK
<1>2. op'[s].pc = "free" /\ op'[s].by = "nobody"
  BY <1>1 DEF FreeOp
<1>3. (event => event') /\ (wake => event')
  BY DEF Return
<1>4. ASSUME op[s].by = "submit", request'[s] = request[s], LastAccepted(s) \in Pending(s)
      PROVE  event'
  <2>1. LastRequest(s) = LastAccepted(s)
    BY <1>4 DEF LastRequest, LastAccepted, Accepted
  <2>2. LastRequest(s) # 0 /\ request'[s][LastRequest(s)].status = "QUEUED"
    BY <1>4, <2>1, BoundsAssumption DEF Pending, Requests
  <2> QED BY <1>4, <2>2 DEF Return
<1>5. IF op[s].by # "allocator" THEN allocator' = allocator
      ELSE /\ allocator'.pc # "lock"
           /\ allocator'.pc = "wait" => allocator.queued /\ lease'[s].state = "QUEUED"
  BY DEF Return, IdleAllocator
<1> QED BY <1>1, <1>2, <1>3, <1>4, <1>5 DEF Returns

\* The allocator does not return to sleep from a student who could have had a board.
LEMMA AllocatorLooksOn ==
  ASSUME AllocatorInvariant, NEW s \in Students, Returns(s), op[s].by = "allocator",
         lease'[s].state = "QUEUED" => lease[s].state = "QUEUED", op[s].pc # "process",
         op[s].pc = "reserve" => \A b \in Boards : ~MayReserve(s, b)
  PROVE  event' \/ ~BoardToGive \/ allocator'.pc # "wait"
<1> SUFFICES ASSUME ~event', allocator'.pc = "wait" PROVE ~BoardToGive
  OBVIOUS
<1>1. allocator.queued /\ lease[s].state = "QUEUED" /\ ~event
  BY DEF Returns
<1>2. op[s].pc = "reserve" /\ OldestQueued(s)
  BY <1>1 DEF AllocatorInvariant, AllocatorKnowsQueue
<1> QED BY <1>2 DEF MayReserve, BoardToGive, Available

LEMMA ReturningKeeps ==
  ASSUME TypeOK, TypeOK', AllocatorInvariant, NEW s \in Students, Returns(s), OthersRest(s),
         ahead' = ahead, NoBoardComes, central' = central,
         lease'[s].state = "QUEUED" <=> lease[s].state = "QUEUED",
         lease[s].state = "QUEUED" => request'[s] = request[s], op[s].pc # "process",
         op[s].pc = "reserve" => \A b \in Boards : ~MayReserve(s, b)
  PROVE  QueueKept
<1>1. /\ \A t \in Students : lease'[t].state = "QUEUED" <=> lease[t].state = "QUEUED"
      /\ \A t \in Students \ {s} : QueueRests(t)
  BY DEF OthersRest, QueueRests
<1>2. QueuedStudents' = QueuedStudents /\ QueueIsOrdered'
  BY <1>1, QueueStays, OrderStays DEF AllocatorInvariant
<1>3. \A t \in Students : PartsFor(t)
  BY DEF AllocatorInvariant, PartsFor
<1>4. \/ allocator' = allocator /\ op[s].by # "allocator"
      \/ /\ op[s].by = "allocator" /\ allocator.student = s /\ allocator.pc = "run"
         /\ allocator'.pc # "lock"
  BY <1>3 DEF Returns, PartsFor, LooksForSomebody
<1>5. ASSUME NEW t \in Students \ {s} PROVE PartsFor(t)'
  <2>1. allocator' = allocator \/ (op[t].by # "allocator" /\ allocator'.pc # "lock")
    BY <1>3, <1>4 DEF PartsFor, LooksForSomebody
  <2> QED BY <1>1, <1>2, <1>3, <2>1, PartsStay DEF Returns, OldestQueued
<1>6. PartsFor(s)'
  <2>1. LooksForSomebody(s)' /\ AllocatorKnowsQueue(s)'
    BY DEF Returns, LooksForSomebody, AllocatorKnowsQueue
  <2>2. LockedOutKnowsQueue(s)'
    <3> SUFFICES ASSUME allocator'.pc = "lock", allocator'.student = s,
                        lease'[s].state = "QUEUED", ~event'
                 PROVE  OldestQueued(s)'
      BY DEF LockedOutKnowsQueue
    <3>1. allocator' = allocator /\ ~event /\ request'[s] = request[s]
      BY <1>4 DEF Returns
    <3>2. OldestQueued(s) \/ (op[s].pc = "reserve" /\ op[s].by = "submit")
      BY <1>3, <3>1 DEF PartsFor, LockedOutKnowsQueue
    <3>3. ~(op[s].pc = "reserve" /\ op[s].by = "submit")
      BY <1>3, <3>1 DEF PartsFor, LooksForSomebody, Returns
    <3> QED BY <1>2, <3>2, <3>3 DEF OldestQueued
  <2> QED BY <2>1, <2>2 DEF PartsFor
<1>7. ~Strands
  <2> SUFFICES ASSUME NEW t \in Students, Stranded(t)' PROVE Stranded(t)
    BY DEF Strands
  <2>1. BoardToGive /\ lease[t].state = "QUEUED" /\ central = "up"
    BY <1>1, NothingNewToGive DEF Stranded, TypeOK
  <2>2. ~event' /\ ~event /\ allocator'.pc = "wait"
    BY DEF Stranded, Returns
  <2>3. op[s].by # "allocator" /\ allocator' = allocator
    BY <1>4, <2>1, <2>2, AllocatorLooksOn
  <2>4. op[t].pc \notin {"process", "reserve"}
    <3>1. CASE t = s
      BY <1>3, <2>1, <2>2, <2>3, <3>1 DEF PartsFor, LooksForSomebody, Returns
    <3>2. CASE t # s
      BY <3>2 DEF Stranded, OthersRest
    <3> QED BY <3>1, <3>2
  <2> QED BY <2>1, <2>2, <2>3, <2>4 DEF Stranded
<1> QED BY <1>2, <1>5, <1>6, <1>7 DEF QueueKept, AllocatorInvariant, PartsFor

LEMMA RequeuingKeeps ==
  ASSUME TypeOK, AllocatorInvariant, NEW s \in Students, Returns(s), OthersRest(s),
         QueueLease(s), event'
  PROVE  QueueKept
<1>1. /\ QueueIsOrdered' /\ QueuedStudents' = QueuedStudents \cup {s}
      /\ \A t \in Students \ {s} : ahead'[t] = ahead[t]
  BY QueueLeaseOrder DEF AllocatorInvariant
<1>2. \A t \in Students : PartsFor(t)
  BY DEF AllocatorInvariant, PartsFor
<1>3. ASSUME NEW t \in Students \ {s} PROVE PartsFor(t)'
  <2>1. allocator' = allocator \/ (op[t].by # "allocator" /\ allocator'.pc # "lock")
    BY <1>2 DEF PartsFor, LooksForSomebody, Returns
  <2>2. QueueRests(t) /\ (OldestQueued(t) => OldestQueued(t)')
    BY <1>1 DEF OthersRest, QueueRests, OldestQueued
  <2> QED BY <1>2, <2>1, <2>2, PartsStay
<1>4. PartsFor(s)'
  BY DEF Returns, PartsFor, LooksForSomebody, AllocatorKnowsQueue, LockedOutKnowsQueue
<1> QED
  BY <1>1, <1>3, <1>4, WokenStrandsNobody DEF QueueKept, AllocatorInvariant, PartsFor

-----------------------------------------------------------------------------
(* The steps of a coroutine.                                               *)

LEMMA RowGivesNoBoard ==
  ASSUME NEW b, NEW x, NEW l, NEW a, WorkerBecomes(b, x, l, a), x # "IDLE",
         leases \in Nat, leases' \in {leases, leases + 1}
  PROVE  NoBoardComes
  BY DEF WorkerBecomes, NoBoardComes, Available

LEMMA StepGivesNoBoard ==
  ASSUME TypeOK, NEW s \in Students, StepOf(s)
  PROVE  /\ NoBoardComes \/ Released(s)
         /\ OthersRest(s) /\ central = "up" /\ central' = central
<1>1. leases \in Nat
  BY DEF TypeOK
<1>2. SameWorkers /\ leases' = leases => NoBoardComes
  BY <1>1 DEF SameWorkers, NoBoardComes, Available
<1>3. ASSUME NEW b \in Boards, Granted(s, b) PROVE NoBoardComes
  BY <1>1, <1>3, RowGivesNoBoard DEF Granted
<1>4. ASSUME \/ Deploys(s) \/ Deployed(s) \/ DeployLost(s) \/ Starts(s) \/ Completes(s)
             \/ PredictLost(s) \/ ReleaseLost(s)
      PROVE  NoBoardComes
  <2>1. \E b, l, a : \E x \in {"DEPLOYING", "READY", "BUSY", "ERROR"} :
          WorkerBecomes(b, x, l, a)
    BY <1>4 DEF Deploys, Deployed, DeployLost, Starts, Completes, PredictLost, ReleaseLost
  <2>2. leases' = leases
    BY <1>4 DEF Deploys, Deployed, DeployLost, Starts, Completes, PredictLost, ReleaseLost
  <2> QED BY <1>1, <2>1, <2>2, RowGivesNoBoard
<1>5. ASSUME \/ Leaves(s) \/ Queues(s) \/ Proceeds(s) \/ Idles(s) \/ Picks(s)
             \/ Submits(s) \/ Takes(s) \/ Releases(s)
      PROVE  NoBoardComes
  <2>1. SameWorkers /\ leases' = leases
    BY <1>5 DEF Leaves, Queues, Proceeds, Idles, Picks, Submits, Takes, Releases
  <2> QED BY <1>2, <2>1
<1>6. NoBoardComes \/ Released(s)
  BY <1>3, <1>4, <1>5 DEF StepOf, Outcome
<1> QED BY <1>6 DEF StepOf, OthersRest

\* A coroutine that is draining or about to run has a lease in use.
LEMMA DrainingIsNotWaiting ==
  ASSUME Groundwork, NEW s \in Students,
         op[s].pc \in {"drain", "run"} \/ (op[s].lid = lease[s].lid /\ op[s].pc \in Awaiting)
  PROVE  lease[s].state # "QUEUED"
  BY StudentKnown
  DEF Groundwork, OwnershipInvariant, WaitingIsBare, Active, ActiveStates,
      CoroutineHoldsLease

LEMMA GoingOn ==
  ASSUME TypeOK, NEW s \in Students, NEW pc, NEW i,
         \/ Continue(s, pc, i)
         \/ \E b, l, a : AwaitCall(s, pc, i, b, l, a)
  PROVE  op'[s].pc = pc /\ op'[s].by = op[s].by
<1>1. op \in [Students -> Op]
  BY DEF TypeOK
<1>2. CASE Continue(s, pc, i)
  BY <1>1, <1>2 DEF Continue, FreeOp
<1>3. CASE \E b, l, a : AwaitCall(s, pc, i, b, l, a)
  BY <1>1, <1>3 DEF AwaitCall
<1> QED BY <1>2, <1>3

LEMMA DrainKeeps ==
  ASSUME Groundwork, TypeOK', AllocatorInvariant, NEW s \in Students, DrainLocked(s)
  PROVE  QueueKept
<1> DEFINE b == lease[s].worker
           i == NextOf(s)
           a == request[s][i].art
<1>1. StepOf(s) /\ TypeOK
  BY DrainOutcome DEF Groundwork, OwnershipInvariant
<1>2. OthersRest(s) /\ central' = central /\ NoBoardComes
  BY <1>1, StepGivesNoBoard DEF Released, DrainLocked
<1>3. /\ op[s].pc = "drain" /\ lease[s].state # "QUEUED" /\ ahead' = ahead
      /\ request' = request /\ lease \in [Students -> Lease]
  BY <1>1, DrainingIsNotWaiting DEF DrainLocked, TypeOK
<1>4. ASSUME Return(s, FALSE), lease'[s].state # "QUEUED" PROVE QueueKept
  BY <1>1, <1>2, <1>3, <1>4, ReturnTells, ReturningKeeps
<1>5. ASSUME NEW x, x # "QUEUED",
             lease' = [lease EXCEPT ![s] = [lease[s] EXCEPT !.state = x]]
      PROVE  lease'[s].state # "QUEUED"
  BY <1>3, <1>5, LeaseMoveRow DEF LeaseMoves, LeaseBecomes
<1>6. ASSUME UNCHANGED <<event, allocator>>,
             \/ Continue(s, "run", i) /\ UNCHANGED <<lease, worker>>
             \/ /\ lease' = [lease EXCEPT ![s] = [lease[s] EXCEPT !.state = "DEPLOYING"]]
                /\ AwaitCall(s, "deploy", i, b, lease[s].lid, a)
      PROVE  QueueKept
  <2>1. op'[s].pc \in {"run", "deploy"} /\ op'[s].by = op[s].by
    BY <1>1, <1>6, GoingOn
  <2>2. lease'[s].state # "QUEUED"
    BY <1>3, <1>5, <1>6
  <2>3. GoesOn(s)
    BY <1>3, <1>6, <2>1, <2>2 DEF GoesOn, Looking
  <2> QED BY <1>1, <1>2, <2>3, GoingOnKeeps
<1> QED BY <1>3, <1>4, <1>5, <1>6 DEF DrainLocked

LEMMA MarkRunningKeeps ==
  ASSUME Groundwork, TypeOK', AllocatorInvariant, NEW s \in Students, MarkRunning(s)
  PROVE  QueueKept
<1>1. StepOf(s) /\ TypeOK
  BY MarkRunningOutcome DEF Groundwork, OwnershipInvariant
<1>2. OthersRest(s) /\ central' = central /\ NoBoardComes
  BY <1>1, StepGivesNoBoard DEF Released, MarkRunning
<1>3. op[s].pc = "run" /\ lease[s].state # "QUEUED" /\ ahead' = ahead
  BY DrainingIsNotWaiting DEF MarkRunning
<1>4. CASE ~MayRun(s)
  BY <1>1, <1>2, <1>3, <1>4, ReturnTells, ReturningKeeps DEF MarkRunning
<1>5. CASE MayRun(s)
  <2>1. op'[s].pc = "predict" /\ op'[s].by = op[s].by
    BY <1>1, <1>5, GoingOn DEF MarkRunning
  <2>2. lease' = [lease EXCEPT ![s] = [lease[s] EXCEPT !.state = "BUSY", !.idle = "active"]]
    BY <1>5 DEF MarkRunning
  <2>3. LeaseMoves(s, "BUSY")
    BY <1>1, <2>2, LeaseMoveRow DEF TypeOK
  <2>4. lease'[s].state # "QUEUED"
    BY <2>3 DEF LeaseMoves, LeaseBecomes
  <2>5. GoesOn(s)
    BY <1>3, <1>5, <2>1, <2>4 DEF GoesOn, Looking, MarkRunning
  <2> QED BY <1>1, <1>2, <2>5, GoingOnKeeps
<1> QED BY <1>4, <1>5

\* An answer that comes too late changes nothing, and the coroutine returns.
LEMMA LateAnswerKeeps ==
  ASSUME Groundwork, TypeOK', AllocatorInvariant, NEW s \in Students, StepOf(s),
         op[s].pc \in Awaiting, NEW wake \in BOOLEAN, Return(s, wake),
         UNCHANGED <<lease, request, ahead, worker, leases>>
  PROVE  QueueKept
<1>1. TypeOK /\ Returns(s)
  BY ReturnTells DEF Groundwork, OwnershipInvariant
<1>2. OthersRest(s) /\ central' = central
  BY <1>1, StepGivesNoBoard
<1>3. NoBoardComes
  BY <1>1 DEF NoBoardComes, Available, TypeOK
<1>4. op[s].pc \notin {"process", "reserve"}
  BY DEF Awaiting
<1> QED BY <1>1, <1>2, <1>3, <1>4, ReturningKeeps

LEMMA DeploySucceededKeeps ==
  ASSUME Groundwork, TypeOK', AllocatorInvariant, NEW s \in Students, DeploySucceeded(s)
  PROVE  QueueKept
<1>1. StepOf(s) /\ TypeOK /\ op[s].pc = "deploy"
  BY DeploySucceededOutcome DEF Groundwork, OwnershipInvariant, DeploySucceeded
<1>2. CASE ~DeployStillWanted(s)
  BY <1>1, <1>2, LateAnswerKeeps DEF DeploySucceeded, Awaiting
<1>3. CASE DeployStillWanted(s)
  <2>1. OthersRest(s) /\ central' = central /\ NoBoardComes
    BY <1>1, StepGivesNoBoard DEF Released
  <2>2. lease[s].state # "QUEUED" /\ lease \in [Students -> Lease] /\ lease[s] \in Lease
    BY <1>1, <1>3 DEF DeployStillWanted, TypeOK
  <2>3. lease'[s].state # "QUEUED"
    BY <1>3, <2>2 DEF DeploySucceeded, Lease
  <2>4. op'[s].pc = "run" /\ op'[s].by = op[s].by
    BY <1>1, <1>3, GoingOn DEF DeploySucceeded
  <2>5. GoesOn(s)
    BY <1>1, <1>3, <2>2, <2>3, <2>4 DEF GoesOn, Looking, DeploySucceeded
  <2> QED BY <1>1, <2>1, <2>5, GoingOnKeeps
<1> QED BY <1>2, <1>3

LEMMA DeployFailedKeeps ==
  ASSUME Groundwork, TypeOK', AllocatorInvariant, NEW s \in Students, DeployFailed(s)
  PROVE  QueueKept
<1>1. StepOf(s) /\ TypeOK /\ op[s].pc = "deploy" /\ Return(s, TRUE)
  BY DeployFailedOutcome DEF Groundwork, OwnershipInvariant, DeployFailed
<1>2. CASE ~DeployStillWanted(s)
  BY <1>1, <1>2, LateAnswerKeeps DEF DeployFailed, Awaiting
<1>3. CASE DeployStillWanted(s)
  BY <1>1, <1>3, StepGivesNoBoard, ReturnTells, RequeuingKeeps DEF DeployFailed
<1> QED BY <1>2, <1>3

LEMMA PredictSucceededKeeps ==
  ASSUME Groundwork, TypeOK', AllocatorInvariant, NEW s \in Students, PredictSucceeded(s)
  PROVE  QueueKept
<1>1. StepOf(s) /\ TypeOK /\ op[s].pc = "predict"
  BY PredictSucceededOutcome DEF Groundwork, OwnershipInvariant, PredictSucceeded
<1>2. CASE ~(PredictStillWanted(s) /\ lease[s].state = "BUSY")
  BY <1>1, <1>2, LateAnswerKeeps DEF PredictSucceeded, Awaiting
<1>3. CASE PredictStillWanted(s) /\ lease[s].state = "BUSY"
  <2>1. OthersRest(s) /\ central' = central /\ NoBoardComes
    BY <1>1, StepGivesNoBoard DEF Released
  <2>2. lease \in [Students -> Lease] /\ lease[s] \in Lease
    BY <1>1 DEF TypeOK
  <2>3. lease'[s].state # "QUEUED"
    BY <1>3, <2>2 DEF PredictSucceeded, Lease
  <2>4. op'[s].pc = "drain" /\ op'[s].by = op[s].by
    BY <1>1, <1>3, GoingOn DEF PredictSucceeded
  <2>5. GoesOn(s)
    BY <1>1, <1>3, <2>3, <2>4 DEF GoesOn, Looking, PredictSucceeded
  <2> QED BY <1>1, <2>1, <2>5, GoingOnKeeps
<1> QED BY <1>2, <1>3

LEMMA PredictFailedKeeps ==
  ASSUME Groundwork, TypeOK', AllocatorInvariant, NEW s \in Students, PredictFailed(s)
  PROVE  QueueKept
<1>1. StepOf(s) /\ TypeOK /\ op[s].pc = "predict"
  BY PredictFailedOutcome DEF Groundwork, OwnershipInvariant, PredictFailed
<1>2. CASE ~PredictStillWanted(s)
  BY <1>1, <1>2, LateAnswerKeeps DEF PredictFailed, Awaiting
<1>3. CASE PredictStillWanted(s)
  BY <1>1, <1>3, StepGivesNoBoard, ReturnTells, RequeuingKeeps DEF PredictFailed
<1> QED BY <1>2, <1>3

\* A release neither begins nor ends with a student who waits.
LEMMA ReleaseEndKeeps ==
  ASSUME Groundwork, TypeOK', AllocatorInvariant, NEW s \in Students,
         ReleaseSucceeded(s) \/ ReleaseFailed(s)
  PROVE  QueueKept
<1>1. StepOf(s) /\ TypeOK /\ op[s].pc = "release"
  BY ReleaseSucceededOutcome, ReleaseFailedOutcome
  DEF Groundwork, OwnershipInvariant, ReleaseSucceeded, ReleaseFailed
<1>2. OthersRest(s) /\ central' = central /\ (NoBoardComes \/ Released(s))
  BY <1>1, StepGivesNoBoard
<1>3. Released(s) => event'
  BY DEF Released, ReleaseSucceeded, ReleaseFailed, WakeAllocator
<1>4. lease'[s].state = "QUEUED" <=> lease[s].state = "QUEUED"
  <2>0. lease \in [Students -> Lease] /\ lease[s] \in Lease
    BY <1>1 DEF TypeOK
  <2>1. CASE ReleaseSucceeded(s)
    BY <2>0, <2>1 DEF ReleaseSucceeded, ReleaseStillWanted, Lease
  <2>2. CASE ReleaseFailed(s)
    <3>1. StillOwned(s) => lease[s].state # "QUEUED"
      BY <1>1, DrainingIsNotWaiting DEF StillOwned, Awaiting
    <3> QED BY <2>0, <2>2, <3>1 DEF ReleaseFailed, Lease
  <2> QED BY <2>1, <2>2
<1>5. op'[s].pc = "free" /\ op'[s].by = "nobody"
  <2>1. op' = [op EXCEPT ![s] = FreeOp]
    BY DEF ReleaseSucceeded, ReleaseFailed
  <2> QED BY <1>1, <2>1 DEF TypeOK, FreeOp
<1>6. ahead' = ahead /\ allocator' = allocator /\ (event => event')
  <2>1. CASE ReleaseSucceeded(s)
    <3>1. event' = TRUE \/ event' = event
      BY <2>1 DEF ReleaseSucceeded, WakeAllocator
    <3>2. ahead' = ahead /\ allocator' = allocator
      BY <2>1 DEF ReleaseSucceeded
    <3> QED BY <3>1, <3>2
  <2>2. CASE ReleaseFailed(s)
    BY <2>2 DEF ReleaseFailed
  <2> QED BY <2>1, <2>2
<1>7. \A t \in Students : QueueRests(t)
  BY <1>1, <1>2, <1>4, <1>5 DEF QueueRests, OthersRest, Looking
<1>8. Undisturbed
  BY <1>6, <1>7 DEF Undisturbed
<1> QED
  BY <1>1, <1>2, <1>3, <1>8, UndisturbedKeeps, UndisturbedStrands, WokenStrandsNobody
  DEF QueueKept

\* A student joins the queue and goes on to look for a board.
LEMMA QueueingKeeps ==
  ASSUME Groundwork, TypeOK', AllocatorInvariant, NEW s \in Students, QueueLease(s),
         op[s].pc = "process", op'[s].pc = "reserve", op'[s].by = op[s].by, OthersRest(s),
         request' = request, lease[s].state # "QUEUED", NoBoardComes, central' = central,
         UNCHANGED <<event, allocator>>
  PROVE  QueueKept
<1>0. TypeOK
  BY DEF Groundwork, OwnershipInvariant
<1>1. /\ QueueIsOrdered' /\ QueuedStudents' = QueuedStudents \cup {s}
      /\ \A t \in Students \ {s} : ahead'[t] = ahead[t]
  BY <1>0, QueueLeaseOrder DEF AllocatorInvariant
<1>2. \A t \in Students : PartsFor(t)
  BY DEF AllocatorInvariant, PartsFor
<1>3. ASSUME NEW t \in Students \ {s} PROVE PartsFor(t)'
  <2>1. QueueRests(t) /\ (OldestQueued(t) => OldestQueued(t)')
    BY <1>1 DEF OthersRest, QueueRests, OldestQueued
  <2> QED BY <1>2, <2>1, PartsStay
<1>4. PartsFor(s)'
  <2>1. LooksForSomebody(s)'
    BY <1>2, SameRequestsSameLast DEF PartsFor, LooksForSomebody
  <2>2. AllocatorKnowsQueue(s)'
    BY <1>2 DEF PartsFor, AllocatorKnowsQueue
  <2>3. LockedOutKnowsQueue(s)'
    BY <1>2 DEF PartsFor, LooksForSomebody, LockedOutKnowsQueue
  <2> QED BY <2>1, <2>2, <2>3 DEF PartsFor
<1>5. ~Strands
  <2> SUFFICES ASSUME NEW t \in Students, Stranded(t)' PROVE Stranded(t)
    BY DEF Strands
  <2>1. t # s
    BY DEF Stranded
  <2> QED BY <1>0, <2>1, NothingNewToGive DEF Stranded, OthersRest, TypeOK
<1> QED BY <1>1, <1>3, <1>4, <1>5 DEF QueueKept, AllocatorInvariant, PartsFor

LEMMA ProcessKeeps ==
  ASSUME Groundwork, TypeOK', AllocatorInvariant, NEW s \in Students, ProcessStudentLocked(s)
  PROVE  QueueKept
<1>1. /\ StepOf(s) /\ TypeOK /\ op[s].pc = "process" /\ request' = request
      /\ UNCHANGED <<event, allocator>>
  BY ProcessOutcome DEF Groundwork, OwnershipInvariant, ProcessStudentLocked
<1>2. OthersRest(s) /\ central' = central /\ NoBoardComes
  BY <1>1, StepGivesNoBoard DEF Released
<1>3. CASE lease[s].state \in {"UNASSIGNED", "ERROR", "LOST"}
  <2>1. QueueLease(s)
    BY <1>3 DEF ProcessStudentLocked
  <2>2. lease'[s].lid = NoLease
    BY <1>1, <2>1, QueueLeaseFacts DEF TypeOK
  <2>3. op'[s].pc = "reserve" /\ op'[s].by = op[s].by
    BY <1>1, <2>2, GoingOn DEF ProcessStudentLocked
  <2> QED BY <1>1, <1>2, <1>3, <2>1, <2>3, QueueingKeeps
<1>4. CASE lease[s].state \notin {"UNASSIGNED", "ERROR", "LOST"}
  <2>1. UNCHANGED <<lease, ahead>>
    BY <1>4 DEF ProcessStudentLocked
  <2>2. /\ op'[s].pc = IF lease[s].lid = NoLease THEN "reserve" ELSE "drain"
        /\ op'[s].by = op[s].by
    BY <1>1, <2>1, GoingOn DEF ProcessStudentLocked
  <2>3. lease[s].state = "QUEUED" => lease[s].lid = NoLease
    BY DEF Groundwork, OwnershipInvariant, WaitingIsBare
  <2>4. \A t \in Students : QueueRests(t)
    BY <1>1, <1>2, <2>1, <2>2, <2>3 DEF QueueRests, OthersRest, Looking
  <2>5. Undisturbed
    BY <1>1, <2>1, <2>4 DEF Undisturbed
  <2> QED BY <1>1, <1>2, <2>5, UndisturbedKeeps, UndisturbedStrands DEF QueueKept
<1> QED BY <1>3, <1>4

\* The head of the queue is given a board and leaves.
LEMMA GrantingKeeps ==
  ASSUME Groundwork, TypeOK', AllocatorInvariant, NEW s \in Students, OldestQueued(s),
         lease'[s].state = "RESERVED", op'[s].pc = "drain", op'[s].by = op[s].by,
         ahead' = [t \in Students |-> ahead[t] \ {s}], OthersRest(s), NoBoardComes,
         central' = central, UNCHANGED <<event, allocator>>
  PROVE  QueueKept
<1>0. TypeOK
  BY DEF Groundwork, OwnershipInvariant
<1>1. QueuedStudents' = QueuedStudents \ {s}
  BY DEF QueuedStudents, OthersRest
<1>2. QueueIsOrdered'
  <2> SUFFICES ASSUME NEW t \in Students, NEW u \in ahead'[t]
               PROVE  u # t /\ u \in QueuedStudents' /\ ahead'[u] \subseteq ahead'[t]
    BY DEF QueueIsOrdered
  <2>1. u \in ahead[t] /\ u # s
    OBVIOUS
  <2>2. u # t /\ u \in QueuedStudents /\ ahead[u] \subseteq ahead[t]
    BY <2>1 DEF AllocatorInvariant, QueueIsOrdered
  <2>3. u \in Students
    BY <2>2 DEF QueuedStudents
  <2> QED BY <1>1, <2>1, <2>2, <2>3
<1>3. \A t \in Students : PartsFor(t)
  BY DEF AllocatorInvariant, PartsFor
<1>4. ASSUME NEW t \in Students \ {s} PROVE PartsFor(t)'
  <2>1. QueueRests(t) /\ (OldestQueued(t) => OldestQueued(t)')
    BY <1>1 DEF OthersRest, QueueRests, OldestQueued
  <2> QED BY <1>3, <2>1, PartsStay
<1>5. PartsFor(s)'
  BY <1>3 DEF PartsFor, LooksForSomebody, AllocatorKnowsQueue, LockedOutKnowsQueue
<1>6. ~Strands
  <2> SUFFICES ASSUME NEW t \in Students, Stranded(t)' PROVE Stranded(t)
    BY DEF Strands
  <2>1. t # s
    BY DEF Stranded
  <2> QED BY <1>0, <2>1, NothingNewToGive DEF Stranded, OthersRest, TypeOK
<1> QED BY <1>2, <1>4, <1>5, <1>6 DEF QueueKept, AllocatorInvariant, PartsFor

LEMMA ReserveKeeps ==
  ASSUME Groundwork, TypeOK', AllocatorInvariant, NEW s \in Students, ReserveLease(s)
  PROVE  QueueKept
<1>1. StepOf(s) /\ TypeOK /\ op[s].pc = "reserve" /\ request' = request
  BY ReserveOutcome DEF Groundwork, OwnershipInvariant, ReserveLease
<1>2. OthersRest(s) /\ central' = central /\ NoBoardComes
  BY <1>1, StepGivesNoBoard DEF Released
<1>3. ASSUME \A b \in Boards : ~MayReserve(s, b), UNCHANGED <<lease, ahead, worker, leases>>,
             Return(s, FALSE)
      PROVE  QueueKept
  BY <1>1, <1>2, <1>3, ReturnTells, ReturningKeeps
<1>4. ASSUME NEW b \in Boards, MayReserve(s, b),
             lease' = [lease EXCEPT ![s] = [lease[s] EXCEPT !.state = "RESERVED",
                             !.worker = b, !.lid = leases + 1, !.idle = "active"]],
             ahead' = [t \in Students |-> ahead[t] \ {s}],
             Continue(s, "drain", NoRequest), UNCHANGED <<event, allocator>>
      PROVE  QueueKept
  <2>1. lease'[s].state = "RESERVED"
    BY <1>1, <1>4 DEF TypeOK, Lease
  <2>2. op'[s].pc = "drain" /\ op'[s].by = op[s].by
    BY <1>1, <1>4, GoingOn
  <2> QED BY <1>2, <1>4, <2>1, <2>2, GrantingKeeps DEF MayReserve
<1> QED BY <1>3, <1>4 DEF ReserveLease

LEMMA CoroutineKeeps ==
  ASSUME Groundwork, TypeOK', AllocatorInvariant, NEW s \in Students, Coroutine(s)
  PROVE  QueueKept
  BY ProcessKeeps, ReserveKeeps, DrainKeeps, MarkRunningKeeps, DeploySucceededKeeps,
     DeployFailedKeeps, PredictSucceededKeeps, PredictFailedKeeps, ReleaseEndKeeps
  DEF Coroutine

-----------------------------------------------------------------------------
(* Somebody takes a free lock.                                             *)

LEMMA SubmitKeeps ==
  ASSUME Groundwork, TypeOK', AllocatorInvariant, NEW s \in Students, SubmitPredict(s)
  PROVE  QueueKept
<1>1. /\ StepOf(s) /\ TypeOK /\ op[s].pc = "free"
      /\ UNCHANGED <<lease, ahead, worker, leases, event, allocator>>
  BY SubmitOutcome DEF Groundwork, OwnershipInvariant, SubmitPredict, LockFree
<1>2. OthersRest(s) /\ central' = central /\ NoBoardComes
  BY <1>1, StepGivesNoBoard DEF Released
<1>3. op'[s].pc = "process" /\ op'[s].by = "submit"
  BY <1>1 DEF SubmitPredict, TypeOK, FreeOp
<1>4. LastAccepted(s)' \in Pending(s)'
  BY SubmitOutcome, SubmittedIsLast DEF Groundwork
<1>5. QueuedStudents' = QueuedStudents /\ QueueIsOrdered'
  BY <1>1, QueueStays, OrderStays DEF AllocatorInvariant
<1>6. \A t \in Students : PartsFor(t)
  BY DEF AllocatorInvariant, PartsFor
<1>7. ASSUME NEW t \in Students \ {s} PROVE PartsFor(t)'
  BY <1>1, <1>2, <1>5, <1>6, PartsStay DEF OthersRest, QueueRests, OldestQueued
<1>8. PartsFor(s)'
  BY <1>1, <1>3, <1>4, <1>5, <1>6
  DEF PartsFor, LooksForSomebody, AllocatorKnowsQueue, LockedOutKnowsQueue, OldestQueued
<1>9. ~Strands
  <2> SUFFICES ASSUME NEW t \in Students, Stranded(t)' PROVE Stranded(t)
    BY DEF Strands
  <2>1. t # s
    BY <1>3 DEF Stranded
  <2> QED BY <1>1, <1>2, <2>1, NothingNewToGive DEF Stranded, OthersRest, TypeOK
<1> QED BY <1>5, <1>7, <1>8, <1>9 DEF QueueKept, AllocatorInvariant, PartsFor

\* The allocator goes on to s, whom it has found at the head of the queue or waited for.
LEMMA AllocatorHoldsKeeps ==
  ASSUME Groundwork, TypeOK', AllocatorInvariant, NEW s \in Students, AllocatorHolds(s),
         allocator.pc # "run", event' \/ OldestQueued(s) \/ lease[s].state # "QUEUED",
         UNCHANGED <<lease, ahead, request>>
  PROVE  QueueKept
<1>0. op \in [Students -> Op]
  BY DEF Groundwork, OwnershipInvariant, TypeOK
<1>1. op'[s].pc = "process" /\ op'[s].by = "allocator"
  BY <1>0 DEF AllocatorHolds, FreeOp
<1>2. /\ allocator'.pc = "run" /\ allocator'.student = s
      /\ allocator'.queued <=> lease[s].state = "QUEUED"
  BY DEF AllocatorHolds
<1>3. \A t \in Students \ {s} : op'[t] = op[t]
  BY <1>0 DEF AllocatorHolds
<1>4. QueuedStudents' = QueuedStudents /\ QueueIsOrdered'
  BY QueueStays, OrderStays DEF AllocatorInvariant
<1>5. \A t \in Students : PartsFor(t)
  BY DEF AllocatorInvariant, PartsFor
<1>6. ASSUME NEW t \in Students \ {s} PROVE PartsFor(t)'
  <2>1. op'[t].by # "allocator"
    BY <1>3, <1>5 DEF PartsFor, LooksForSomebody
  <2>2. LooksForSomebody(t)'
    BY <1>3, <1>5, <2>1, SameRequestsSameLast DEF PartsFor, LooksForSomebody
  <2> QED
    BY <1>2, <2>1, <2>2 DEF PartsFor, AllocatorKnowsQueue, LockedOutKnowsQueue
<1>7. PartsFor(s)'
  BY <1>1, <1>2, <1>4
  DEF PartsFor, LooksForSomebody, AllocatorKnowsQueue, LockedOutKnowsQueue, OldestQueued
<1> QED
  BY <1>2, <1>4, <1>6, <1>7, WokenStrandsNobody DEF QueueKept, AllocatorInvariant, PartsFor

LEMMA AllocatorLoopKeeps ==
  ASSUME IsFiniteSet(Students), Groundwork, TypeOK', AllocatorInvariant, AllocatorLoop
  PROVE  QueueKept
<1>1. /\ TypeOK /\ UNCHANGED <<lease, ahead, request>>
      /\ allocator.pc \in {"wait", "scan"}
  BY DEF AllocatorLoop, database, Groundwork, OwnershipInvariant
<1>2. QueuedStudents' = QueuedStudents /\ QueueIsOrdered'
  BY <1>1, QueueStays, OrderStays DEF AllocatorInvariant
<1>3. \A t \in Students : LooksForSomebody(t) /\ op[t].by # "allocator"
  BY <1>1 DEF AllocatorInvariant, LooksForSomebody
<1>4. ASSUME NEW s \in Students, OldestQueued(s), AllocatorHolds(s)
      PROVE  QueueKept
  BY <1>1, <1>4, AllocatorHoldsKeeps
<1>5. ASSUME UNCHANGED op, allocator'.pc \in {"wait", "lock"},
             allocator'.pc = "lock" => allocator'.student \in Students
                                       /\ OldestQueued(allocator'.student)
      PROVE  AllocatorInvariant'
  <2>1. ASSUME NEW t \in Students PROVE PartsFor(t)'
    <3>1. LooksForSomebody(t)' /\ AllocatorKnowsQueue(t)'
      BY <1>1, <1>3, <1>5, SameRequestsSameLast DEF LooksForSomebody, AllocatorKnowsQueue
    <3>2. LockedOutKnowsQueue(t)'
      BY <1>1, <1>2, <1>5 DEF LockedOutKnowsQueue, OldestQueued
    <3> QED BY <3>1, <3>2 DEF PartsFor
  <2> QED BY <1>2, <2>1 DEF AllocatorInvariant, PartsFor
<1>6. ASSUME NEW s \in Students, OldestQueued(s), UNCHANGED op,
             allocator' = [pc |-> "lock", student |-> s, queued |-> FALSE]
      PROVE  QueueKept
  BY <1>5, <1>6, WokenStrandsNobody DEF QueueKept
<1>7. ASSUME \A s \in Students : ~OldestQueued(s), UNCHANGED op, allocator' = IdleAllocator
      PROVE  QueueKept
  <2>1. QueuedStudents = {}
    BY <1>1, <1>7, QueueHasHead DEF AllocatorInvariant
  <2>2. ~Strands
    BY <1>2, <2>1 DEF Strands, Stranded, QueuedStudents
  <2> QED BY <1>5, <1>7, <2>2 DEF QueueKept, IdleAllocator
<1> QED BY <1>4, <1>6, <1>7 DEF AllocatorLoop

LEMMA AllocatorLocksKeeps ==
  ASSUME Groundwork, TypeOK', AllocatorInvariant, NEW s \in Students, AllocatorLocks(s)
  PROVE  QueueKept
<1>1. /\ UNCHANGED <<lease, ahead, request, event>> /\ AllocatorHolds(s)
      /\ allocator.pc = "lock" /\ allocator.student = s /\ op[s].pc = "free"
  BY DEF AllocatorLocks, database, LockFree
<1>2. event \/ OldestQueued(s) \/ lease[s].state # "QUEUED"
  BY <1>1 DEF AllocatorInvariant, LockedOutKnowsQueue
<1> QED BY <1>1, <1>2, AllocatorHoldsKeeps

LEMMA StartReleaseKeeps ==
  ASSUME Groundwork, TypeOK', AllocatorInvariant, NEW s \in Students,
         NEW caller \in {"reaper", "admin"}, StartRelease(s, caller), LockFree(s),
         UNCHANGED <<ahead, worker, request, leases, central, event, allocator>>
  PROVE  QueueKept
<1>1. TypeOK /\ lease \in [Students -> Lease] /\ lease[s] \in Lease /\ op \in [Students -> Op]
  BY DEF Groundwork, OwnershipInvariant, TypeOK
<1>2. lease[s].state = "READY" /\ lease'[s].state = "RELEASING" /\ op[s].pc = "free"
  BY <1>1 DEF StartRelease, MayRelease, Lease, LockFree
<1>3. op'[s].pc = "release" /\ op'[s].by = caller
  BY <1>1 DEF StartRelease
<1>4. \A t \in Students \ {s} : op'[t] = op[t] /\ lease'[t] = lease[t]
  BY <1>1 DEF StartRelease
<1>5. \A t \in Students : QueueRests(t)
  BY <1>2, <1>3, <1>4 DEF QueueRests, Looking
<1>6. Undisturbed /\ NoBoardComes
  BY <1>1, <1>5 DEF Undisturbed, NoBoardComes, Available, TypeOK
<1> QED BY <1>1, <1>6, UndisturbedKeeps, UndisturbedStrands DEF QueueKept

-----------------------------------------------------------------------------
(* The reaper.                                                             *)

\* Lost leases with requests join the queue, one after the other and behind whoever waits.
LEMMA RequeuedOrder ==
  ASSUME IsFiniteSet(Students), TypeOK, QueueIsOrdered, ReapOnce
  PROVE  /\ QueueIsOrdered' /\ QueuedStudents' = QueuedStudents \cup Requeued
         /\ \A t \in Students \ Requeued : lease'[t] = lease[t] /\ ahead'[t] = ahead[t]
<1>1. /\ Requeued \subseteq Students /\ Requeued \cap QueuedStudents = {}
      /\ QueuedStudents \subseteq Students
  BY DEF Requeued, LostLeases, QueuedStudents
<1>2. Cardinality(Requeued) \in Nat
  BY <1>1, FS_Subset, FS_CardinalityType
<1>3. PICK rank \in [Requeued -> 1 .. Cardinality(Requeued)] :
        ahead' = [s \in Students |-> IF s \notin Requeued THEN ahead[s]
                    ELSE QueuedStudents \cup {t \in Requeued : rank[t] < rank[s]}]
  BY DEF ReapOnce
<1>4. \A t \in Requeued : rank[t] \in Nat
  BY <1>2
<1>5. /\ \A t \in Students \ Requeued : lease'[t] = lease[t]
      /\ \A t \in Requeued : lease'[t].state = "QUEUED"
  BY <1>1, QueuedFacts DEF ReapOnce, TypeOK
<1>6. QueuedStudents' = QueuedStudents \cup Requeued
  BY <1>1, <1>5 DEF QueuedStudents
<1>7. ASSUME NEW t \in Students, NEW u \in ahead'[t]
      PROVE  u # t /\ u \in QueuedStudents' /\ ahead'[u] \subseteq ahead'[t]
  <2>1. CASE t \notin Requeued
    <3>1. u \in ahead[t] /\ u # t /\ u \in QueuedStudents /\ ahead[u] \subseteq ahead[t]
      BY <1>3, <1>7, <2>1 DEF QueueIsOrdered
    <3>2. u \in Students \ Requeued
      BY <1>1, <3>1
    <3> QED BY <1>3, <1>6, <2>1, <3>1, <3>2
  <2>2. CASE t \in Requeued
    <3>1. ahead'[t] = QueuedStudents \cup {v \in Requeued : rank[v] < rank[t]}
      BY <1>3, <2>2
    <3>2. CASE u \in QueuedStudents
      <4>1. u \in Students \ Requeued /\ ahead[u] \subseteq QueuedStudents
        BY <1>1, <3>2 DEF QueueIsOrdered
      <4> QED BY <1>1, <1>3, <1>6, <2>2, <3>1, <3>2, <4>1
    <3>3. CASE u \in Requeued /\ rank[u] < rank[t]
      <4>1. ahead'[u] = QueuedStudents \cup {v \in Requeued : rank[v] < rank[u]}
        BY <1>1, <1>3, <3>3
      <4>2. u # t
        BY <1>4, <2>2, <3>3
      <4>3. \A v \in Requeued : rank[v] < rank[u] => rank[v] < rank[t]
        BY <1>4, <2>2, <3>3
      <4> QED BY <1>6, <3>1, <3>3, <4>1, <4>2, <4>3
    <3> QED BY <1>7, <3>1, <3>2, <3>3
  <2> QED BY <2>1, <2>2
<1> QED BY <1>3, <1>5, <1>6, <1>7 DEF QueueIsOrdered

LEMMA ReapOnceKeeps ==
  ASSUME IsFiniteSet(Students), Groundwork, TypeOK', AllocatorInvariant, ReapOnce
  PROVE  QueueKept
<1>0. TypeOK
  BY DEF Groundwork, OwnershipInvariant
<1>1. /\ QueueIsOrdered' /\ QueuedStudents' = QueuedStudents \cup Requeued
      /\ \A t \in Students \ Requeued : lease'[t] = lease[t] /\ ahead'[t] = ahead[t]
  BY <1>0, RequeuedOrder DEF AllocatorInvariant
<1>2. /\ UNCHANGED <<op, allocator, request, worker, leases, central>>
      /\ \A t \in Students : op[t].pc \notin Looking
  BY DEF ReapOnce, world, EventLoopFree, Running, Looking
<1>3. (event => event') /\ (Requeued # {} => event')
  BY DEF ReapOnce, Requeued
<1>4. \A t \in Students : PartsFor(t)
  BY DEF AllocatorInvariant, PartsFor
<1>5. ASSUME NEW t \in Students \ Requeued PROVE PartsFor(t)'
  BY <1>1, <1>2, <1>3, <1>4, PartsStay DEF QueueRests, OldestQueued
<1>6. ASSUME NEW t \in Requeued PROVE PartsFor(t)'
  <2>1. event'
    BY <1>3
  <2>2. t \in Students
    BY DEF Requeued, LostLeases
  <2> QED
    BY <1>2, <1>4, <2>1, <2>2
    DEF PartsFor, LooksForSomebody, AllocatorKnowsQueue, LockedOutKnowsQueue, Looking
<1>7. AllocatorInvariant'
  BY <1>1, <1>5, <1>6 DEF AllocatorInvariant, PartsFor
<1>8. ~Strands
  <2>1. CASE Requeued # {}
    BY <1>3, <2>1, WokenStrandsNobody
  <2>2. CASE Requeued = {}
    <3>1. ASSUME NEW t \in Students, Stranded(t)' PROVE Stranded(t)
      BY <1>1, <1>2, <1>3, <2>2, <3>1 DEF Stranded, BoardToGive, Available
    <3> QED BY <3>1 DEF Strands
  <2> QED BY <2>1, <2>2
<1> QED BY <1>7, <1>8 DEF QueueKept

\* Steps that leave the queue, the coroutines and the allocator alone.
LEMMA RestingKeeps ==
  ASSUME TypeOK, TypeOK', AllocatorInvariant, UNCHANGED <<ahead, allocator>>,
         event => event', NoBoardComes, central' = central,
         \A t \in Students :
           /\ lease'[t].state = "QUEUED" <=> lease[t].state = "QUEUED"
           /\ op'[t].pc = op[t].pc /\ op'[t].by = op[t].by
           /\ op[t].pc \in Looking => request'[t] = request[t]
  PROVE  QueueKept
<1>1. \A t \in Students : QueueRests(t)
  BY DEF QueueRests
<1>2. Undisturbed
  BY <1>1 DEF Undisturbed
<1> QED BY <1>2, UndisturbedKeeps, UndisturbedStrands DEF QueueKept

LEMMA NothingElseKeeps ==
  ASSUME TypeOK, TypeOK', AllocatorInvariant,
         UNCHANGED <<lease, ahead, worker, request, leases, central, op, event, allocator>>
  PROVE  QueueKept
<1>1. NoBoardComes
  BY DEF NoBoardComes, Available, TypeOK
<1> QED BY <1>1, RestingKeeps

LEMMA ReaperKeeps ==
  ASSUME IsFiniteSet(Students), Groundwork, TypeOK', AllocatorInvariant, ReaperTask
  PROVE  QueueKept
<1>0. TypeOK
  BY DEF Groundwork, OwnershipInvariant
<1>1. CASE ReapNext
  BY <1>0, <1>1, NothingElseKeeps DEF ReapNext, database
<1>2. ASSUME NEW s \in Students, ReapRelease(s) PROVE QueueKept
  <2>1. UNCHANGED <<ahead, worker, request, leases, central, event, allocator>>
    BY <1>2 DEF ReapRelease
  <2>2. CASE UNCHANGED <<lease, op>>
    BY <1>0, <2>1, <2>2, NothingElseKeeps
  <2>3. CASE LockFree(s) /\ StartRelease(s, "reaper")
    BY <2>1, <2>3, StartReleaseKeeps
  <2> QED BY <1>2, <2>2, <2>3 DEF ReapRelease
<1> QED BY <1>1, <1>2, ReapOnceKeeps DEF ReaperTask

-----------------------------------------------------------------------------
(* The surroundings: time, the boards, the network, the health monitor.    *)

LEMMA GrowIdleKeeps ==
  ASSUME Groundwork, TypeOK', AllocatorInvariant, NEW s \in Students, GrowIdle(s)
  PROVE  QueueKept
<1>1. TypeOK /\ UNCHANGED <<ahead, worker, request, leases, central, op, event, allocator>>
  BY DEF GrowIdle, tasks, Groundwork, OwnershipInvariant
<1>2. \A t \in Students : lease'[t].state = "QUEUED" <=> lease[t].state = "QUEUED"
  BY <1>1 DEF GrowIdle, TypeOK, Lease
<1>3. NoBoardComes
  BY <1>1 DEF NoBoardComes, Available, TypeOK
<1> QED BY <1>1, <1>2, <1>3, RestingKeeps

\* An answer, a timeout or a restarted board is noted in the call, nothing else.
LEMMA AnswerKeeps ==
  ASSUME Groundwork, TypeOK', AllocatorInvariant, NEW s \in Students, Serve(s) \/ TimeOut(s)
  PROVE  QueueKept
<1>1. /\ TypeOK
      /\ UNCHANGED <<lease, ahead, worker, request, leases, central, event, allocator>>
  BY DEF Serve, TimeOut, database, Groundwork, OwnershipInvariant
<1>2. PICK x : op' = [op EXCEPT ![s] = [op[s] EXCEPT !.reply = x]]
  BY DEF Serve, TimeOut
<1>3. \A t \in Students : op'[t].pc = op[t].pc /\ op'[t].by = op[t].by
  BY <1>1, <1>2 DEF TypeOK, Op
<1>4. NoBoardComes
  BY <1>1 DEF NoBoardComes, Available, TypeOK
<1> QED BY <1>1, <1>3, <1>4, RestingKeeps

LEMMA RestartKeeps ==
  ASSUME Groundwork, TypeOK', AllocatorInvariant, NEW b \in Boards, BoardRestart(b)
  PROVE  QueueKept
<1>1. /\ TypeOK
      /\ UNCHANGED <<lease, ahead, worker, request, leases, central, event, allocator>>
  BY DEF BoardRestart, database, Groundwork, OwnershipInvariant
<1>2. ASSUME NEW t \in Students PROVE op'[t].pc = op[t].pc /\ op'[t].by = op[t].by
  <2>1. op[t] \in Op
    BY <1>1 DEF TypeOK
  <2>2. op'[t] = op[t] \/ op'[t] = [op[t] EXCEPT !.reply = "error"]
    BY DEF BoardRestart
  <2> QED BY <2>1, <2>2 DEF Op
<1>3. NoBoardComes
  BY <1>1 DEF NoBoardComes, Available, TypeOK
<1> QED BY <1>1, <1>2, <1>3, RestingKeeps

\* Whatever a check finds, the leases it touches were in use; only a board that nobody
\* uses may become available.
LEMMA ApplyKeeps ==
  ASSUME Groundwork, TypeOK', AllocatorInvariant, NEW b \in Boards, ApplyStatus(b)
  PROVE  QueueKept
<1>1. /\ TypeOK
      /\ UNCHANGED <<ahead, request, leases, central, op, event, allocator>>
  BY DEF ApplyStatus, Groundwork, OwnershipInvariant
<1>2. ASSUME NEW t \in Students
      PROVE  lease'[t].state = "QUEUED" <=> lease[t].state = "QUEUED"
  <2>1. CASE UNCHANGED lease
    BY <2>1
  <2>2. ASSUME NEW s \in Students, IsLeaseOf(s, b), NEW x \in {"READY", "LOST"},
               lease' = [lease EXCEPT ![s] = [lease[s] EXCEPT !.state = x]]
        PROVE  lease'[t].state = "QUEUED" <=> lease[t].state = "QUEUED"
    <3>1. lease[s] \in Lease /\ lease \in [Students -> Lease]
      BY <1>1 DEF TypeOK
    <3>2. lease[s].state # "QUEUED"
      BY <2>2 DEF IsLeaseOf, ActiveStates
    <3>3. lease'[s].state = x
      BY <2>2, <3>1 DEF Lease
    <3>4. t # s => lease'[t] = lease[t]
      BY <2>2, <3>1
    <3> QED BY <2>2, <3>2, <3>3, <3>4
  <2> QED BY <2>1, <2>2 DEF ApplyStatus
<1>3. \A t \in Students : QueueRests(t)
  BY <1>1, <1>2 DEF QueueRests
<1>4. Undisturbed
  BY <1>1, <1>3 DEF Undisturbed
<1>5. Strands => MonitorFrees /\ "monitor" \in Environment
  <2> SUFFICES ASSUME Strands PROVE MonitorFrees /\ "monitor" \in Environment
    OBVIOUS
  <2>1. central' = "up" /\ central = "up"
    BY <1>1 DEF Strands, Stranded
  <2>2. Monitoring(b)
    BY <2>1 DEF ApplyStatus, Recovering
  <2>3. ~NoBoardComes
    BY <1>1, <1>4, UndisturbedStrands
  <2>4. \A c \in Boards \ {b} : worker'[c] = worker[c]
    BY <1>1 DEF ApplyStatus, TypeOK
  <2>5. ~Available(b) /\ Available(b)'
    BY <1>1, <2>3, <2>4 DEF NoBoardComes, Available, TypeOK
  <2>6. check[b].open /\ ~check'[b].open
    BY <1>1 DEF ApplyStatus, CheckDone, NoStatus, TypeOK
  <2> QED BY <2>2, <2>5, <2>6 DEF MonitorFrees, Monitoring
<1> QED BY <1>4, <1>5, UndisturbedKeeps DEF QueueKept

LEMMA CheckFailsKeeps ==
  ASSUME Groundwork, TypeOK', AllocatorInvariant, NEW b \in Boards, CheckFails(b)
  PROVE  QueueKept
<1>1. /\ TypeOK /\ OwnershipInvariant
      /\ UNCHANGED <<ahead, leases, central, op, event, allocator>>
  BY DEF CheckFails, Groundwork, OwnershipInvariant
<1>2. \A t \in Students : op[t].pc \notin Looking
  BY <1>1, NobodyRuns DEF CheckFails, Recovering, Monitoring, Running, Looking
<1>3. ASSUME NEW t \in Students
      PROVE  lease'[t].state = "QUEUED" <=> lease[t].state = "QUEUED"
  <2>1. lease[t] \in Lease
    BY <1>1 DEF TypeOK
  <2>2. lease'[t] = lease[t]
        \/ (IsLeaseOf(t, b) /\ lease'[t] = [lease[t] EXCEPT !.state = "LOST"])
    BY DEF CheckFails, MarkOffline
  <2> QED BY <2>1, <2>2 DEF Lease, IsLeaseOf, ActiveStates
<1>4. NoBoardComes
  BY <1>1 DEF NoBoardComes, Available, CheckFails, MarkOffline, TypeOK, Worker
<1> QED BY <1>1, <1>2, <1>3, <1>4, RestingKeeps

-----------------------------------------------------------------------------
(* Central dies and starts again.                                          *)

\* The queue is in the database; the event and whoever looked for a board are gone.
LEMMA CrashKeeps ==
  ASSUME AllocatorInvariant, Crash
  PROVE  QueueKept
<1>1. /\ UNCHANGED <<lease, ahead>> /\ allocator' = IdleAllocator /\ central' = "down"
      /\ \A t \in Students : op'[t].pc = "free" /\ op'[t].by = "nobody"
  BY DEF Crash, database, FreeOp
<1>2. QueueIsOrdered'
  BY <1>1, QueueStays, OrderStays DEF AllocatorInvariant
<1>3. \A t \in Students : PartsFor(t)'
  BY <1>1
  DEF PartsFor, LooksForSomebody, AllocatorKnowsQueue, LockedOutKnowsQueue, IdleAllocator
<1> QED
  BY <1>1, <1>2, <1>3, WokenStrandsNobody DEF QueueKept, AllocatorInvariant, PartsFor

LEMMA LifespanKeeps ==
  ASSUME Groundwork, TypeOK', AllocatorInvariant, Lifespan
  PROVE  QueueKept
<1>1. TypeOK /\ OwnershipInvariant /\ UNCHANGED <<ahead, op, allocator>> /\ (event => event')
  BY DEF Lifespan, RecoverRequests, StartServing, database, Groundwork, OwnershipInvariant
<1>2. ASSUME NEW t \in Students PROVE op[t].pc \notin Looking
  BY <1>1, NobodyRuns DEF Lifespan, RecoverRequests, StartServing, Running, Looking
<1>3. ASSUME NEW t \in Students
      PROVE  lease'[t].state = "QUEUED" <=> lease[t].state = "QUEUED"
  <2>1. lease[t] \in Lease
    BY <1>1 DEF TypeOK
  <2>2. RunningOf(t) # {} => lease[t].state = "BUSY"
    BY StudentKnown DEF StudentFits, RequestsFitLease
  <2>3. \/ lease'[t] = lease[t]
        \/ t \in Interrupted /\ lease'[t] = [lease[t] EXCEPT !.state = "LOST"]
    BY DEF Lifespan, RecoverRequests, StartServing, database
  <2> QED BY <2>1, <2>2, <2>3 DEF Interrupted, Lease
<1>4. \A t \in Students : QueueRests(t)
  BY <1>1, <1>2, <1>3 DEF QueueRests
<1>5. Undisturbed
  BY <1>1, <1>4 DEF Undisturbed
<1>6. event' \/ central' # "up"
  BY DEF Lifespan, RecoverRequests, StartServing
<1> QED BY <1>5, <1>6, UndisturbedKeeps, WokenStrandsNobody DEF QueueKept

-----------------------------------------------------------------------------
(* All steps.                                                              *)

LEMMA EveryStepKeepsQueue ==
  ASSUME IsFiniteSet(Students), Groundwork, AllocatorInvariant, Next
  PROVE  QueueKept
<1>1. TypeOK /\ TypeOK'
  BY GroundworkStep DEF Groundwork, OwnershipInvariant
<1>2. ASSUME NEW s \in Students,
             \/ Coroutine(s) \/ CreateArtifact(s) \/ SubmitPredict(s)
             \/ GrowIdle(s) \/ Serve(s) \/ TimeOut(s)
      PROVE  QueueKept
  <2>1. CASE CreateArtifact(s)
    BY <1>1, <2>1, NothingElseKeeps DEF CreateArtifact, tasks
  <2> QED
    BY <1>1, <1>2, <2>1, CoroutineKeeps, SubmitKeeps, GrowIdleKeeps, AnswerKeeps
<1>3. ASSUME NEW b \in Boards,
             \/ CheckTask(b) \/ CheckFails(b) \/ ReleaseWorker(b) \/ BoardRestart(b)
      PROVE  QueueKept
  <2>1. CASE StatusAnswered(b)
    BY <1>1, <2>1, NothingElseKeeps DEF StatusAnswered, database
  <2>2. CASE ReleaseWorker(b)
    BY <1>1, <2>2, StartReleaseKeeps DEF ReleaseWorker
  <2> QED
    BY <1>1, <1>3, <2>1, <2>2, ApplyKeeps, CheckFailsKeeps, RestartKeeps DEF CheckTask
<1>4. CASE AllocatorTask
  BY <1>1, <1>4, AllocatorLoopKeeps, AllocatorLocksKeeps DEF AllocatorTask
<1>5. CASE ServeOrphan
  BY <1>1, <1>5, NothingElseKeeps DEF ServeOrphan, database, tasks
<1> QED
  BY <1>1, <1>2, <1>3, <1>4, <1>5, ReaperKeeps, LifespanKeeps, CrashKeeps DEF Next

LEMMA InitialQueue == Init => AllocatorInvariant
<1> SUFFICES ASSUME Init PROVE AllocatorInvariant
  OBVIOUS
<1>1. /\ allocator.pc = "wait" /\ \A s \in Students : ahead[s] = {}
      /\ \A s \in Students : op[s].pc = "free" /\ op[s].by = "nobody"
  BY DEF Init, IdleAllocator, FreeOp
<1> QED
  BY <1>1 DEF AllocatorInvariant, QueueIsOrdered, LooksForSomebody, AllocatorKnowsQueue,
              LockedOutKnowsQueue

LEMMA StutterKeepsQueue ==
  ASSUME AllocatorInvariant, UNCHANGED vars
  PROVE  AllocatorInvariant' /\ ~Strands
<1>1. UNCHANGED <<lease, ahead, worker, request, leases, central, op, event, allocator>>
  BY DEF vars, database, tasks
<1>2. \A t \in Students : QueueRests(t)
  BY <1>1 DEF QueueRests
<1>3. AllocatorInvariant'
  BY <1>1, <1>2, UndisturbedKeeps DEF Undisturbed
<1>4. ~Strands
  BY <1>1 DEF Strands, Stranded, BoardToGive, Available
<1> QED BY <1>3, <1>4

(* The order of the queue, on whose behalf coroutines look for a board,    *)
(* and what allocator_event has been set for, in every reachable state of  *)
(* lease_manager.py's queue and allocator task.                            *)
THEOREM QueueAndAllocatorAgree ==
  ASSUME IsFiniteSet(Students)
  PROVE  Spec => []AllocatorInvariant
<1>1. Groundwork /\ AllocatorInvariant /\ [Next]_vars => AllocatorInvariant'
  <2>1. ASSUME Groundwork, AllocatorInvariant, Next PROVE AllocatorInvariant'
    BY <2>1, EveryStepKeepsQueue DEF QueueKept
  <2>2. ASSUME AllocatorInvariant, UNCHANGED vars PROVE AllocatorInvariant'
    BY <2>2, StutterKeepsQueue
  <2> QED BY <2>1, <2>2
<1> QED BY <1>1, InitialQueue, GroundworkHolds, PTL DEF Spec

(* No wake-up of the allocator is lost but the one that the monitor does   *)
(* not send when it makes a board IDLE (worker_registry.py,                *)
(* _check_worker): no other step leaves a student waiting beside a board   *)
(* that could be given to him, with everybody asleep.                      *)
THEOREM NoOtherWakeupIsLost ==
  ASSUME IsFiniteSet(Students)
  PROVE  Spec => OnlyMonitorStrands
<1>1. ASSUME Groundwork, AllocatorInvariant, Next, NEW s \in Students,
             ~Stranded(s), Stranded(s)'
      PROVE  MonitorFrees
  BY <1>1, EveryStepKeepsQueue DEF QueueKept, Strands
<1>2. Groundwork /\ AllocatorInvariant /\ [Next]_vars
        => [\A s \in Students : ~Stranded(s) /\ Stranded(s)' => MonitorFrees]_vars
  BY <1>1
<1>3. Spec => []AllocatorInvariant
  BY QueueAndAllocatorAgree
<1> QED BY <1>2, <1>3, GroundworkHolds, PTL DEF Spec, OnlyMonitorStrands

(* Without the monitor nobody is ever left waiting beside an idle board:   *)
(* lease_manager.py alone, with any timeouts, crashes and restarts, sets   *)
(* allocator_event whenever there is somebody to serve.                    *)
THEOREM NobodyIsStranded ==
  ASSUME IsFiniteSet(Students), "monitor" \notin Environment
  PROVE  Spec => [](\A s \in Students : ~Stranded(s))
<1> DEFINE Nobody == \A s \in Students : ~Stranded(s)
<1>1. Init => Nobody
  BY DEF Init, Stranded
<1>2. Groundwork /\ AllocatorInvariant /\ [Next]_vars /\ Nobody => Nobody'
  <2>1. ASSUME Groundwork, AllocatorInvariant, Next, Nobody PROVE Nobody'
    BY <2>1, EveryStepKeepsQueue DEF QueueKept, Strands
  <2>2. ASSUME AllocatorInvariant, UNCHANGED vars, Nobody PROVE Nobody'
    BY <2>2, StutterKeepsQueue DEF Strands
  <2> QED BY <2>1, <2>2
<1>3. Spec => []AllocatorInvariant
  BY QueueAndAllocatorAgree
<1> HIDE DEF Nobody
<1>4. Spec => []Nobody
  BY <1>1, <1>2, <1>3, GroundworkHolds, PTL DEF Spec
<1> QED BY <1>4 DEF Nobody
=============================================================================
