---------------------------- MODULE CentralProofs ----------------------------
(***************************************************************************)
(* TLAPS proofs about Central: OwnershipInvariant is inductive, hence      *)
(* TypeOK and Ownership hold for any students, boards and bounds.          *)
(***************************************************************************)
EXTENDS CentralInvariant, WellFoundedInduction, TLAPS

-----------------------------------------------------------------------------
(* What the helpers of the model return.                                   *)

LEMMA FreeOpType ==
  /\ FreeOp \in Op /\ FreeOp.pc = "free" /\ FreeOp.lid = NoLease /\ FreeOp.reply = "none"
  BY DEF FreeOp, Op, Running, Awaiting, NoRequest, NoLease, NoArtifact

LEMMA IdleTypes == IdleAllocator \in Allocator /\ IdleReaper \in Reaper
  BY DEF IdleAllocator, IdleReaper, Allocator, Reaper

LEMMA ContinueFacts ==
  ASSUME op \in [Students -> Op], NEW s \in Students, NEW pc \in Running, NEW i \in Nat,
         Continue(s, pc, i)
  PROVE  /\ op' \in [Students -> Op] /\ \A t \in Students \ {s} : op'[t] = op[t]
         /\ op'[s].pc = pc /\ op'[s].lid = NoLease /\ op'[s].reply = "none"
         /\ op'[s].req = i
<1> DEFINE o == [FreeOp EXCEPT !.pc = pc, !.by = op[s].by, !.req = i]
<1>1. /\ o \in Op /\ o.pc = pc /\ o.lid = NoLease /\ o.reply = "none" /\ o.req = i
  BY FreeOpType DEF Op
<1>2. op' = [op EXCEPT ![s] = o]
  BY DEF Continue
<1>3. op'[s] = o
  BY <1>2
<1> HIDE DEF o
<1> QED BY <1>1, <1>2, <1>3

LEMMA ReturnFacts ==
  ASSUME op \in [Students -> Op], event \in BOOLEAN, allocator \in Allocator,
         NEW s \in Students, NEW wake \in BOOLEAN, Return(s, wake)
  PROVE  /\ op' \in [Students -> Op] /\ \A t \in Students \ {s} : op'[t] = op[t]
         /\ op'[s] = FreeOp
         /\ event' \in BOOLEAN /\ allocator' \in Allocator
<1>1. op' = [op EXCEPT ![s] = FreeOp]
  BY DEF Return
<1>2. event' \in BOOLEAN
  BY DEF Return
<1>3. allocator' \in {allocator, IdleAllocator, [IdleAllocator EXCEPT !.pc = "scan"]}
  BY DEF Return
<1>4. [IdleAllocator EXCEPT !.pc = "scan"] \in Allocator
  BY DEF IdleAllocator, Allocator
<1> QED BY <1>1, <1>2, <1>3, <1>4, FreeOpType, IdleTypes

LEMMA AwaitCallFacts ==
  ASSUME op \in [Students -> Op], NEW s \in Students, NEW kind \in Awaiting, NEW i \in Nat,
         NEW b \in Boards, NEW lid \in Nat, NEW art \in Nat,
         AwaitCall(s, kind, i, b, lid, art)
  PROVE  /\ op' \in [Students -> Op] /\ \A t \in Students \ {s} : op'[t] = op[t]
         /\ op'[s].pc = kind /\ op'[s].lid = lid /\ op'[s].board = b /\ op'[s].req = i
<1> DEFINE o == [pc |-> kind, by |-> op[s].by, req |-> i, board |-> b,
                 lid |-> lid, art |-> art, reply |-> "pending"]
<1>1. o \in Op /\ o.pc = kind /\ o.lid = lid /\ o.board = b /\ o.req = i
  BY DEF Op
<1>2. op' = [op EXCEPT ![s] = o]
  BY DEF AwaitCall
<1>3. op'[s] = o
  BY <1>2
<1> HIDE DEF o
<1> QED BY <1>1, <1>2, <1>3

LEMMA QueuedFacts ==
  ASSUME NEW l \in Lease
  PROVE  /\ Queued(l) \in Lease /\ Queued(l).state = "QUEUED" /\ Queued(l).lid = NoLease
         /\ Queued(l).worker = None
  BY DEF Queued, Lease, LeaseStates, NoLease, NoArtifact

LEMMA QueueLeaseFacts ==
  ASSUME lease \in [Students -> Lease], ahead \in [Students -> SUBSET Students],
         NEW s \in Students, QueueLease(s)
  PROVE  /\ lease' \in [Students -> Lease] /\ ahead' \in [Students -> SUBSET Students]
         /\ \A t \in Students \ {s} : lease'[t] = lease[t]
         /\ lease'[s].state = "QUEUED" /\ lease'[s].lid = NoLease
<1>1. lease' = [lease EXCEPT ![s] = Queued(lease[s])]
  BY DEF QueueLease
<1>2. ahead' \in [Students -> SUBSET Students]
  BY DEF QueueLease, QueuedStudents
<1>3. lease'[s] = Queued(lease[s])
  BY <1>1
<1> QED BY <1>1, <1>2, <1>3, QueuedFacts

LEMMA RequestRow ==
  ASSUME request \in [Students -> [Requests -> Request]], NEW s \in Students,
         NEW i, NEW r \in Request, request' = WithRequest(s, i, r)
  PROVE  request' \in [Students -> [Requests -> Request]]
  BY DEF WithRequest

-----------------------------------------------------------------------------
(* What a step may do to the rows and the coroutines, and what that keeps. *)

\* The row keeps its id and its board and does not come back into use, or gives up the id.
KeepsRow(t) ==
  /\ lease'[t].lid = lease[t].lid /\ lease'[t].worker = lease[t].worker
  /\ lease'[t].state \in ActiveStates => Active(t)
  /\ lease'[t].state \in {"QUEUED", "UNASSIGNED"} => lease[t].state \in {"QUEUED", "UNASSIGNED"}
DropsRow(t) ==
  lease'[t].lid = NoLease /\ lease'[t].state \in {"QUEUED", "UNASSIGNED"}

\* A board whose row takes another id is not the board of a lease in use.
KeepsBoard(b) ==
  worker'[b].lid = worker[b].lid \/ \A t \in Students : lease'[t].state \in ActiveStates
                                                       => lease'[t].worker # b

LEMMA RowsKept ==
  ASSUME OwnershipInvariant,
         \A t \in Students : KeepsRow(t) \/ DropsRow(t),
         \A b \in Boards : KeepsBoard(b)
  PROVE  LidsAreUnique' /\ LeaseOwnsBoard' /\ WaitingIsBare'
<1> USE DEF OwnershipInvariant, KeepsRow, DropsRow
<1>1. LidsAreUnique'
  BY DEF LidsAreUnique
<1>2. LeaseOwnsBoard'
  BY DEF LeaseOwnsBoard, KeepsBoard, Active, ActiveStates
<1>3. WaitingIsBare'
  BY DEF WaitingIsBare
<1> QED BY <1>1, <1>2, <1>3

\* Where the coroutine of t may stand after a step.
OpHolds(t) ==
  /\ op'[t].pc \in {"drain", "run"} => lease'[t].state \in ActiveStates
  /\ op'[t].pc \in {"deploy", "run", "predict"} => op'[t].req \in Requests
  /\ op'[t].pc \in Awaiting => op'[t].board \in Boards /\ op'[t].lid # NoLease
  /\ op'[t].reply # "none" => op'[t].pc \in Awaiting
  /\ op'[t].lid \in {NoLease, lease[t].lid, op[t].lid}

(* A step of the coroutine that holds the lock of s: it writes that        *)
(* student's row and the states of boards, and moves to another point.     *)
LEMMA StudentStep ==
  ASSUME OwnershipInvariant, NEW s \in Students, TypeOK',
         central' = central, central = "up", leases' = leases,
         check' = check, board' = board, orphans' = orphans,
         \A t \in Students \ {s} : lease'[t] = lease[t] /\ op'[t] = op[t],
         \A b \in Boards : worker'[b].lid \in {worker[b].lid, NoLease} /\ KeepsBoard(b),
         KeepsRow(s) \/ DropsRow(s),
         OpHolds(s)
  PROVE  OwnershipInvariant'
<1> USE DEF OwnershipInvariant
<1>1. \A t \in Students : KeepsRow(t) \/ DropsRow(t)
  BY DEF KeepsRow, Active
<1>2. LidsAreUnique' /\ LeaseOwnsBoard' /\ WaitingIsBare'
  BY <1>1, RowsKept
<1>3. \A t \in Students : lease'[t].lid \in {lease[t].lid, NoLease}
  BY <1>1 DEF KeepsRow, DropsRow
<1>4. \A t \in Students : op'[t].lid \in {op[t].lid, lease[t].lid, NoLease}
  BY DEF OpHolds
<1>5. leases \in Nat
  BY DEF TypeOK
<1>6. LidsAreDrawn'
  BY <1>3, <1>4, <1>5 DEF LidsAreDrawn, NoLease
<1>7. CoroutineHoldsLease'
  BY DEF CoroutineHoldsLease, OpHolds, Active
<1>8. OnlyUpHasTasks'
  BY DEF OnlyUpHasTasks
<1> QED BY <1>2, <1>6, <1>7, <1>8

\* A coroutine that has the lock runs in a Central that is up.
LEMMA HolderIsUp ==
  ASSUME OwnershipInvariant, NEW s \in Students, op[s].pc # "free"
  PROVE  central = "up"
  BY FreeOpType DEF OwnershipInvariant, OnlyUpHasTasks

-----------------------------------------------------------------------------
(* One lemma per step of the coroutine of s.                               *)

LEMMA ProcessStep ==
  ASSUME OwnershipInvariant, NEW s \in Students, ProcessStudentLocked(s)
  PROVE  OwnershipInvariant'
<1> USE DEF OwnershipInvariant
<1>1. CASE lease[s].state \in {"UNASSIGNED", "ERROR", "LOST"}
  <2>1. QueueLease(s)
    BY <1>1 DEF ProcessStudentLocked
  <2>2. /\ lease' \in [Students -> Lease] /\ ahead' \in [Students -> SUBSET Students]
        /\ \A t \in Students \ {s} : lease'[t] = lease[t]
        /\ lease'[s].state = "QUEUED" /\ lease'[s].lid = NoLease
    BY <2>1, QueueLeaseFacts DEF TypeOK
  <2>3. Continue(s, "reserve", NoRequest)
    BY <2>2 DEF ProcessStudentLocked
  <2>4. /\ op' \in [Students -> Op] /\ \A t \in Students \ {s} : op'[t] = op[t]
        /\ op'[s].pc = "reserve" /\ op'[s].lid = NoLease /\ op'[s].reply = "none"
    BY <2>3, ContinueFacts DEF TypeOK, Running, NoRequest
  <2>5. TypeOK'
    BY <2>2, <2>4 DEF TypeOK, ProcessStudentLocked, world
  <2> QED
    BY <2>2, <2>4, <2>5, StudentStep, HolderIsUp
    DEF ProcessStudentLocked, world, OpHolds, KeepsBoard, DropsRow, Awaiting
<1>2. CASE lease[s].state \notin {"UNASSIGNED", "ERROR", "LOST"}
  <2>1. lease' = lease /\ ahead' = ahead
    BY <1>2 DEF ProcessStudentLocked
  <2> DEFINE pc == IF lease[s].lid = NoLease THEN "reserve" ELSE "drain"
  <2>2. Continue(s, pc, NoRequest)
    BY <2>1 DEF ProcessStudentLocked
  <2>3. pc \in Running /\ NoRequest \in Nat
    BY DEF Running, NoRequest
  <2>4. lease[s].lid # NoLease => Active(s)
    BY <1>2 DEF TypeOK, Lease, LeaseStates, Active, ActiveStates, WaitingIsBare
  <2> HIDE DEF pc
  <2>5. /\ op' \in [Students -> Op] /\ \A t \in Students \ {s} : op'[t] = op[t]
        /\ op'[s].pc = pc /\ op'[s].lid = NoLease /\ op'[s].reply = "none"
    BY <2>2, <2>3, ContinueFacts DEF TypeOK
  <2>6. TypeOK'
    BY <2>1, <2>5 DEF TypeOK, ProcessStudentLocked, world
  <2>7. OpHolds(s)
    BY <2>1, <2>4, <2>5 DEF OpHolds, Active, Awaiting, pc
  <2> QED
    BY <2>1, <2>5, <2>6, <2>7, StudentStep, HolderIsUp
    DEF ProcessStudentLocked, world, KeepsBoard, KeepsRow, Active
<1> QED BY <1>1, <1>2

LEMMA ReserveStep ==
  ASSUME OwnershipInvariant, NEW s \in Students, ReserveLease(s)
  PROVE  OwnershipInvariant'
<1> USE DEF OwnershipInvariant
<1>0. central = "up"
  BY HolderIsUp DEF ReserveLease
<1>1. CASE \A b \in Boards : ~MayReserve(s, b)
  <2>1. Return(s, FALSE) /\ UNCHANGED <<lease, ahead, worker, leases>>
    BY <1>1 DEF ReserveLease
  <2>2. /\ op' \in [Students -> Op] /\ \A t \in Students \ {s} : op'[t] = op[t]
        /\ op'[s] = FreeOp /\ event' \in BOOLEAN /\ allocator' \in Allocator
    BY <2>1, ReturnFacts DEF TypeOK
  <2>3. TypeOK'
    BY <2>1, <2>2 DEF TypeOK, ReserveLease, world
  <2> QED
    BY <1>0, <2>1, <2>2, <2>3, FreeOpType, StudentStep
    DEF ReserveLease, world, OpHolds, KeepsBoard, KeepsRow, Active, Awaiting
<1>2. ASSUME NEW b \in Boards, MayReserve(s, b),
             leases' = leases + 1,
             worker' = [worker EXCEPT ![b] = [state |-> "RESERVED", lid |-> leases + 1,
                                              art |-> NoArtifact]],
             lease' = [lease EXCEPT ![s] = [lease[s] EXCEPT !.state = "RESERVED",
                             !.worker = b, !.lid = leases + 1, !.idle = "active"]],
             ahead' = [t \in Students |-> ahead[t] \ {s}],
             Continue(s, "drain", NoRequest),
             UNCHANGED <<event, allocator>>
      PROVE  OwnershipInvariant'
  <2>1. /\ op' \in [Students -> Op] /\ \A t \in Students \ {s} : op'[t] = op[t]
        /\ op'[s].pc = "drain" /\ op'[s].lid = NoLease /\ op'[s].reply = "none"
    BY <1>2, ContinueFacts DEF TypeOK, Running, NoRequest
  <2> DEFINE l == [lease[s] EXCEPT !.state = "RESERVED", !.worker = b,
                                   !.lid = leases + 1, !.idle = "active"]
             w == [state |-> "RESERVED", lid |-> leases + 1, art |-> NoArtifact]
  <2>2. /\ l \in Lease /\ l.state = "RESERVED" /\ l.worker = b /\ l.lid = leases + 1
        /\ w \in Worker /\ w.lid = leases + 1
    <3>1. lease[s] \in Lease /\ leases + 1 \in Nat
      BY DEF TypeOK
    <3>2. /\ l \in Lease /\ l.state = "RESERVED" /\ l.worker = b /\ l.lid = leases + 1
      BY <3>1 DEF Lease, LeaseStates, IdleTimes
    <3>3. w \in Worker /\ w.lid = leases + 1
      BY <3>1 DEF Worker, WorkerStates, NoArtifact
    <3> QED BY <3>2, <3>3
  <2>3. lease' = [lease EXCEPT ![s] = l] /\ worker' = [worker EXCEPT ![b] = w]
    BY <1>2
  <2> HIDE DEF l, w
  <2>4. TypeOK'
    <3>1. lease' \in [Students -> Lease] /\ worker' \in [Boards -> Worker]
      BY <2>2, <2>3 DEF TypeOK
    <3>2. ahead' \in [Students -> SUBSET Students] /\ leases' \in Nat
      BY <1>2 DEF TypeOK
    <3> QED BY <1>2, <2>1, <3>1, <3>2 DEF TypeOK, ReserveLease, world
  <2>5. /\ lease'[s] = l /\ worker'[b] = w
        /\ \A t \in Students \ {s} : lease'[t] = lease[t]
        /\ \A c \in Boards \ {b} : worker'[c] = worker[c]
    BY <2>3 DEF TypeOK
  <2>6. leases \in Nat /\ NoLease = 0 /\ worker[b].lid = NoLease
    BY <1>2 DEF TypeOK, NoLease, MayReserve
  <2>7. /\ check' = check /\ board' = board /\ orphans' = orphans /\ central' = central
    BY DEF ReserveLease, world
  <2>8. \A t \in Students : lease[t].lid \in Nat /\ op[t].lid \in Nat
    BY DEF TypeOK, Lease, Op
  <2>81. /\ \A c \in Boards : worker[c].lid \in Nat /\ check[c].lid \in Nat /\ board[c].lid \in Nat
         /\ \A c \in orphans : c.lid \in Nat
    BY DEF TypeOK, Worker, Status, Board, Call
  <2>9. LidsAreDrawn'
    BY <1>2, <2>1, <2>2, <2>5, <2>6, <2>7, <2>8, <2>81 DEF LidsAreDrawn
  <2>10. LidsAreUnique'
    <3>1. \A t \in Students \ {s} : lease'[t].lid # lease'[s].lid
      BY <2>2, <2>5, <2>6, <2>8 DEF LidsAreDrawn
    <3> QED BY <2>5, <3>1 DEF LidsAreUnique
  <2>11. LeaseOwnsBoard'
    BY <2>2, <2>5, <2>6 DEF LeaseOwnsBoard, Active, ActiveStates
  <2>12. WaitingIsBare'
    BY <2>2, <2>5 DEF WaitingIsBare
  <2>13. CoroutineHoldsLease'
    BY <2>1, <2>2, <2>5 DEF CoroutineHoldsLease, Active, ActiveStates, Awaiting
  <2>14. OnlyUpHasTasks'
    BY <1>0, <2>7 DEF OnlyUpHasTasks
  <2> QED BY <2>4, <2>9, <2>10, <2>11, <2>12, <2>13, <2>14
<1> QED BY <1>1, <1>2 DEF ReserveLease

\* Steps that write only the state, the artifact or the idle time of a lease row, and
\* only the state and the artifact of a worker row.
LEMMA LeaseWrite ==
  ASSUME lease \in [Students -> Lease], NEW s \in Students, NEW x \in LeaseStates,
         NEW a \in Nat,
         NEW l \in {[lease[s] EXCEPT !.state = x],
                    [lease[s] EXCEPT !.state = x, !.idle = "active"],
                    [lease[s] EXCEPT !.state = x, !.art = a, !.idle = "active"]},
         lease' = [lease EXCEPT ![s] = l]
  PROVE  /\ lease' \in [Students -> Lease]
         /\ \A t \in Students \ {s} : lease'[t] = lease[t]
         /\ lease'[s].state = x /\ lease'[s].lid = lease[s].lid
         /\ lease'[s].worker = lease[s].worker
<1>1. lease[s] \in Lease
  OBVIOUS
<1>2. l \in Lease /\ l.state = x /\ l.lid = lease[s].lid /\ l.worker = lease[s].worker
  <2>1. CASE l = [lease[s] EXCEPT !.state = x]
    BY <1>1, <2>1 DEF Lease
  <2>2. CASE l = [lease[s] EXCEPT !.state = x, !.idle = "active"]
    BY <1>1, <2>2 DEF Lease, IdleTimes
  <2>3. CASE l = [lease[s] EXCEPT !.state = x, !.art = a, !.idle = "active"]
    BY <1>1, <2>3 DEF Lease, IdleTimes
  <2> QED BY <2>1, <2>2, <2>3
<1>3. lease'[s] = l
  OBVIOUS
<1> QED BY <1>2, <1>3

LEMMA WorkerWrite ==
  ASSUME worker \in [Boards -> Worker], NEW b, NEW x \in WorkerStates, NEW a \in Nat,
         NEW w \in {[worker[b] EXCEPT !.state = x], [worker[b] EXCEPT !.state = x, !.art = a]},
         worker' = [worker EXCEPT ![b] = w]
  PROVE  /\ worker' \in [Boards -> Worker]
         /\ \A c \in Boards : worker'[c].lid = worker[c].lid
<1>1. CASE b \in Boards
  <2>1. worker[b] \in Worker
    BY <1>1
  <2>2. w \in Worker /\ w.lid = worker[b].lid
    BY <2>1 DEF Worker
  <2> QED BY <2>2
<1>2. CASE b \notin Boards
  <2>1. worker' = worker
    BY <1>2
  <2> QED BY <2>1
<1> QED BY <1>1, <1>2

\* A set of natural numbers that is not empty has a least element.
LEMMA LeastElement ==
  ASSUME NEW S \in SUBSET Nat, S # {}
  PROVE  \E n \in S : \A m \in S : n <= m
<1> DEFINE R == {ss \in Nat \X Nat : ss[1] < ss[2]}
<1>1. IsWellFoundedOn(R, Nat)
  BY NatLessThanWellFounded DEF OpToRel
<1> HIDE DEF R
<1>2. PICK n \in S : \A m \in S : ~(<<m, n>> \in R)
  BY <1>1, WFMin
<1>3. ASSUME NEW m \in S PROVE n <= m
  <2>1. n \in Nat /\ m \in Nat
    OBVIOUS
  <2>2. m < n => <<m, n>> \in R
    BY <2>1 DEF R
  <2> QED BY <1>2, <2>1, <2>2
<1> QED BY <1>3

\* The oldest of some requests is one of them.
LEMMA NextIsPending ==
  ASSUME TypeOK, NEW s \in Students, Pending(s) # {}
  PROVE  /\ NextOf(s) \in Pending(s)
         /\ NextOf(s) \in Requests /\ NextOf(s) \in Nat
         /\ request[s][NextOf(s)].art \in Nat
<1>1. Pending(s) \subseteq Nat /\ Pending(s) \subseteq Requests
  BY DEF Pending, Requests
<1>2. \E j \in Pending(s) : \A k \in Pending(s) : j <= k
  BY <1>1, LeastElement
<1>3. NextOf(s) \in Pending(s)
  BY <1>2 DEF NextOf
<1> QED BY <1>1, <1>3 DEF TypeOK, Request

LEMMA DrainStep ==
  ASSUME OwnershipInvariant, NEW s \in Students, DrainLocked(s)
  PROVE  OwnershipInvariant'
<1> USE DEF OwnershipInvariant
<1>0. /\ central = "up" /\ Active(s) /\ lease[s].lid # NoLease
      /\ lease[s].worker \in Boards /\ lease[s].lid \in Nat
      /\ lease[s].state \notin {"QUEUED", "UNASSIGNED"}
  BY HolderIsUp DEF DrainLocked, CoroutineHoldsLease, LeaseOwnsBoard, TypeOK, Lease,
                    Active, ActiveStates
<1> DEFINE b == lease[s].worker
           i == NextOf(s)
           a == request[s][i].art
<1>1. ASSUME Pending(s) = {},
             lease' = [lease EXCEPT ![s] = [lease[s] EXCEPT !.state = "READY"]],
             UNCHANGED worker, Return(s, FALSE)
      PROVE  OwnershipInvariant'
  <2>1. /\ lease' \in [Students -> Lease]
        /\ \A t \in Students \ {s} : lease'[t] = lease[t]
        /\ lease'[s].state = "READY" /\ lease'[s].lid = lease[s].lid
        /\ lease'[s].worker = lease[s].worker
    BY <1>0, <1>1, LeaseWrite DEF TypeOK, LeaseStates
  <2>2. /\ op' \in [Students -> Op] /\ \A t \in Students \ {s} : op'[t] = op[t]
        /\ op'[s] = FreeOp /\ event' \in BOOLEAN /\ allocator' \in Allocator
    BY <1>1, ReturnFacts DEF TypeOK
  <2>3. TypeOK'
    BY <1>1, <2>1, <2>2 DEF TypeOK, DrainLocked, world
  <2> QED
    BY <1>0, <1>1, <2>1, <2>2, <2>3, FreeOpType, StudentStep
    DEF DrainLocked, world, OpHolds, KeepsBoard, KeepsRow, Active, Awaiting
<1>2. ASSUME lease' = [lease EXCEPT ![s] = [lease[s] EXCEPT !.state = "LOST"]],
             UNCHANGED worker, Return(s, FALSE)
      PROVE  OwnershipInvariant'
  <2>1. /\ lease' \in [Students -> Lease]
        /\ \A t \in Students \ {s} : lease'[t] = lease[t]
        /\ lease'[s].state = "LOST" /\ lease'[s].lid = lease[s].lid
        /\ lease'[s].worker = lease[s].worker
    BY <1>0, <1>2, LeaseWrite DEF TypeOK, LeaseStates
  <2>2. /\ op' \in [Students -> Op] /\ \A t \in Students \ {s} : op'[t] = op[t]
        /\ op'[s] = FreeOp /\ event' \in BOOLEAN /\ allocator' \in Allocator
    BY <1>2, ReturnFacts DEF TypeOK
  <2>3. TypeOK'
    BY <1>2, <2>1, <2>2 DEF TypeOK, DrainLocked, world
  <2> QED
    BY <1>0, <1>2, <2>1, <2>2, <2>3, FreeOpType, StudentStep
    DEF DrainLocked, world, OpHolds, KeepsBoard, KeepsRow, ActiveStates, Awaiting
<1>3. ASSUME Pending(s) # {}
      PROVE  i \in Nat /\ i \in Requests /\ a \in Nat
  BY <1>3, NextIsPending
<1>4. ASSUME Pending(s) # {}, UNCHANGED <<event, allocator>>,
             Continue(s, "run", i), UNCHANGED <<lease, worker>>
      PROVE  OwnershipInvariant'
  <2>1. i \in Nat /\ i \in Requests
    BY <1>3, <1>4
  <2>2. /\ op' \in [Students -> Op] /\ \A t \in Students \ {s} : op'[t] = op[t]
        /\ op'[s].pc = "run" /\ op'[s].lid = NoLease /\ op'[s].reply = "none"
        /\ op'[s].req = i
    BY <1>4, <2>1, ContinueFacts DEF TypeOK, Running
  <2>3. TypeOK'
    BY <1>4, <2>2 DEF TypeOK, DrainLocked, world
  <2> QED
    BY <1>0, <1>4, <2>1, <2>2, <2>3, StudentStep
    DEF DrainLocked, world, OpHolds, KeepsBoard, KeepsRow, Active, Awaiting
<1>5. ASSUME Pending(s) # {}, UNCHANGED <<event, allocator>>,
             lease' = [lease EXCEPT ![s] = [lease[s] EXCEPT !.state = "DEPLOYING"]],
             worker' = [worker EXCEPT ![b] = [worker[b] EXCEPT !.state = "DEPLOYING"]],
             AwaitCall(s, "deploy", i, b, lease[s].lid, a)
      PROVE  OwnershipInvariant'
  <2>1. i \in Nat /\ i \in Requests /\ a \in Nat
    BY <1>3, <1>5
  <2>2. /\ lease' \in [Students -> Lease]
        /\ \A t \in Students \ {s} : lease'[t] = lease[t]
        /\ lease'[s].state = "DEPLOYING" /\ lease'[s].lid = lease[s].lid
        /\ lease'[s].worker = lease[s].worker
    BY <1>5, <2>1, LeaseWrite DEF TypeOK, LeaseStates
  <2>3. /\ worker' \in [Boards -> Worker]
        /\ \A c \in Boards : worker'[c].lid = worker[c].lid
    BY <1>5, <2>1, WorkerWrite DEF TypeOK, WorkerStates
  <2>4. /\ op' \in [Students -> Op] /\ \A t \in Students \ {s} : op'[t] = op[t]
        /\ op'[s].pc = "deploy" /\ op'[s].lid = lease[s].lid /\ op'[s].board = b
        /\ op'[s].req = i
    BY <1>0, <1>5, <2>1, AwaitCallFacts DEF TypeOK, Awaiting
  <2>5. TypeOK'
    BY <1>5, <2>2, <2>3, <2>4 DEF TypeOK, DrainLocked, world
  <2>6. central' = central /\ leases' = leases /\ check' = check /\ board' = board
        /\ orphans' = orphans
    BY DEF DrainLocked, world
  <2>7. KeepsRow(s) /\ \A c \in Boards : KeepsBoard(c)
    BY <1>0, <2>2, <2>3 DEF KeepsRow, KeepsBoard
  <2>8. OpHolds(s)
    BY <1>0, <2>1, <2>2, <2>4 DEF OpHolds, Awaiting
  <2> HIDE DEF OwnershipInvariant
  <2> QED
    BY <1>0, <2>2, <2>3, <2>4, <2>5, <2>6, <2>7, <2>8, StudentStep
<1> QED BY <1>0, <1>1, <1>2, <1>4, <1>5 DEF DrainLocked

\* A step of the lock's holder that returns and leaves the lease row alone.
LEMMA ReturnOnly ==
  ASSUME OwnershipInvariant, NEW s \in Students, NEW wake \in BOOLEAN,
         op[s].pc # "free", Return(s, wake),
         UNCHANGED <<database, central, unchecked, reaper, check, failures, world>>
  PROVE  OwnershipInvariant'
<1> USE DEF OwnershipInvariant
<1>1. /\ op' \in [Students -> Op] /\ \A t \in Students \ {s} : op'[t] = op[t]
      /\ op'[s] = FreeOp /\ event' \in BOOLEAN /\ allocator' \in Allocator
  BY ReturnFacts DEF TypeOK
<1>2. TypeOK'
  BY <1>1 DEF TypeOK, database, world
<1> QED
  BY <1>1, <1>2, FreeOpType, HolderIsUp, StudentStep
  DEF database, world, OpHolds, KeepsBoard, KeepsRow, Active, Awaiting

LEMMA MarkRunningStep ==
  ASSUME OwnershipInvariant, NEW s \in Students, MarkRunning(s)
  PROVE  OwnershipInvariant'
<1> USE DEF OwnershipInvariant
<1> DEFINE b == lease[s].worker
           i == op[s].req
           r == [request[s][i] EXCEPT !.status = "RUNNING", !.worker = b]
<1>0. /\ central = "up" /\ Active(s) /\ lease[s].lid # NoLease
      /\ b \in Boards /\ lease[s].lid \in Nat /\ i \in Requests /\ i \in Nat
      /\ lease[s].state \notin {"QUEUED", "UNASSIGNED"}
  BY HolderIsUp DEF MarkRunning, CoroutineHoldsLease, LeaseOwnsBoard, TypeOK, Lease, Op,
                    Active, ActiveStates
<1>1. CASE ~MayRun(s)
  BY <1>0, <1>1, ReturnOnly DEF MarkRunning, database
<1>2. CASE MayRun(s)
  <2>1. /\ request' = WithRequest(s, i, r)
        /\ lease' = [lease EXCEPT ![s] = [lease[s] EXCEPT !.state = "BUSY", !.idle = "active"]]
        /\ worker' = [worker EXCEPT ![b] = [worker[b] EXCEPT !.state = "BUSY"]]
        /\ AwaitCall(s, "predict", i, b, lease[s].lid, request[s][i].art)
        /\ UNCHANGED <<event, allocator>>
    BY <1>2 DEF MarkRunning
  <2>2. request[s][i] \in Request
    BY <1>0 DEF TypeOK
  <2>3. r \in Request /\ request[s][i].art \in Nat
    BY <1>0, <2>2 DEF Request, RequestStates
  <2> HIDE DEF r
  <2>4. request' \in [Students -> [Requests -> Request]]
    BY <2>1, <2>3, RequestRow DEF TypeOK
  <2>5. /\ lease' \in [Students -> Lease]
        /\ \A t \in Students \ {s} : lease'[t] = lease[t]
        /\ lease'[s].state = "BUSY" /\ lease'[s].lid = lease[s].lid
        /\ lease'[s].worker = lease[s].worker
    BY <1>0, <2>1, LeaseWrite DEF TypeOK, LeaseStates
  <2>6. /\ worker' \in [Boards -> Worker]
        /\ \A c \in Boards : worker'[c].lid = worker[c].lid
    BY <1>0, <2>1, WorkerWrite DEF TypeOK, WorkerStates
  <2>7. /\ op' \in [Students -> Op] /\ \A t \in Students \ {s} : op'[t] = op[t]
        /\ op'[s].pc = "predict" /\ op'[s].lid = lease[s].lid /\ op'[s].board = b
        /\ op'[s].req = i
    BY <1>0, <2>1, <2>3, AwaitCallFacts DEF TypeOK, Awaiting
  <2>8. TypeOK'
    BY <2>1, <2>4, <2>5, <2>6, <2>7 DEF TypeOK, MarkRunning, world
  <2>9. central' = central /\ leases' = leases /\ check' = check /\ board' = board
        /\ orphans' = orphans
    BY DEF MarkRunning, world
  <2>10. KeepsRow(s) /\ \A c \in Boards : KeepsBoard(c)
    BY <1>0, <2>5, <2>6 DEF KeepsRow, KeepsBoard
  <2>11. OpHolds(s)
    BY <1>0, <2>5, <2>7 DEF OpHolds, Awaiting
  <2> HIDE DEF OwnershipInvariant
  <2> QED
    BY <1>0, <2>5, <2>6, <2>7, <2>8, <2>9, <2>10, <2>11, StudentStep
<1> QED BY <1>1, <1>2

LEMMA DeploySucceededStep ==
  ASSUME OwnershipInvariant, NEW s \in Students, DeploySucceeded(s)
  PROVE  OwnershipInvariant'
<1> USE DEF OwnershipInvariant
<1>0. /\ central = "up" /\ op[s].req \in Requests /\ op[s].req \in Nat /\ op[s].art \in Nat
  BY HolderIsUp DEF DeploySucceeded, CoroutineHoldsLease, TypeOK, Op
<1>1. CASE ~DeployStillWanted(s)
  BY <1>1, ReturnOnly DEF DeploySucceeded, database
<1>2. CASE DeployStillWanted(s)
  <2>1. /\ lease' = [lease EXCEPT ![s] = [lease[s] EXCEPT !.state = "READY",
                                            !.art = op[s].art, !.idle = "active"]]
        /\ worker' = [worker EXCEPT ![op[s].board] =
                        [worker[op[s].board] EXCEPT !.state = "READY", !.art = op[s].art]]
        /\ Continue(s, "run", op[s].req)
        /\ UNCHANGED <<event, allocator>>
    BY <1>2 DEF DeploySucceeded
  <2>2. lease[s].state = "DEPLOYING"
    BY <1>2 DEF DeployStillWanted
  <2>3. /\ lease' \in [Students -> Lease]
        /\ \A t \in Students \ {s} : lease'[t] = lease[t]
        /\ lease'[s].state = "READY" /\ lease'[s].lid = lease[s].lid
        /\ lease'[s].worker = lease[s].worker
    BY <1>0, <2>1, LeaseWrite DEF TypeOK, LeaseStates
  <2>4. /\ worker' \in [Boards -> Worker]
        /\ \A c \in Boards : worker'[c].lid = worker[c].lid
    BY <1>0, <2>1, WorkerWrite DEF TypeOK, WorkerStates
  <2>5. /\ op' \in [Students -> Op] /\ \A t \in Students \ {s} : op'[t] = op[t]
        /\ op'[s].pc = "run" /\ op'[s].lid = NoLease /\ op'[s].reply = "none"
        /\ op'[s].req = op[s].req
    BY <1>0, <2>1, ContinueFacts DEF TypeOK, Running
  <2>6. TypeOK'
    BY <2>1, <2>3, <2>4, <2>5 DEF TypeOK, DeploySucceeded, world
  <2>7. central' = central /\ leases' = leases /\ check' = check /\ board' = board
        /\ orphans' = orphans
    BY DEF DeploySucceeded, world
  <2>8. KeepsRow(s) /\ \A c \in Boards : KeepsBoard(c)
    BY <2>2, <2>3, <2>4 DEF KeepsRow, KeepsBoard, Active, ActiveStates
  <2>9. OpHolds(s)
    BY <1>0, <2>3, <2>5 DEF OpHolds, Awaiting, ActiveStates
  <2> HIDE DEF OwnershipInvariant
  <2> QED
    BY <1>0, <2>3, <2>4, <2>5, <2>6, <2>7, <2>8, <2>9, StudentStep
<1> QED BY <1>1, <1>2

LEMMA DeployFailedStep ==
  ASSUME OwnershipInvariant, NEW s \in Students, DeployFailed(s)
  PROVE  OwnershipInvariant'
<1> USE DEF OwnershipInvariant
<1>0. central = "up" /\ Return(s, TRUE) /\ op[s].pc # "free"
  BY HolderIsUp DEF DeployFailed
<1>1. CASE ~DeployStillWanted(s)
  BY <1>0, <1>1, ReturnOnly DEF DeployFailed, database
<1>2. CASE DeployStillWanted(s)
  <2>1. QueueLease(s) /\ worker' = [worker EXCEPT ![op[s].board] =
                                      [worker[op[s].board] EXCEPT !.state = "ERROR"]]
    BY <1>2 DEF DeployFailed
  <2>2. /\ lease' \in [Students -> Lease] /\ ahead' \in [Students -> SUBSET Students]
        /\ \A t \in Students \ {s} : lease'[t] = lease[t]
        /\ lease'[s].state = "QUEUED" /\ lease'[s].lid = NoLease
    BY <2>1, QueueLeaseFacts DEF TypeOK
  <2>3. /\ worker' \in [Boards -> Worker]
        /\ \A c \in Boards : worker'[c].lid = worker[c].lid
    BY <2>1, WorkerWrite DEF TypeOK, WorkerStates
  <2>4. /\ op' \in [Students -> Op] /\ \A t \in Students \ {s} : op'[t] = op[t]
        /\ op'[s] = FreeOp /\ event' \in BOOLEAN /\ allocator' \in Allocator
    BY <1>0, ReturnFacts DEF TypeOK
  <2>5. TypeOK'
    BY <2>2, <2>3, <2>4 DEF TypeOK, DeployFailed, world
  <2> QED
    BY <1>0, <2>2, <2>3, <2>4, <2>5, FreeOpType, StudentStep
    DEF DeployFailed, world, OpHolds, KeepsBoard, DropsRow, Awaiting
<1> QED BY <1>1, <1>2

LEMMA PredictSucceededStep ==
  ASSUME OwnershipInvariant, NEW s \in Students, PredictSucceeded(s)
  PROVE  OwnershipInvariant'
<1> USE DEF OwnershipInvariant
<1> DEFINE i == op[s].req
           r == [request[s][i] EXCEPT !.status = "COMPLETED"]
<1>0. central = "up" /\ i \in Requests
  BY HolderIsUp DEF PredictSucceeded, CoroutineHoldsLease
<1>1. CASE ~(PredictStillWanted(s) /\ lease[s].state = "BUSY")
  BY <1>1, ReturnOnly DEF PredictSucceeded, database
<1>2. CASE PredictStillWanted(s) /\ lease[s].state = "BUSY"
  <2>1. /\ request' = WithRequest(s, i, r)
        /\ lease' = [lease EXCEPT ![s] = [lease[s] EXCEPT !.state = "READY", !.idle = "active"]]
        /\ worker' = [worker EXCEPT ![op[s].board] =
                        [worker[op[s].board] EXCEPT !.state = "READY"]]
        /\ Continue(s, "drain", NoRequest)
        /\ UNCHANGED <<event, allocator>>
    BY <1>2 DEF PredictSucceeded
  <2>2. request[s][i] \in Request
    BY <1>0 DEF TypeOK
  <2>3. r \in Request
    BY <2>2 DEF Request, RequestStates
  <2> HIDE DEF r
  <2>4. request' \in [Students -> [Requests -> Request]]
    BY <2>1, <2>3, RequestRow DEF TypeOK
  <2>5. /\ lease' \in [Students -> Lease]
        /\ \A t \in Students \ {s} : lease'[t] = lease[t]
        /\ lease'[s].state = "READY" /\ lease'[s].lid = lease[s].lid
        /\ lease'[s].worker = lease[s].worker
    BY <2>1, LeaseWrite DEF TypeOK, LeaseStates
  <2>6. /\ worker' \in [Boards -> Worker]
        /\ \A c \in Boards : worker'[c].lid = worker[c].lid
    BY <2>1, WorkerWrite DEF TypeOK, WorkerStates
  <2>7. /\ op' \in [Students -> Op] /\ \A t \in Students \ {s} : op'[t] = op[t]
        /\ op'[s].pc = "drain" /\ op'[s].lid = NoLease /\ op'[s].reply = "none"
    BY <2>1, ContinueFacts DEF TypeOK, Running, NoRequest
  <2>8. TypeOK'
    BY <2>1, <2>4, <2>5, <2>6, <2>7 DEF TypeOK, PredictSucceeded, world
  <2>9. central' = central /\ leases' = leases /\ check' = check /\ board' = board
        /\ orphans' = orphans
    BY DEF PredictSucceeded, world
  <2>10. KeepsRow(s) /\ \A c \in Boards : KeepsBoard(c)
    BY <1>2, <2>5, <2>6 DEF KeepsRow, KeepsBoard, Active, ActiveStates
  <2>11. OpHolds(s)
    BY <2>5, <2>7 DEF OpHolds, Awaiting, ActiveStates
  <2> HIDE DEF OwnershipInvariant
  <2> QED
    BY <1>0, <2>5, <2>6, <2>7, <2>8, <2>9, <2>10, <2>11, StudentStep
<1> QED BY <1>1, <1>2

LEMMA PredictFailedStep ==
  ASSUME OwnershipInvariant, NEW s \in Students, PredictFailed(s)
  PROVE  OwnershipInvariant'
<1> USE DEF OwnershipInvariant
<1> DEFINE i == op[s].req
           r == [request[s][i] EXCEPT !.status = "FAILED"]
<1>0. central = "up" /\ i \in Requests
  BY HolderIsUp DEF PredictFailed, CoroutineHoldsLease
<1>1. CASE ~PredictStillWanted(s)
  BY <1>1, ReturnOnly DEF PredictFailed, database
<1>2. CASE PredictStillWanted(s)
  <2>1. /\ request' = WithRequest(s, i, r)
        /\ QueueLease(s)
        /\ worker' = [worker EXCEPT ![op[s].board] =
                        [worker[op[s].board] EXCEPT !.state = "ERROR"]]
        /\ Return(s, TRUE)
    BY <1>2 DEF PredictFailed
  <2>2. request[s][i] \in Request
    BY <1>0 DEF TypeOK
  <2>3. r \in Request
    BY <2>2 DEF Request, RequestStates
  <2> HIDE DEF r
  <2>4. request' \in [Students -> [Requests -> Request]]
    BY <2>1, <2>3, RequestRow DEF TypeOK
  <2>5. /\ lease' \in [Students -> Lease] /\ ahead' \in [Students -> SUBSET Students]
        /\ \A t \in Students \ {s} : lease'[t] = lease[t]
        /\ lease'[s].state = "QUEUED" /\ lease'[s].lid = NoLease
    BY <2>1, QueueLeaseFacts DEF TypeOK
  <2>6. /\ worker' \in [Boards -> Worker]
        /\ \A c \in Boards : worker'[c].lid = worker[c].lid
    BY <2>1, WorkerWrite DEF TypeOK, WorkerStates
  <2>7. /\ op' \in [Students -> Op] /\ \A t \in Students \ {s} : op'[t] = op[t]
        /\ op'[s] = FreeOp /\ event' \in BOOLEAN /\ allocator' \in Allocator
    BY <2>1, ReturnFacts DEF TypeOK
  <2>8. TypeOK'
    BY <2>4, <2>5, <2>6, <2>7 DEF TypeOK, PredictFailed, world
  <2> QED
    BY <1>0, <2>5, <2>6, <2>7, <2>8, FreeOpType, StudentStep
    DEF PredictFailed, world, OpHolds, KeepsBoard, DropsRow, Awaiting
<1> QED BY <1>1, <1>2

\* The reaper goes on to another point of its loop.
LEMMA ReaperGoesOnType ==
  ASSUME reaper \in Reaper, NEW released \in BOOLEAN, ReaperGoesOn(released)
  PROVE  reaper' \in Reaper
<1>1. reaper' \in {[reaper EXCEPT !.pc = "try", !.why = "grace"], IdleReaper,
                   [reaper EXCEPT !.pc = "next", !.student = None, !.why = "none"]}
  BY DEF ReaperGoesOn
<1>2. /\ [reaper EXCEPT !.pc = "try", !.why = "grace"] \in Reaper
      /\ [reaper EXCEPT !.pc = "next", !.student = None, !.why = "none"] \in Reaper
  BY DEF Reaper
<1> QED BY <1>1, <1>2, IdleTypes

LEMMA ReleaseSucceededStep ==
  ASSUME OwnershipInvariant, NEW s \in Students, ReleaseSucceeded(s)
  PROVE  OwnershipInvariant'
<1> USE DEF OwnershipInvariant
<1> DEFINE b == op[s].board
<1>0. /\ central = "up" /\ op' = [op EXCEPT ![s] = FreeOp]
      /\ b \in Boards /\ op[s].lid # NoLease
  BY HolderIsUp DEF ReleaseSucceeded, CoroutineHoldsLease, Awaiting
<1>1. /\ op' \in [Students -> Op] /\ \A t \in Students \ {s} : op'[t] = op[t]
      /\ op'[s] = FreeOp
  BY <1>0, FreeOpType DEF TypeOK
<1>2. reaper' \in Reaper
  BY ReaperGoesOnType DEF ReleaseSucceeded, TypeOK
<1>3. CASE ~ReleaseStillWanted(s)
  <2>1. UNCHANGED <<worker, lease, event>>
    BY <1>3 DEF ReleaseSucceeded
  <2>2. TypeOK'
    BY <1>1, <1>2, <2>1 DEF TypeOK, ReleaseSucceeded, world
  <2> QED
    BY <1>0, <1>1, <2>1, <2>2, FreeOpType, StudentStep
    DEF ReleaseSucceeded, world, OpHolds, KeepsBoard, KeepsRow, Active, Awaiting
<1>4. CASE ReleaseStillWanted(s)
  <2> DEFINE w == [state |-> "IDLE", lid |-> NoLease, art |-> NoArtifact]
             l == [lease[s] EXCEPT !.state = "UNASSIGNED", !.worker = None,
                                   !.lid = NoLease, !.art = NoArtifact]
  <2>1. worker' = [worker EXCEPT ![b] = w] /\ lease' = [lease EXCEPT ![s] = l] /\ event' = TRUE
    BY <1>4 DEF ReleaseSucceeded, WakeAllocator
  <2>2. lease[s] \in Lease
    BY DEF TypeOK
  <2>3. l \in Lease /\ l.state = "UNASSIGNED" /\ l.lid = NoLease
    BY <2>2 DEF Lease, LeaseStates, NoLease, NoArtifact
  <2>4. w \in Worker /\ w.lid = NoLease
    BY DEF Worker, WorkerStates, NoLease, NoArtifact
  <2> HIDE DEF w, l
  <2>5. /\ lease' \in [Students -> Lease] /\ worker' \in [Boards -> Worker]
        /\ lease'[s] = l /\ worker'[b] = w
        /\ \A t \in Students \ {s} : lease'[t] = lease[t]
        /\ \A c \in Boards \ {b} : worker'[c] = worker[c]
    BY <1>0, <2>1, <2>3, <2>4 DEF TypeOK
  <2>6. TypeOK'
    BY <1>1, <1>2, <2>1, <2>5 DEF TypeOK, ReleaseSucceeded, world
  <2>7. worker[b].lid = lease[s].lid /\ lease[s].lid # NoLease
    BY <1>0, <1>4 DEF ReleaseStillWanted, StillOwned
  <2>8. \A t \in Students \ {s} : lease'[t].state \in ActiveStates => lease'[t].worker # b
    BY <2>5, <2>7 DEF LeaseOwnsBoard, LidsAreUnique, Active
  <2>9. \A c \in Boards : KeepsBoard(c)
    BY <2>3, <2>5, <2>8 DEF KeepsBoard, ActiveStates
  <2> QED
    BY <1>0, <1>1, <2>3, <2>4, <2>5, <2>6, <2>9, FreeOpType, StudentStep
    DEF ReleaseSucceeded, world, OpHolds, DropsRow, Awaiting
<1> QED BY <1>3, <1>4

LEMMA ReleaseFailedStep ==
  ASSUME OwnershipInvariant, NEW s \in Students, ReleaseFailed(s)
  PROVE  OwnershipInvariant'
<1> USE DEF OwnershipInvariant
<1>0. central = "up" /\ op' = [op EXCEPT ![s] = FreeOp]
  BY HolderIsUp DEF ReleaseFailed
<1>1. /\ op' \in [Students -> Op] /\ \A t \in Students \ {s} : op'[t] = op[t]
      /\ op'[s] = FreeOp
  BY <1>0, FreeOpType DEF TypeOK
<1>2. reaper' \in Reaper
  BY ReaperGoesOnType DEF ReleaseFailed, TypeOK
<1>3. CASE ~StillOwned(s)
  <2>1. UNCHANGED <<worker, lease>>
    BY <1>3 DEF ReleaseFailed
  <2>2. TypeOK'
    BY <1>1, <1>2, <2>1 DEF TypeOK, ReleaseFailed, world
  <2> QED
    BY <1>0, <1>1, <2>1, <2>2, FreeOpType, StudentStep
    DEF ReleaseFailed, world, OpHolds, KeepsBoard, KeepsRow, Active, Awaiting
<1>4. CASE StillOwned(s)
  <2>1. /\ lease' = [lease EXCEPT ![s] = [lease[s] EXCEPT !.state = "ERROR"]]
        /\ worker' = [worker EXCEPT ![op[s].board] =
                        [worker[op[s].board] EXCEPT !.state = "ERROR"]]
    BY <1>4 DEF ReleaseFailed
  <2>2. /\ lease' \in [Students -> Lease]
        /\ \A t \in Students \ {s} : lease'[t] = lease[t]
        /\ lease'[s].state = "ERROR" /\ lease'[s].lid = lease[s].lid
        /\ lease'[s].worker = lease[s].worker
    BY <2>1, LeaseWrite DEF TypeOK, LeaseStates
  <2>3. /\ worker' \in [Boards -> Worker]
        /\ \A c \in Boards : worker'[c].lid = worker[c].lid
    BY <2>1, WorkerWrite DEF TypeOK, WorkerStates
  <2>4. TypeOK'
    BY <1>1, <1>2, <2>2, <2>3 DEF TypeOK, ReleaseFailed, world
  <2> QED
    BY <1>0, <1>1, <2>2, <2>3, <2>4, FreeOpType, StudentStep
    DEF ReleaseFailed, world, OpHolds, KeepsBoard, KeepsRow, ActiveStates, Awaiting
<1> QED BY <1>3, <1>4

LEMMA CoroutineStep ==
  ASSUME OwnershipInvariant, NEW s \in Students, Coroutine(s)
  PROVE  OwnershipInvariant'
  BY ProcessStep, ReserveStep, DrainStep, MarkRunningStep, DeploySucceededStep,
     DeployFailedStep, PredictSucceededStep, PredictFailedStep, ReleaseSucceededStep,
     ReleaseFailedStep
  DEF Coroutine

-----------------------------------------------------------------------------
(* Steps that start a coroutine.                                           *)

LEMMA SubmitPredictStep ==
  ASSUME OwnershipInvariant, NEW s \in Students, SubmitPredict(s)
  PROVE  OwnershipInvariant'
<1> USE DEF OwnershipInvariant
<1> DEFINE o == [FreeOp EXCEPT !.pc = "process", !.by = "submit"]
           r == [status |-> "QUEUED", art |-> latest[s], worker |-> None]
<1>1. o \in Op /\ o.pc = "process" /\ o.lid = NoLease /\ o.reply = "none"
  BY FreeOpType DEF Op, Running
<1>2. op' = [op EXCEPT ![s] = o] /\ central = "up"
  BY DEF SubmitPredict, LatestArtifact, EventLoopFree
<1> HIDE DEF o
<1>3. /\ op' \in [Students -> Op] /\ \A t \in Students \ {s} : op'[t] = op[t]
      /\ op'[s] = o
  BY <1>1, <1>2 DEF TypeOK
<1>4. latest[s] \in 0 .. artifacts /\ artifacts \in Nat
  BY DEF TypeOK
<1>5. r \in Request
  BY <1>4 DEF Request, RequestStates
<1>6. PICK i \in Requests : request' = WithRequest(s, i, r)
  BY DEF SubmitPredict, LatestArtifact
<1> HIDE DEF r
<1>7. request' \in [Students -> [Requests -> Request]]
  BY <1>5, <1>6, RequestRow DEF TypeOK
<1>8. TypeOK'
  BY <1>3, <1>7 DEF TypeOK, SubmitPredict, LatestArtifact, world
<1> QED
  BY <1>1, <1>2, <1>3, <1>8, StudentStep
  DEF SubmitPredict, LatestArtifact, world, OpHolds, KeepsBoard, KeepsRow, Active, Awaiting

\* The allocator takes the lock of s.
LEMMA AllocatorHoldsStep ==
  ASSUME OwnershipInvariant, NEW s \in Students, AllocatorHolds(s), central = "up",
         UNCHANGED <<database, central, unchecked, reaper, check, failures, world>>,
         event' \in BOOLEAN
  PROVE  OwnershipInvariant'
<1> USE DEF OwnershipInvariant
<1> DEFINE o == [FreeOp EXCEPT !.pc = "process", !.by = "allocator"]
<1>1. o \in Op /\ o.pc = "process" /\ o.lid = NoLease /\ o.reply = "none"
  BY FreeOpType DEF Op, Running
<1>2. op' = [op EXCEPT ![s] = o]
  BY DEF AllocatorHolds
<1> HIDE DEF o
<1>3. /\ op' \in [Students -> Op] /\ \A t \in Students \ {s} : op'[t] = op[t]
      /\ op'[s] = o
  BY <1>1, <1>2 DEF TypeOK
<1>4. allocator' \in Allocator
  BY DEF AllocatorHolds, Allocator
<1>5. TypeOK'
  BY <1>3, <1>4 DEF TypeOK, database, world
<1> QED
  BY <1>1, <1>3, <1>5, StudentStep
  DEF database, world, OpHolds, KeepsBoard, KeepsRow, Active, Awaiting

\* The lock's new holder publishes RELEASING and calls the board.
LEMMA StartReleaseStep ==
  ASSUME OwnershipInvariant, NEW s \in Students, NEW by \in {"admin", "reaper"},
         StartRelease(s, by), central = "up", reaper' \in Reaper,
         UNCHANGED <<ahead, worker, request, latest, artifacts, leases, central, unchecked,
                     event, allocator, check, failures, world>>
  PROVE  OwnershipInvariant'
<1> USE DEF OwnershipInvariant
<1> DEFINE b == lease[s].worker
           o == [pc |-> "release", by |-> by, req |-> NoRequest, board |-> b,
                 lid |-> lease[s].lid, art |-> NoArtifact, reply |-> "pending"]
<1>1. /\ Active(s) /\ lease[s].lid # NoLease /\ lease[s].state = "READY"
      /\ b \in Boards /\ lease[s].lid \in Nat
  BY DEF StartRelease, MayRelease, LeaseOwnsBoard, TypeOK, Lease, Active, ActiveStates
<1>2. o \in Op /\ o.pc = "release" /\ o.lid = lease[s].lid /\ o.board = b
  BY <1>1 DEF Op, Awaiting, NoRequest, NoArtifact
<1>3. /\ op' = [op EXCEPT ![s] = o]
      /\ lease' = [lease EXCEPT ![s] = [lease[s] EXCEPT !.state = "RELEASING"]]
  BY DEF StartRelease
<1> HIDE DEF o
<1>4. /\ op' \in [Students -> Op] /\ \A t \in Students \ {s} : op'[t] = op[t]
      /\ op'[s] = o
  BY <1>2, <1>3 DEF TypeOK
<1>5. /\ lease' \in [Students -> Lease]
      /\ \A t \in Students \ {s} : lease'[t] = lease[t]
      /\ lease'[s].state = "RELEASING" /\ lease'[s].lid = lease[s].lid
      /\ lease'[s].worker = lease[s].worker
  BY <1>1, <1>3, LeaseWrite DEF TypeOK, LeaseStates
<1>6. TypeOK'
  BY <1>4, <1>5 DEF TypeOK, world
<1> QED
  BY <1>1, <1>2, <1>4, <1>5, <1>6, StudentStep
  DEF world, OpHolds, KeepsBoard, KeepsRow, Awaiting

\* Steps in which no row, no coroutine and no board moves, and no task of Central
\* starts while it is not up.
LEMMA QuietStep ==
  ASSUME OwnershipInvariant, TypeOK', OnlyUpHasTasks',
         UNCHANGED <<lease, worker, leases, op, check, board, orphans>>
  PROVE  OwnershipInvariant'
  BY DEF OwnershipInvariant, LidsAreDrawn, LidsAreUnique, LeaseOwnsBoard, WaitingIsBare,
         CoroutineHoldsLease, Active

LEMMA AllocatorStep ==
  ASSUME OwnershipInvariant, AllocatorTask
  PROVE  OwnershipInvariant'
<1> USE DEF OwnershipInvariant
<1>1. ASSUME NEW s \in Students, AllocatorLocks(s)
      PROVE  OwnershipInvariant'
  BY <1>1, AllocatorHoldsStep DEF AllocatorLocks, EventLoopFree, TypeOK
<1>2. CASE AllocatorLoop
  <2>1. central = "up" /\ event' \in BOOLEAN
    <3>1. event' \in BOOLEAN
      BY <1>2 DEF AllocatorLoop, TypeOK
    <3>2. IdleAllocator.pc # "scan"
      BY DEF IdleAllocator
    <3>3. central = "up"
      BY <1>2, <3>2 DEF AllocatorLoop, EventLoopFree, OnlyUpHasTasks
    <3> QED BY <3>1, <3>3
  <2>2. ASSUME NEW s \in Students, AllocatorHolds(s)
        PROVE  OwnershipInvariant'
    BY <1>2, <2>1, <2>2, AllocatorHoldsStep DEF AllocatorLoop
  <2>3. ASSUME UNCHANGED op, allocator' \in Allocator
        PROVE  OwnershipInvariant'
    <3>1. TypeOK'
      BY <1>2, <2>1, <2>3 DEF TypeOK, AllocatorLoop, database, world
    <3>2. OnlyUpHasTasks'
      BY <1>2, <2>1 DEF AllocatorLoop, OnlyUpHasTasks
    <3> QED BY <1>2, <2>3, <3>1, <3>2, QuietStep DEF AllocatorLoop, database, world
  <2>4. \A s \in Students : [pc |-> "lock", student |-> s, queued |-> FALSE] \in Allocator
    BY DEF Allocator
  <2> QED BY <1>2, <2>2, <2>3, <2>4, IdleTypes DEF AllocatorLoop
<1> QED BY <1>1, <1>2 DEF AllocatorTask

LEMMA ReleaseWorkerStep ==
  ASSUME OwnershipInvariant, NEW b \in Boards, ReleaseWorker(b)
  PROVE  OwnershipInvariant'
  BY StartReleaseStep DEF ReleaseWorker, EventLoopFree, OwnershipInvariant, TypeOK

-----------------------------------------------------------------------------
(* Steps of the reaper, of time, of the monitor and of start-up: they      *)
(* write rows of several students, and no coroutine is in between two      *)
(* awaits meanwhile.                                                       *)

LEMMA LoopFreeStep ==
  ASSUME OwnershipInvariant, TypeOK', OnlyUpHasTasks',
         UNCHANGED <<leases, op, board, orphans>>,
         \A s \in Students : op[s].pc \notin Running \/ lease'[s].state = lease[s].state,
         \A s \in Students : KeepsRow(s) \/ DropsRow(s),
         \A b \in Boards : /\ KeepsBoard(b)
                           /\ worker'[b].lid \in {worker[b].lid, NoLease, check[b].lid}
                           /\ check'[b].lid \in {check[b].lid, NoLease, board[b].lid}
  PROVE  OwnershipInvariant'
<1> USE DEF OwnershipInvariant
<1>1. LidsAreUnique' /\ LeaseOwnsBoard' /\ WaitingIsBare'
  BY RowsKept
<1>2. leases \in Nat
  BY DEF TypeOK
<1>3. \A s \in Students : lease'[s].lid \in {lease[s].lid, NoLease}
  BY DEF KeepsRow, DropsRow
<1>4. LidsAreDrawn'
  BY <1>2, <1>3 DEF LidsAreDrawn, NoLease
<1>5. CoroutineHoldsLease'
  <2>1. CoroutineHoldsLease /\ UNCHANGED op
    OBVIOUS
  <2>2. \A s \in Students :
          op[s].pc \in {"drain", "run"} => lease'[s].state = lease[s].state
    BY DEF Running
  <2> HIDE DEF OwnershipInvariant
  <2> QED BY <2>1, <2>2 DEF CoroutineHoldsLease, Active
<1> QED BY <1>1, <1>4, <1>5

\* While the event loop is free, and before Central is up, no coroutine is running.
LEMMA NobodyRuns ==
  ASSUME OwnershipInvariant, EventLoopFree \/ central # "up", NEW s \in Students
  PROVE  op[s].pc \notin Running
<1>1. FreeOp.pc \notin Running
  BY FreeOpType DEF Running
<1> QED BY <1>1 DEF OwnershipInvariant, EventLoopFree, OnlyUpHasTasks

LEMMA ReapOnceStep ==
  ASSUME OwnershipInvariant, ReapOnce
  PROVE  OwnershipInvariant'
<1> USE DEF OwnershipInvariant
<1>1. lease' = [s \in Students |-> IF s \in Requeued THEN Queued(lease[s]) ELSE lease[s]]
  BY DEF ReapOnce
<1>2. \A s \in Students : lease[s] \in Lease
  BY DEF TypeOK
<1>3. lease' \in [Students -> Lease]
  BY <1>1, <1>2, QueuedFacts
<1>4. \A s \in Students : lease'[s] = lease[s] \/ (lease'[s].state = "QUEUED"
                                                /\ lease'[s].lid = NoLease)
  BY <1>1, <1>2, QueuedFacts
<1>5. ahead' \in [Students -> SUBSET Students]
  BY DEF ReapOnce, TypeOK, QueuedStudents, Requeued, LostLeases
<1>6. reaper' \in Reaper
  <2> DEFINE queued == \E s \in Students : lease'[s].state = "QUEUED"
             todo == {e \in Students \X {"grace", "timeout"} :
                     /\ lease'[e[1]].state = "READY" /\ lease'[e[1]].worker # None
                     /\ e[2] = lease'[e[1]].idle
                     /\ e[2] = "grace" => queued}
  <2>1. reaper' = [IdleReaper EXCEPT !.pc = "next", !.queued = queued, !.todo = todo]
    BY DEF ReapOnce
  <2>2. queued \in BOOLEAN /\ todo \in SUBSET (Students \X {"grace", "timeout"})
    OBVIOUS
  <2> HIDE DEF queued, todo
  <2> QED BY <2>1, <2>2 DEF IdleReaper, Reaper
<1>7. event' \in BOOLEAN
  BY DEF ReapOnce, TypeOK
<1>8. TypeOK'
  BY <1>3, <1>5, <1>6, <1>7 DEF ReapOnce, TypeOK, world
<1>9. \A s \in Students : KeepsRow(s) \/ DropsRow(s)
  BY <1>4 DEF KeepsRow, DropsRow, Active
<1>10. OnlyUpHasTasks'
  BY DEF ReapOnce, EventLoopFree, OnlyUpHasTasks
<1> QED
  BY <1>8, <1>9, <1>10, NobodyRuns, LoopFreeStep DEF ReapOnce, world, KeepsBoard

LEMMA ReaperStep ==
  ASSUME OwnershipInvariant, ReaperTask
  PROVE  OwnershipInvariant'
<1> USE DEF OwnershipInvariant
<1>0. IdleReaper.pc = "sleep"
  BY DEF IdleReaper
<1>1. CASE ReapNext
  <2>1. central = "up"
    BY <1>0, <1>1 DEF ReapNext, OnlyUpHasTasks
  <2>2. ASSUME NEW e \in reaper.todo,
               reaper' = [reaper EXCEPT !.pc = "try", !.todo = @ \ {e},
                                        !.student = e[1], !.why = e[2]]
        PROVE  reaper' \in Reaper
    <3>1. reaper \in Reaper /\ e[1] \in Students /\ e[2] \in {"grace", "timeout"}
      BY DEF TypeOK, Reaper
    <3>2. reaper.todo \ {e} \in SUBSET (Students \X {"grace", "timeout"})
      BY <3>1 DEF Reaper
    <3> QED BY <2>2, <3>1, <3>2 DEF Reaper
  <2>3. reaper' \in Reaper
    BY <1>1, <2>2, IdleTypes DEF ReapNext
  <2>4. TypeOK'
    BY <1>1, <2>3 DEF ReapNext, TypeOK, database, world
  <2> QED
    BY <1>1, <2>1, <2>4, QuietStep DEF ReapNext, OnlyUpHasTasks, database, world
<1>2. ASSUME NEW s \in Students, ReapRelease(s)
      PROVE  OwnershipInvariant'
  <2>1. central = "up"
    BY <1>0, <1>2 DEF ReapRelease, OnlyUpHasTasks, EventLoopFree
  <2>2. /\ [reaper EXCEPT !.pc = "lock"] \in Reaper
        /\ [reaper EXCEPT !.pc = "run"] \in Reaper
    BY DEF TypeOK, Reaper
  <2>3. CASE UNCHANGED <<lease, op>> /\ reaper' \in Reaper
    <3>1. TypeOK'
      BY <1>2, <2>3 DEF ReapRelease, TypeOK, world
    <3> QED
      BY <1>2, <2>1, <2>3, <3>1, QuietStep DEF ReapRelease, OnlyUpHasTasks, world
  <2>4. CASE StartRelease(s, "reaper") /\ reaper' \in Reaper
    BY <1>2, <2>1, <2>4, StartReleaseStep DEF ReapRelease
  <2>5. reaper \in Reaper
    BY DEF TypeOK
  <2> QED BY <1>2, <2>2, <2>3, <2>4, <2>5, ReaperGoesOnType DEF ReapRelease
<1> QED BY <1>1, <1>2, ReapOnceStep DEF ReaperTask

LEMMA GrowIdleStep ==
  ASSUME OwnershipInvariant, NEW s \in Students, GrowIdle(s)
  PROVE  OwnershipInvariant'
<1> USE DEF OwnershipInvariant
<1> DEFINE i == IF lease[s].idle = "active" THEN "grace" ELSE "timeout"
           l == [lease[s] EXCEPT !.idle = i]
<1>1. lease[s] \in Lease
  BY DEF TypeOK
<1>2. l \in Lease /\ l.state = lease[s].state /\ l.lid = lease[s].lid
      /\ l.worker = lease[s].worker
  BY <1>1 DEF Lease, IdleTimes
<1>3. lease' = [lease EXCEPT ![s] = l]
  BY DEF GrowIdle
<1> HIDE DEF l
<1>4. lease' \in [Students -> Lease]
  BY <1>2, <1>3 DEF TypeOK
<1>5. \A t \in Students : /\ lease'[t].state = lease[t].state /\ lease'[t].lid = lease[t].lid
                          /\ lease'[t].worker = lease[t].worker
  BY <1>2, <1>3 DEF TypeOK
<1>6. TypeOK'
  BY <1>4 DEF TypeOK, GrowIdle, tasks, world
<1> QED
  BY <1>5, <1>6, LoopFreeStep
  DEF GrowIdle, tasks, world, KeepsRow, KeepsBoard, Active, OnlyUpHasTasks

-----------------------------------------------------------------------------
(* Steps of the registry: an answer on its way, and what it does to the    *)
(* rows when it is applied.                                                *)

LEMMA StatusAnsweredStep ==
  ASSUME OwnershipInvariant, NEW b \in Boards, StatusAnswered(b)
  PROVE  OwnershipInvariant'
<1> USE DEF OwnershipInvariant
<1> DEFINE c == [open |-> TRUE, lid |-> board[b].lid, art |-> board[b].art]
<1>1. board[b] \in Board
  BY DEF TypeOK
<1>2. c \in Status /\ c.lid = board[b].lid
  BY <1>1 DEF Status, Board
<1>3. check' = [check EXCEPT ![b] = c]
  BY DEF StatusAnswered
<1> HIDE DEF c
<1>4. check' \in [Boards -> Status]
      /\ \A d \in Boards : check'[d].lid \in {check[d].lid, board[d].lid}
  BY <1>2, <1>3 DEF TypeOK
<1>5. TypeOK'
  BY <1>4 DEF TypeOK, StatusAnswered, database, world
<1> QED
  BY <1>4, <1>5, LoopFreeStep
  DEF StatusAnswered, database, world, KeepsRow, KeepsBoard, Active, OnlyUpHasTasks

\* A check of one board ends.
LEMMA CheckDoneFacts ==
  ASSUME TypeOK, NEW b \in Boards, CheckDone(b)
  PROVE  /\ check' \in [Boards -> Status] /\ unchecked' \in SUBSET Boards
         /\ \A d \in Boards : check'[d].lid \in {check[d].lid, NoLease}
<1>1. NoStatus \in Status /\ NoStatus.lid = NoLease
  BY DEF NoStatus, Status, NoLease, NoArtifact
<1> QED BY <1>1 DEF TypeOK, CheckDone

LEMMA ApplyStatusStep ==
  ASSUME OwnershipInvariant, NEW b \in Boards, ApplyStatus(b)
  PROVE  OwnershipInvariant'
<1> USE DEF OwnershipInvariant
<1>1. /\ check' \in [Boards -> Status] /\ unchecked' \in SUBSET Boards
      /\ \A d \in Boards : check'[d].lid \in {check[d].lid, NoLease}
  BY CheckDoneFacts DEF ApplyStatus
<1>2. failures' \in [Boards -> Nat]
  BY DEF ApplyStatus, TypeOK
<1>3. EventLoopFree \/ central # "up"
  BY DEF ApplyStatus, Recovering, Monitoring
<1>4. ASSUME lease' \in [Students -> Lease], worker' \in [Boards -> Worker]
      PROVE  TypeOK' /\ OnlyUpHasTasks'
  BY <1>1, <1>2, <1>4 DEF ApplyStatus, TypeOK, world, OnlyUpHasTasks
<1>5. ASSUME UNCHANGED <<lease, worker>>
      PROVE  OwnershipInvariant'
  <2>1. TypeOK' /\ OnlyUpHasTasks'
    BY <1>4, <1>5 DEF TypeOK
  <2> QED
    BY <1>1, <1>5, <2>1, LoopFreeStep
    DEF ApplyStatus, world, KeepsRow, KeepsBoard, Active
<1>6. ASSUME NEW s \in Students, IsLeaseOf(s, b),
             NEW x \in {"READY", "LOST"}, NEW y \in {"READY", "ERROR"},
             worker' = [worker EXCEPT ![b] = [worker[b] EXCEPT !.state = y]],
             lease' = [lease EXCEPT ![s] = [lease[s] EXCEPT !.state = x]]
      PROVE  OwnershipInvariant'
  <2>1. /\ lease' \in [Students -> Lease]
        /\ \A t \in Students \ {s} : lease'[t] = lease[t]
        /\ lease'[s].state = x /\ lease'[s].lid = lease[s].lid
        /\ lease'[s].worker = lease[s].worker
    BY <1>6, LeaseWrite DEF TypeOK, LeaseStates
  <2>2. /\ worker' \in [Boards -> Worker]
        /\ \A c \in Boards : worker'[c].lid = worker[c].lid
    BY <1>6, WorkerWrite DEF TypeOK, WorkerStates
  <2>3. TypeOK' /\ OnlyUpHasTasks'
    BY <1>4, <2>1, <2>2
  <2>4. \A t \in Students : KeepsRow(t)
    BY <1>6, <2>1 DEF KeepsRow, IsLeaseOf, Active
  <2> QED
    BY <1>1, <1>3, <2>2, <2>3, <2>4, NobodyRuns, LoopFreeStep
    DEF ApplyStatus, world, KeepsBoard
<1>7. ASSUME \A s \in Students : ~IsLeaseOf(s, b), UNCHANGED lease,
             NEW w, worker' = [worker EXCEPT ![b] = w],
             w \in Worker, w.lid \in {check[b].lid, NoLease}
      PROVE  OwnershipInvariant'
  <2>1. /\ worker' \in [Boards -> Worker]
        /\ \A c \in Boards \ {b} : worker'[c] = worker[c]
        /\ worker'[b] = w
    BY <1>7 DEF TypeOK
  <2>2. TypeOK' /\ OnlyUpHasTasks'
    BY <1>4, <1>7, <2>1 DEF TypeOK
  <2>3. \A t \in Students : Active(t) => lease[t].worker # b
    BY <1>7 DEF IsLeaseOf, LeaseOwnsBoard, Active
  <2>4. \A c \in Boards : KeepsBoard(c)
    BY <1>7, <2>1, <2>3 DEF KeepsBoard, Active
  <2>5. \A c \in Boards : worker'[c].lid \in {worker[c].lid, NoLease, check[c].lid}
    BY <1>7, <2>1
  <2> QED
    BY <1>1, <1>7, <2>2, <2>4, <2>5, LoopFreeStep
    DEF ApplyStatus, world, KeepsRow, Active
<1>8. /\ [state |-> "ERROR", lid |-> check[b].lid, art |-> check[b].art] \in Worker
      /\ [worker[b] EXCEPT !.state = "IDLE", !.lid = NoLease] \in Worker
      /\ [worker[b] EXCEPT !.state = "IDLE", !.lid = NoLease].lid = NoLease
  <2>1. worker[b] \in Worker /\ check[b] \in Status
    BY DEF TypeOK
  <2> QED BY <2>1 DEF Worker, WorkerStates, Status, NoLease
<1>9. CASE \A s \in Students : ~IsLeaseOf(s, b)
  <2>1. CASE check[b].lid # NoLease
    BY <1>7, <1>8, <1>9, <2>1 DEF ApplyStatus, UnleasedRow
  <2>2. CASE check[b].lid = NoLease
    BY <1>7, <1>8, <1>9, <2>2 DEF ApplyStatus, UnleasedRow
  <2> QED BY <2>1, <2>2
<1>10. CASE \E s \in Students : IsLeaseOf(s, b)
  BY <1>5, <1>6, <1>10 DEF ApplyStatus
<1> QED BY <1>9, <1>10

LEMMA CheckFailsStep ==
  ASSUME OwnershipInvariant, NEW b \in Boards, CheckFails(b)
  PROVE  OwnershipInvariant'
<1> USE DEF OwnershipInvariant
<1>1. /\ check' \in [Boards -> Status] /\ unchecked' \in SUBSET Boards
      /\ \A d \in Boards : check'[d].lid \in {check[d].lid, NoLease}
  BY CheckDoneFacts DEF CheckFails
<1>2. failures' \in [Boards -> Nat] /\ faults' \in Nat
  BY DEF CheckFails, TypeOK, Fault
<1>3. EventLoopFree \/ central # "up"
  BY DEF CheckFails, Recovering, Monitoring
<1>4. CASE UNCHANGED <<worker, lease, request>>
  <2>1. TypeOK' /\ OnlyUpHasTasks'
    BY <1>1, <1>2, <1>4 DEF CheckFails, TypeOK, OnlyUpHasTasks
  <2> QED
    BY <1>1, <1>4, <2>1, LoopFreeStep
    DEF CheckFails, KeepsRow, KeepsBoard, Active
<1>5. CASE MarkOffline(b)
  <2>1. /\ worker' \in [Boards -> Worker]
        /\ \A c \in Boards : worker'[c].lid = worker[c].lid
    BY <1>5, WorkerWrite DEF MarkOffline, TypeOK, WorkerStates
  <2>2. /\ lease' \in [Students -> Lease]
        /\ \A t \in Students : /\ lease'[t].lid = lease[t].lid
                               /\ lease'[t].worker = lease[t].worker
                               /\ lease'[t].state \in {lease[t].state, "LOST"}
    <3>1. \A t \in Students : lease[t] \in Lease
      BY DEF TypeOK
    <3>2. \A l \in Lease : /\ [l EXCEPT !.state = "LOST"] \in Lease
                           /\ [l EXCEPT !.state = "LOST"].lid = l.lid
                           /\ [l EXCEPT !.state = "LOST"].worker = l.worker
                           /\ [l EXCEPT !.state = "LOST"].state = "LOST"
      BY DEF Lease, LeaseStates
    <3> QED BY <1>5, <3>1, <3>2 DEF MarkOffline
  <2>3. request' \in [Students -> [Requests -> Request]]
    <3>1. \A r \in Request : [r EXCEPT !.status = "FAILED"] \in Request
      BY DEF Request, RequestStates
    <3> QED BY <1>5, <3>1 DEF MarkOffline, TypeOK
  <2>4. TypeOK' /\ OnlyUpHasTasks'
    BY <1>1, <1>2, <2>1, <2>2, <2>3 DEF CheckFails, TypeOK, OnlyUpHasTasks
  <2>5. \A t \in Students : KeepsRow(t)
    BY <2>2 DEF KeepsRow, Active, ActiveStates
  <2> QED
    BY <1>1, <1>3, <2>1, <2>4, <2>5, NobodyRuns, LoopFreeStep
    DEF CheckFails, KeepsBoard
<1> QED BY <1>4, <1>5 DEF CheckFails

-----------------------------------------------------------------------------
(* Steps of the boards and of the network.                                 *)

\* What a board does with a call for a lease id that has been drawn.
LEMMA ServeCallFacts ==
  ASSUME TypeOK, NEW c \in Call, NEW ok \in BOOLEAN, ServeCall(c, ok), c.lid <= leases,
         \A b \in Boards : board[b].lid <= leases
  PROVE  /\ board' \in [Boards -> Board] /\ faults' \in Nat
         /\ \A b \in Boards : board'[b].lid <= leases
<1>1. /\ board \in [Boards -> Board] /\ faults \in Nat /\ leases \in Nat
      /\ c.board \in Boards /\ c.lid \in Nat /\ c.art \in Nat
  BY DEF TypeOK, Call
<1>2. faults' \in Nat
  BY <1>1 DEF ServeCall, ServeDeploy, ServePredict, ServeRelease, Fault
<1>3. /\ [lid |-> c.lid, art |-> c.art, ready |-> TRUE] \in Board
      /\ [board[c.board] EXCEPT !.ready = FALSE] \in Board
      /\ [board[c.board] EXCEPT !.ready = FALSE].lid = board[c.board].lid
      /\ [lid |-> NoLease, art |-> NoArtifact, ready |-> FALSE] \in Board
      /\ [lid |-> NoLease, art |-> NoArtifact, ready |-> FALSE].lid = NoLease
  <2>1. board[c.board] \in Board
    BY <1>1
  <2> QED BY <1>1, <2>1 DEF Board, NoLease, NoArtifact
<1>4. \/ board' = board
      \/ \E d \in Board : board' = [board EXCEPT ![c.board] = d] /\ d.lid <= leases
  <2> DEFINE d1 == [lid |-> c.lid, art |-> c.art, ready |-> TRUE]
             d2 == [board[c.board] EXCEPT !.ready = FALSE]
             d3 == [lid |-> NoLease, art |-> NoArtifact, ready |-> FALSE]
  <2>1. \/ board' = board
        \/ board' = [board EXCEPT ![c.board] = d1]
        \/ board' = [board EXCEPT ![c.board] = d2]
        \/ board' = [board EXCEPT ![c.board] = d3]
    BY DEF ServeCall, ServeDeploy, ServePredict, ServeRelease
  <2>2. /\ d1 \in Board /\ d1.lid = c.lid /\ d2 \in Board /\ d2.lid = board[c.board].lid
        /\ d3 \in Board /\ d3.lid = 0
    BY <1>3 DEF NoLease
  <2> HIDE DEF d1, d2, d3
  <2> QED BY <1>1, <2>1, <2>2
<1> QED BY <1>1, <1>2, <1>4

\* Steps after which rows and lease ids are as they were, and at most an answer has come in.
LEMMA ReplyStep ==
  ASSUME OwnershipInvariant, TypeOK',
         UNCHANGED <<lease, worker, leases, central, allocator, reaper, check>>,
         \A s \in Students : \/ op'[s] = op[s]
                             \/ /\ op[s].reply # "none"
                                /\ op'[s].pc = op[s].pc /\ op'[s].lid = op[s].lid
                                /\ op'[s].req = op[s].req /\ op'[s].board = op[s].board,
         \A b \in Boards : board'[b].lid <= leases,
         \A c \in orphans' : c.lid <= leases
  PROVE  OwnershipInvariant'
<1> USE DEF OwnershipInvariant
<1>1. LidsAreDrawn' /\ LidsAreUnique' /\ LeaseOwnsBoard' /\ WaitingIsBare'
  BY DEF LidsAreDrawn, LidsAreUnique, LeaseOwnsBoard, WaitingIsBare, Active
<1>2. CoroutineHoldsLease'
  BY DEF CoroutineHoldsLease, Active
<1>3. OnlyUpHasTasks'
  BY FreeOpType DEF OnlyUpHasTasks
<1> QED BY <1>1, <1>2, <1>3

\* The call a coroutine waits for is a real one.
LEMMA CallOfType ==
  ASSUME OwnershipInvariant, NEW s \in Students, op[s].reply # "none"
  PROVE  CallOf(s) \in Call /\ CallOf(s).lid = op[s].lid /\ op[s].lid <= leases
<1>1. op[s].pc \in Awaiting /\ op[s].board \in Boards
  BY DEF OwnershipInvariant, CoroutineHoldsLease
<1>2. op[s] \in Op
  BY DEF OwnershipInvariant, TypeOK
<1>3. op[s].lid \in Nat /\ op[s].art \in Nat
  BY <1>2 DEF Op
<1> QED BY <1>1, <1>3 DEF CallOf, Call, Awaiting, OwnershipInvariant, LidsAreDrawn

\* Another answer for a coroutine that waits for one.
LEMMA ReplyType ==
  ASSUME op \in [Students -> Op], NEW s \in Students, NEW x \in {"ok", "error"},
         op' = [op EXCEPT ![s] = [op[s] EXCEPT !.reply = x]]
  PROVE  /\ op' \in [Students -> Op] /\ \A t \in Students \ {s} : op'[t] = op[t]
         /\ op'[s].pc = op[s].pc /\ op'[s].lid = op[s].lid
         /\ op'[s].req = op[s].req /\ op'[s].board = op[s].board
<1> DEFINE o == [op[s] EXCEPT !.reply = x]
<1>1. op[s] \in Op
  OBVIOUS
<1>2. /\ o \in Op /\ o.pc = op[s].pc /\ o.lid = op[s].lid
      /\ o.req = op[s].req /\ o.board = op[s].board
  BY <1>1 DEF Op
<1>3. op' = [op EXCEPT ![s] = o]
  OBVIOUS
<1> HIDE DEF o
<1> QED BY <1>2, <1>3

LEMMA ServeStep ==
  ASSUME OwnershipInvariant, NEW s \in Students, Serve(s)
  PROVE  OwnershipInvariant'
<1> USE DEF OwnershipInvariant
<1>1. PICK ok \in BOOLEAN :
        /\ ServeCall(CallOf(s), ok)
        /\ op' = [op EXCEPT ![s] = [op[s] EXCEPT !.reply = IF ok THEN "ok" ELSE "error"]]
  BY DEF Serve
<1>2. /\ op' \in [Students -> Op] /\ \A t \in Students \ {s} : op'[t] = op[t]
      /\ op'[s].pc = op[s].pc /\ op'[s].lid = op[s].lid
      /\ op'[s].req = op[s].req /\ op'[s].board = op[s].board
  BY <1>1, ReplyType DEF TypeOK
<1>3. /\ board' \in [Boards -> Board] /\ faults' \in Nat
      /\ \A b \in Boards : board'[b].lid <= leases
  BY <1>1, CallOfType, ServeCallFacts DEF Serve, LidsAreDrawn
<1>4. TypeOK'
  BY <1>2, <1>3 DEF Serve, TypeOK, database
<1> QED
  BY <1>2, <1>3, <1>4, ReplyStep DEF Serve, database, LidsAreDrawn

LEMMA ServeOrphanStep ==
  ASSUME OwnershipInvariant, ServeOrphan
  PROVE  OwnershipInvariant'
<1> USE DEF OwnershipInvariant
<1>1. PICK c \in orphans : /\ \E ok \in BOOLEAN : ServeCall(c, ok)
                           /\ orphans' = orphans \ {c}
  BY DEF ServeOrphan
<1>2. c \in Call /\ c.lid <= leases
  BY DEF TypeOK, LidsAreDrawn
<1>3. /\ board' \in [Boards -> Board] /\ faults' \in Nat
      /\ \A b \in Boards : board'[b].lid <= leases
  BY <1>1, <1>2, ServeCallFacts DEF LidsAreDrawn
<1>4. TypeOK'
  BY <1>1, <1>3 DEF ServeOrphan, TypeOK, database, tasks
<1> QED
  BY <1>1, <1>3, <1>4, ReplyStep DEF ServeOrphan, database, tasks, LidsAreDrawn

LEMMA TimeOutStep ==
  ASSUME OwnershipInvariant, NEW s \in Students, TimeOut(s)
  PROVE  OwnershipInvariant'
<1> USE DEF OwnershipInvariant
<1>1. /\ op' \in [Students -> Op] /\ \A t \in Students \ {s} : op'[t] = op[t]
      /\ op'[s].pc = op[s].pc /\ op'[s].lid = op[s].lid
      /\ op'[s].req = op[s].req /\ op'[s].board = op[s].board
  BY ReplyType DEF TimeOut, TypeOK
<1>2. /\ orphans' \in SUBSET Call /\ faults' \in Nat
      /\ \A c \in orphans' : c.lid <= leases
  <2>1. orphans' = orphans \/ orphans' = orphans \cup {CallOf(s)}
    BY DEF TimeOut
  <2>2. faults' = faults + 1 /\ faults \in Nat /\ orphans \in SUBSET Call
    BY DEF TimeOut, Fault, TypeOK
  <2>3. \A c \in orphans : c.lid <= leases
    BY DEF LidsAreDrawn
  <2>4. op[s].reply # "none"
    BY DEF TimeOut
  <2>5. CallOf(s) \in Call /\ CallOf(s).lid <= leases
    BY <2>4, CallOfType
  <2> HIDE DEF OwnershipInvariant
  <2> QED BY <2>1, <2>2, <2>3, <2>5
<1>3. TypeOK'
  BY <1>1, <1>2 DEF TimeOut, TypeOK, database
<1>4. /\ UNCHANGED <<lease, worker, leases, central, allocator, reaper, check, board>>
      /\ op[s].reply # "none"
  BY DEF TimeOut, database
<1>5. \A b \in Boards : board[b].lid <= leases
  BY DEF LidsAreDrawn
<1> HIDE DEF OwnershipInvariant
<1> QED BY <1>1, <1>2, <1>3, <1>4, <1>5, ReplyStep

LEMMA BoardRestartStep ==
  ASSUME OwnershipInvariant, NEW b \in Boards, BoardRestart(b)
  PROVE  OwnershipInvariant'
<1> USE DEF OwnershipInvariant
<1>1. \A s \in Students :
        /\ op[s] \in Op
        /\ [op[s] EXCEPT !.reply = "error"] \in Op
        /\ [op[s] EXCEPT !.reply = "error"].pc = op[s].pc
        /\ [op[s] EXCEPT !.reply = "error"].lid = op[s].lid
        /\ [op[s] EXCEPT !.reply = "error"].req = op[s].req
        /\ [op[s] EXCEPT !.reply = "error"].board = op[s].board
  <2>1. \A s \in Students : op[s] \in Op
    BY DEF TypeOK
  <2> HIDE DEF OwnershipInvariant
  <2> QED BY <2>1 DEF Op
<1>2. op' = [s \in Students |-> IF op[s].board = b /\ op[s].reply = "pending"
                                THEN [op[s] EXCEPT !.reply = "error"] ELSE op[s]]
  BY DEF BoardRestart
<1>3. /\ op' \in [Students -> Op]
      /\ \A s \in Students : \/ op'[s] = op[s]
                             \/ /\ op[s].reply # "none"
                                /\ op'[s].pc = op[s].pc /\ op'[s].lid = op[s].lid
                                /\ op'[s].req = op[s].req /\ op'[s].board = op[s].board
  BY <1>1, <1>2
<1> DEFINE e == [lid |-> NoLease, art |-> NoArtifact, ready |-> FALSE]
<1>4. e \in Board /\ e.lid = 0
  BY DEF Board, NoLease, NoArtifact
<1>5. /\ board' \in [Boards -> Board]
      /\ \A c \in Boards : board'[c].lid <= leases
  <2>1. board' = [board EXCEPT ![b] = e]
    BY DEF BoardRestart
  <2> HIDE DEF e
  <2>2. leases \in Nat
    BY DEF TypeOK
  <2> QED BY <1>4, <2>1, <2>2 DEF TypeOK, LidsAreDrawn
<1>6. orphans' \in SUBSET Call /\ faults' \in Nat
  <2>1. orphans' = {c \in orphans : c.board # b} /\ faults' = faults + 1
    BY DEF BoardRestart, Fault
  <2> QED BY <2>1 DEF TypeOK
<1>7. TypeOK'
  BY <1>3, <1>5, <1>6 DEF BoardRestart, TypeOK, database
<1> QED
  BY <1>3, <1>5, <1>7, ReplyStep DEF BoardRestart, database, LidsAreDrawn

-----------------------------------------------------------------------------
(* Uploads, a crash of Central and its start.                              *)

LEMMA CreateArtifactStep ==
  ASSUME OwnershipInvariant, NEW s \in Students, CreateArtifact(s)
  PROVE  OwnershipInvariant'
<1> USE DEF OwnershipInvariant
<1>1. artifacts' = artifacts + 1 /\ latest' = [latest EXCEPT ![s] = artifacts + 1]
  BY DEF CreateArtifact
<1>2. artifacts' \in Nat /\ latest' \in [Students -> 0 .. artifacts']
  BY <1>1 DEF TypeOK
<1>3. TypeOK'
  BY <1>2 DEF CreateArtifact, TypeOK, tasks, world
<1> QED
  BY <1>3, QuietStep DEF CreateArtifact, tasks, world, OnlyUpHasTasks

LEMMA CrashStep ==
  ASSUME OwnershipInvariant, Crash
  PROVE  OwnershipInvariant'
<1> USE DEF OwnershipInvariant
<1>1. /\ op' \in [Students -> Op] /\ \A s \in Students : op'[s] = FreeOp
  BY FreeOpType DEF Crash
<1>2. NoStatus \in Status /\ NoStatus.lid = NoLease
  BY DEF NoStatus, Status, NoLease, NoArtifact
<1>3. /\ check' \in [Boards -> Status] /\ \A b \in Boards : check'[b].lid = NoLease
  BY <1>2 DEF Crash
<1>4. /\ orphans' \in SUBSET Call /\ faults' \in Nat
      /\ \A c \in orphans' : c.lid <= leases
  <2>1. orphans' = orphans \cup {CallOf(s) : s \in {t \in Students : op[t].reply = "pending"}}
    BY DEF Crash
  <2>2. faults' = faults + 1 /\ faults \in Nat /\ orphans \in SUBSET Call
    BY DEF Crash, Fault, TypeOK
  <2>3. \A c \in orphans : c.lid <= leases
    BY DEF LidsAreDrawn
  <2>4. \A s \in Students :
          op[s].reply = "pending" => CallOf(s) \in Call /\ CallOf(s).lid <= leases
    BY CallOfType
  <2> HIDE DEF OwnershipInvariant
  <2> QED BY <2>1, <2>2, <2>3, <2>4
<1>5. TypeOK'
  BY <1>1, <1>3, <1>4, IdleTypes DEF Crash, TypeOK, database
<1>6. LidsAreDrawn'
  BY <1>1, <1>3, <1>4, FreeOpType DEF Crash, LidsAreDrawn, database, TypeOK, NoLease
<1>7. LidsAreUnique' /\ LeaseOwnsBoard' /\ WaitingIsBare'
  BY DEF Crash, database, LidsAreUnique, LeaseOwnsBoard, WaitingIsBare, Active
<1>8. CoroutineHoldsLease' /\ OnlyUpHasTasks'
  BY <1>1, FreeOpType DEF Crash, CoroutineHoldsLease, OnlyUpHasTasks, Awaiting
<1> QED BY <1>5, <1>6, <1>7, <1>8

LEMMA RecoverRequestsStep ==
  ASSUME OwnershipInvariant, RecoverRequests
  PROVE  OwnershipInvariant'
<1> USE DEF OwnershipInvariant
<1>1. \A s \in Students :
        /\ lease[s] \in Lease
        /\ [lease[s] EXCEPT !.state = "LOST"] \in Lease
        /\ [lease[s] EXCEPT !.state = "LOST"].state = "LOST"
        /\ [lease[s] EXCEPT !.state = "LOST"].lid = lease[s].lid
        /\ [lease[s] EXCEPT !.state = "LOST"].worker = lease[s].worker
  <2>1. \A s \in Students : lease[s] \in Lease
    BY DEF TypeOK
  <2> HIDE DEF OwnershipInvariant
  <2> QED BY <2>1 DEF Lease, LeaseStates
<1>2. /\ lease' \in [Students -> Lease]
      /\ \A s \in Students : /\ lease'[s].lid = lease[s].lid
                             /\ lease'[s].worker = lease[s].worker
                             /\ lease'[s].state \in {lease[s].state, "LOST"}
  BY <1>1 DEF RecoverRequests
<1>3. request' \in [Students -> [Requests -> Request]]
  <2>1. \A r \in Request : [r EXCEPT !.status = "FAILED"] \in Request
    BY DEF Request, RequestStates
  <2> QED BY <2>1 DEF RecoverRequests, TypeOK
<1>4. TypeOK'
  BY <1>2, <1>3 DEF RecoverRequests, TypeOK, world
<1>5. \A s \in Students : KeepsRow(s)
  BY <1>2 DEF KeepsRow, Active, ActiveStates
<1>6. OnlyUpHasTasks'
  BY DEF RecoverRequests, OnlyUpHasTasks
<1> QED
  BY <1>4, <1>5, <1>6, NobodyRuns, LoopFreeStep DEF RecoverRequests, world, KeepsBoard

LEMMA StartServingStep ==
  ASSUME OwnershipInvariant, StartServing
  PROVE  OwnershipInvariant'
<1>1. TypeOK'
  BY DEF OwnershipInvariant, StartServing, TypeOK, database, world
<1> QED
  BY <1>1, QuietStep DEF StartServing, OnlyUpHasTasks, database, world

-----------------------------------------------------------------------------
(* The invariant, for any students, boards, bounds and environment.        *)

LEMMA InitialState ==
  Init => OwnershipInvariant
<1> SUFFICES ASSUME Init PROVE OwnershipInvariant
  OBVIOUS
<1>1. lease \in [Students -> Lease]
  BY DEF Init, Lease, LeaseStates, IdleTimes, NoLease, NoArtifact
<1>2. worker \in [Boards -> Worker]
  BY DEF Init, Worker, WorkerStates, NoLease, NoArtifact
<1>3. request \in [Students -> [Requests -> Request]]
  BY DEF Init, Request, RequestStates, NoArtifact
<1>4. op \in [Students -> Op]
  BY FreeOpType DEF Init
<1>5. allocator \in Allocator /\ reaper \in Reaper
  BY IdleTypes DEF Init
<1>6. check \in [Boards -> Status] /\ board \in [Boards -> Board]
  BY DEF Init, Status, NoStatus, Board, NoLease, NoArtifact
<1>7. latest \in [Students -> 0 .. artifacts]
  BY DEF Init, NoArtifact
<1>8. /\ ahead \in [Students -> SUBSET Students] /\ failures \in [Boards -> Nat]
      /\ orphans \in SUBSET Call
  BY DEF Init
<1>9. TypeOK
  BY <1>1, <1>2, <1>3, <1>4, <1>5, <1>6, <1>7, <1>8 DEF Init, TypeOK
<1>10. LidsAreDrawn
  BY FreeOpType DEF Init, LidsAreDrawn, NoStatus, NoLease
<1>11. LidsAreUnique /\ LeaseOwnsBoard /\ WaitingIsBare
  BY DEF Init, LidsAreUnique, LeaseOwnsBoard, WaitingIsBare, Active, ActiveStates
<1>12. CoroutineHoldsLease /\ OnlyUpHasTasks
  BY FreeOpType DEF Init, CoroutineHoldsLease, OnlyUpHasTasks, Awaiting
<1> QED BY <1>9, <1>10, <1>11, <1>12 DEF OwnershipInvariant

LEMMA EveryStep ==
  OwnershipInvariant /\ [Next]_vars => OwnershipInvariant'
<1> SUFFICES ASSUME OwnershipInvariant, [Next]_vars PROVE OwnershipInvariant'
  OBVIOUS
<1>1. CASE UNCHANGED vars
  <2>1. TypeOK' /\ OnlyUpHasTasks'
    BY <1>1 DEF OwnershipInvariant, TypeOK, OnlyUpHasTasks, vars, database, tasks, world
  <2> QED BY <1>1, <2>1, QuietStep DEF vars, database, tasks, world
<1>2. ASSUME NEW s \in Students,
             \/ Coroutine(s) \/ CreateArtifact(s) \/ SubmitPredict(s)
             \/ GrowIdle(s) \/ Serve(s) \/ TimeOut(s)
      PROVE  OwnershipInvariant'
  BY <1>2, CoroutineStep, CreateArtifactStep, SubmitPredictStep, GrowIdleStep, ServeStep,
     TimeOutStep
<1>3. ASSUME NEW b \in Boards,
             \/ CheckTask(b) \/ CheckFails(b) \/ ReleaseWorker(b) \/ BoardRestart(b)
      PROVE  OwnershipInvariant'
  BY <1>3, StatusAnsweredStep, ApplyStatusStep, CheckFailsStep, ReleaseWorkerStep,
     BoardRestartStep DEF CheckTask
<1>4. CASE AllocatorTask \/ ReaperTask \/ Lifespan \/ ServeOrphan \/ Crash
  BY <1>4, AllocatorStep, ReaperStep, RecoverRequestsStep, StartServingStep,
     ServeOrphanStep, CrashStep DEF Lifespan
<1> QED BY <1>1, <1>2, <1>3, <1>4 DEF Next

LEMMA InvariantImplies ==
  OwnershipInvariant => TypeOK /\ Ownership
<1> SUFFICES ASSUME OwnershipInvariant PROVE Ownership
  BY DEF OwnershipInvariant
<1>1. LeaseOwnsBoard /\ LidsAreUnique
  BY DEF OwnershipInvariant
<1> QED BY <1>1 DEF LeaseOwnsBoard, LidsAreUnique, Ownership

(* Whatever crashes, times out or arrives late: the rows and coroutines of *)
(* lease_manager.py, scheduler.py and worker_registry.py satisfy           *)
(* OwnershipInvariant in every reachable state.                            *)
THEOREM InvariantHolds == Spec => []OwnershipInvariant
<1>1. Init => OwnershipInvariant
  BY InitialState
<1>2. OwnershipInvariant /\ [Next]_vars => OwnershipInvariant'
  BY EveryStep
<1> QED BY <1>1, <1>2, PTL DEF Spec

(* Every variable of the model keeps its type (db_models.py's states, the  *)
(* calls of worker_client.py).                                             *)
THEOREM TypeCorrect == Spec => []TypeOK
<1>1. OwnershipInvariant => TypeOK
  BY InvariantImplies
<1> QED BY <1>1, InvariantHolds, PTL

(* A lease in use and its board always agree, and no two students use the  *)
(* same board (scheduler.reserve_lease, and every writer of the two rows). *)
THEOREM OwnershipHolds == Spec => []Ownership
<1>1. OwnershipInvariant => Ownership
  BY InvariantImplies
<1> QED BY <1>1, InvariantHolds, PTL
=============================================================================
