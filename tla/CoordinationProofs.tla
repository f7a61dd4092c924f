-------------------------- MODULE CoordinationProofs --------------------------
(***************************************************************************)
(* TLAPS proofs about Central: CoordinationInvariant is inductive, hence a *)
(* transient lease has its task, a request runs exactly while its lease is *)
(* BUSY, rows stay in step, and no board leaks.                            *)
(***************************************************************************)
EXTENDS CentralSteps, CoordinationInvariant

-----------------------------------------------------------------------------
(* Lease ids stay with their board.                                        *)

\* The ids in the lease row and in the coroutine of s come from where they were.
KeepsLids(s) ==
  /\ lease'[s].lid = NoLease \/ (lease'[s].lid = lease[s].lid
                                 /\ lease'[s].worker = lease[s].worker)
  /\ \/ op'[s].lid = NoLease
     \/ op'[s].lid = op[s].lid /\ op'[s].board = op[s].board
     \/ op'[s].lid = lease[s].lid /\ op'[s].board = lease[s].worker

LidsMove ==
  /\ leases' = leases /\ \A s \in Students : KeepsLids(s)
  /\ \A b \in Boards :
       /\ worker'[b].lid \in {NoLease, worker[b].lid, check[b].lid}
       /\ check'[b].lid \in {NoLease, check[b].lid, board[b].lid}
       /\ board'[b].lid = NoLease \/ LidOnBoard(board'[b].lid, b)
  /\ \A c \in orphans' : c.lid = NoLease \/ LidOnBoard(c.lid, c.board)

LEMMA LidsKept ==
  ASSUME LidsNameOneBoard, LidsMove
  PROVE  LidsNameOneBoard'
<1>1. ASSUME NEW b \in Boards, NEW l, LidOnBoard(l, b)' PROVE LidOnBoard(l, b)
  BY <1>1 DEF LidOnBoard, LidsMove, KeepsLids
<1> QED BY <1>1 DEF LidsNameOneBoard, LidsMove

-----------------------------------------------------------------------------
(* A step of one student and the others.                                   *)

LEMMA SetsKept ==
  ASSUME NEW t \in Students, SameRequest(t)
  PROVE  Pending(t)' = Pending(t) /\ RunningOf(t)' = RunningOf(t)
  BY DEF SameRequest, Pending, RunningOf

\* A student whose row, requests and coroutine stay, and the state of whose board does.
LEMMA StudentRests ==
  ASSUME NEW t \in Students, StudentFits(t), LeaseKept(t), SameRequest(t), op'[t] = op[t],
         central' = central,
         Active(t) => worker'[lease[t].worker].state = worker[lease[t].worker].state
  PROVE  StudentFits(t)'
<1>1. /\ lease'[t].state = lease[t].state /\ lease'[t].worker = lease[t].worker
      /\ lease'[t].lid = lease[t].lid
  BY DEF LeaseKept, LeaseMoves, LeaseBecomes
<1>2. Pending(t)' = Pending(t) /\ RunningOf(t)' = RunningOf(t)
  BY SetsKept
<1>3. LeaseFitsCoroutine(t)' /\ HolderKnowsLease(t)'
  BY <1>1 DEF StudentFits, LeaseFitsCoroutine, HolderKnowsLease, Active
<1>4. RequestsFitLease(t)'
  BY <1>1, <1>2 DEF StudentFits, RequestsFitLease, SameRequest
<1>5. RowsFit(t)'
  BY <1>1 DEF StudentFits, RowsFit, Active, ActiveStates
<1> QED BY <1>3, <1>4, <1>5 DEF StudentFits

\* The board of one student's lease, and a board without a lease, is nobody else's.
LEMMA NobodyElse ==
  ASSUME OwnershipInvariant, NEW s \in Students, NEW b \in Boards,
         worker[b].lid \in {NoLease, lease[s].lid},
         NEW t \in Students \ {s}, Active(t)
  PROVE  lease[t].worker # b
  BY DEF OwnershipInvariant, LeaseOwnsBoard, LidsAreUnique

\* A step of s changes at most the row of board b, which is in use if and only if s uses
\* it then.
LEMMA StudentMoves ==
  ASSUME OwnershipInvariant, CoordinationInvariant, NEW s \in Students, StepOf(s),
         NEW b \in Boards, worker[b].lid \in {NoLease, lease[s].lid},
         \A c \in Boards \ {b} : worker'[c] = worker[c],
         Active(s) => lease[s].worker = b,
         Active(s)' => lease'[s].worker = b,
         worker'[b].state \in InUse <=> Active(s)',
         LidsNameOneBoard', StudentFits(s)'
  PROVE  CoordinationInvariant'
<1>1. /\ central = "up" /\ central' = "up" /\ unchecked' = unchecked
      /\ \A t \in Students \ {s} : lease'[t] = lease[t] /\ op'[t] = op[t]
                                   /\ request'[t] = request[t]
  BY DEF StepOf
<1>2. \A t \in Students \ {s} : Active(t) => lease[t].worker # b
  BY NobodyElse
<1>3. ASSUME NEW t \in Students PROVE StudentFits(t)'
  <2>1. CASE t # s
    <3>1. Active(t) => lease[t].worker \in Boards \ {b}
      BY <1>2, <2>1 DEF OwnershipInvariant, LeaseOwnsBoard
    <3>2. LeaseKept(t) /\ SameRequest(t) /\ op'[t] = op[t]
      BY <1>1, <2>1 DEF LeaseKept, LeaseMoves, LeaseBecomes, SameRequest
    <3> QED BY <1>1, <3>1, <3>2, StudentRests DEF CoordinationInvariant
  <2> QED BY <2>1
<1>4. ASSUME NEW c \in Boards PROVE BoardFits(c)'
  <2>1. BoardFits(c) /\ unchecked = {}
    BY <1>1 DEF CoordinationInvariant, RecoverySettles
  <2>2. \A t \in Students \ {s} : Active(t)' <=> Active(t)
    BY <1>1 DEF Active
  <2>3. CASE c = b
    BY <1>1, <1>2, <2>2, <2>3 DEF BoardFits
  <2>4. CASE c # b
    BY <1>1, <2>1, <2>2, <2>4 DEF BoardFits
  <2> QED BY <2>3, <2>4
<1>5. RecoverySettles'
  BY <1>1 DEF CoordinationInvariant, RecoverySettles
<1> QED BY <1>3, <1>4, <1>5 DEF CoordinationInvariant

\* A step of s changes no board's row, and s uses the same board as before or none.
LEMMA StudentStays ==
  ASSUME OwnershipInvariant, CoordinationInvariant, NEW s \in Students, StepOf(s),
         SameWorkers, leases' = leases, KeepsLids(s),
         Active(s)' <=> Active(s),
         Active(s) => lease'[s].worker = lease[s].worker,
         StudentFits(s)'
  PROVE  CoordinationInvariant'
<1>1. /\ central = "up" /\ central' = "up" /\ unchecked' = unchecked
      /\ UNCHANGED <<check, board, orphans>>
      /\ \A t \in Students \ {s} : lease'[t] = lease[t] /\ op'[t] = op[t]
                                   /\ request'[t] = request[t]
  BY DEF StepOf
<1>2. ASSUME NEW t \in Students PROVE StudentFits(t)'
  <2>1. CASE t # s
    <3>1. Active(t) => lease[t].worker \in Boards
      BY DEF OwnershipInvariant, LeaseOwnsBoard
    <3>2. LeaseKept(t) /\ SameRequest(t) /\ op'[t] = op[t]
      BY <1>1, <2>1 DEF LeaseKept, LeaseMoves, LeaseBecomes, SameRequest
    <3> QED BY <1>1, <3>1, <3>2, StudentRests DEF CoordinationInvariant, SameWorkers
  <2> QED BY <2>1
<1>3. ASSUME NEW c \in Boards PROVE BoardFits(c)'
  <2>1. BoardFits(c)
    BY DEF CoordinationInvariant
  <2>2. \A t \in Students \ {s} : Active(t)' <=> Active(t)
    BY <1>1 DEF Active
  <2> QED BY <1>1, <2>1, <2>2 DEF BoardFits, SameWorkers
<1>4. RecoverySettles'
  BY <1>1 DEF CoordinationInvariant, RecoverySettles
<1>5. LidsMove
  <2>1. \A t \in Students : KeepsLids(t)
    BY <1>1 DEF KeepsLids
  <2>2. \A b \in Boards : board[b].lid = NoLease \/ LidOnBoard(board[b].lid, b)
    BY DEF LidOnBoard
  <2>3. \A c \in orphans : c.lid = NoLease \/ LidOnBoard(c.lid, c.board)
    BY DEF LidOnBoard
  <2> QED BY <1>1, <2>1, <2>2, <2>3 DEF LidsMove, SameWorkers
<1> QED BY <1>2, <1>3, <1>4, <1>5, LidsKept DEF CoordinationInvariant

\* The board's row has its old id or none any more, and no new id is drawn.
LEMMA StudentWrites ==
  ASSUME CoordinationInvariant, NEW s \in Students, StepOf(s), leases' = leases,
         KeepsLids(s), NEW b \in Boards,
         worker'[b].lid \in {NoLease, worker[b].lid},
         \A c \in Boards \ {b} : worker'[c] = worker[c]
  PROVE  LidsNameOneBoard'
<1>1. /\ UNCHANGED <<check, board, orphans>>
      /\ \A t \in Students \ {s} : lease'[t] = lease[t] /\ op'[t] = op[t]
  BY DEF StepOf
<1>2. \A t \in Students : KeepsLids(t)
  BY <1>1 DEF KeepsLids
<1>3. \A c \in Boards : board[c].lid = NoLease \/ LidOnBoard(board[c].lid, c)
  BY DEF LidOnBoard
<1>4. \A c \in orphans : c.lid = NoLease \/ LidOnBoard(c.lid, c.board)
  BY DEF LidOnBoard
<1>5. LidsMove
  BY <1>1, <1>2, <1>3, <1>4 DEF LidsMove
<1> QED BY <1>5, LidsKept DEF CoordinationInvariant

\* What is known of s when a step of s begins.
LEMMA StudentFacts ==
  ASSUME OwnershipInvariant, CoordinationInvariant, NEW s \in Students, StepOf(s)
  PROVE  /\ StudentFits(s) /\ central = "up" /\ central' = "up"
         /\ op[s].pc \in {"free"} \cup Running \cup Awaiting
         /\ lease[s].state \in LeaseStates
         /\ Active(s) => /\ lease[s].lid # NoLease /\ lease[s].worker \in Boards
                         /\ worker[lease[s].worker].lid = lease[s].lid
  BY DEF CoordinationInvariant, OwnershipInvariant, StepOf, TypeOK, Op, Lease,
         LeaseOwnsBoard

-----------------------------------------------------------------------------
(* Outcomes that touch no board.                                           *)

LEMMA LeavesFits ==
  ASSUME OwnershipInvariant, CoordinationInvariant, NEW s \in Students, StepOf(s), Leaves(s)
  PROVE  CoordinationInvariant'
<1>1. /\ op'[s].pc = "free" /\ op'[s].lid = NoLease /\ lease'[s] = lease[s]
      /\ SameRequest(s) /\ SameWorkers /\ leases' = leases
  BY DEF Leaves, OpGoesTo, OpBecomes, SameLease
<1>2. lease[s].state \in Settled
  <2>1. CASE op[s].pc \in {"reserve", "run"}
    BY <2>1, StudentFacts DEF StudentFits, LeaseFitsCoroutine, Settled
  <2>2. CASE op[s].pc = "deploy" /\ ~DeployStillWanted(s)
    BY <2>2, StudentFacts
    DEF StudentFits, LeaseFitsCoroutine, HolderKnowsLease, DeployStillWanted, StillOwned,
        Settled, Taken, Active, ActiveStates, Awaiting
  <2>3. CASE op[s].pc = "predict" /\ ~(PredictStillWanted(s) /\ lease[s].state = "BUSY")
    BY <2>3, StudentFacts
    DEF StudentFits, LeaseFitsCoroutine, HolderKnowsLease, RequestsFitLease, RunningOf,
        PredictStillWanted, StillOwned, Settled, Taken, Active, ActiveStates, Awaiting
  <2>4. CASE op[s].pc = "release" /\ ~ReleaseStillWanted(s)
    BY <2>4, StudentFacts
    DEF StudentFits, LeaseFitsCoroutine, HolderKnowsLease, ReleaseStillWanted, StillOwned,
        Settled, Taken, Active, ActiveStates, Awaiting
  <2> QED BY <2>1, <2>2, <2>3, <2>4 DEF Leaves
<1>3. LeaseFitsCoroutine(s)' /\ HolderKnowsLease(s)'
  BY <1>1, <1>2 DEF LeaseFitsCoroutine, HolderKnowsLease, Awaiting
<1>4. RequestsFitLease(s)' /\ RowsFit(s)'
  BY <1>1, <1>2, SetsKept, StudentFacts
  DEF StudentFits, RequestsFitLease, RowsFit, SameRequest, Settled
<1> QED
  BY <1>1, <1>3, <1>4, StudentStays DEF StudentFits, KeepsLids, Active

LEMMA QueuesFits ==
  ASSUME OwnershipInvariant, CoordinationInvariant, NEW s \in Students, StepOf(s), Queues(s)
  PROVE  CoordinationInvariant'
<1>1. /\ op'[s].pc = "reserve" /\ op'[s].lid = NoLease
      /\ lease'[s].state = "QUEUED" /\ lease'[s].lid = NoLease
      /\ SameRequest(s) /\ SameWorkers /\ leases' = leases
      /\ lease[s].state \in {"UNASSIGNED", "ERROR", "LOST"}
  BY DEF Queues, OpGoesTo, OpBecomes, LeaseBecomes
<1>2. LeaseFitsCoroutine(s)' /\ HolderKnowsLease(s)' /\ RowsFit(s)'
  BY <1>1 DEF LeaseFitsCoroutine, HolderKnowsLease, RowsFit, Awaiting, Settled
<1>3. RequestsFitLease(s)'
  BY <1>1, SetsKept, StudentFacts DEF StudentFits, RequestsFitLease
<1>4. ~Active(s) /\ ~Active(s)'
  BY <1>1 DEF Active, ActiveStates
<1> QED BY <1>1, <1>2, <1>3, <1>4, StudentStays DEF StudentFits, KeepsLids

LEMMA ProceedsFits ==
  ASSUME OwnershipInvariant, CoordinationInvariant, NEW s \in Students, StepOf(s),
         Proceeds(s)
  PROVE  CoordinationInvariant'
<1>1. /\ op'[s].pc \in {"reserve", "drain"} /\ op'[s].lid = NoLease
      /\ op'[s].pc = "drain" => lease[s].lid # NoLease
      /\ lease'[s] = lease[s] /\ op[s].pc = "process"
      /\ SameRequest(s) /\ SameWorkers /\ leases' = leases
      /\ lease[s].state \notin {"UNASSIGNED", "ERROR", "LOST"}
  BY DEF Proceeds, OpGoesTo, OpBecomes, SameLease
<1>2. lease[s].state \in {"QUEUED", "READY"}
  BY <1>1, StudentFacts DEF StudentFits, LeaseFitsCoroutine, Settled
<1>3. lease[s].lid # NoLease => lease[s].state = "READY"
  BY <1>2 DEF OwnershipInvariant, WaitingIsBare
<1>4. LeaseFitsCoroutine(s)' /\ HolderKnowsLease(s)' /\ RowsFit(s)'
  BY <1>1, <1>2, <1>3 DEF LeaseFitsCoroutine, HolderKnowsLease, RowsFit, Awaiting, Settled
<1>5. RequestsFitLease(s)'
  BY <1>1, <1>2, SetsKept, StudentFacts DEF StudentFits, RequestsFitLease, SameRequest
<1> QED BY <1>1, <1>4, <1>5, StudentStays DEF StudentFits, KeepsLids, Active

LEMMA IdlesFits ==
  ASSUME OwnershipInvariant, CoordinationInvariant, NEW s \in Students, StepOf(s), Idles(s)
  PROVE  CoordinationInvariant'
<1>1. /\ op'[s].pc = "free" /\ op'[s].lid = NoLease
      /\ lease'[s].state = "READY" /\ lease'[s].lid = lease[s].lid
      /\ lease'[s].worker = lease[s].worker /\ op[s].pc = "drain"
      /\ SameRequest(s) /\ SameWorkers /\ leases' = leases
  BY DEF Idles, OpGoesTo, OpBecomes, LeaseMoves, LeaseBecomes
<1>2. lease[s].state \in {"RESERVED", "READY"}
  BY <1>1, StudentFacts DEF StudentFits, LeaseFitsCoroutine
<1>3. LeaseFitsCoroutine(s)' /\ HolderKnowsLease(s)' /\ RowsFit(s)'
  BY <1>1 DEF LeaseFitsCoroutine, HolderKnowsLease, RowsFit, Awaiting, Settled
<1>4. RequestsFitLease(s)'
  BY <1>1, <1>2, SetsKept, StudentFacts DEF StudentFits, RequestsFitLease, SameRequest
<1>5. Active(s) /\ Active(s)'
  BY <1>1, <1>2 DEF Active, ActiveStates
<1> QED BY <1>1, <1>3, <1>4, <1>5, StudentStays DEF StudentFits, KeepsLids

LEMMA PicksFits ==
  ASSUME OwnershipInvariant, CoordinationInvariant, NEW s \in Students, StepOf(s), Picks(s)
  PROVE  CoordinationInvariant'
<1>1. /\ op'[s].pc = "run" /\ op'[s].lid = NoLease
      /\ lease'[s] = lease[s] /\ op[s].pc = "drain"
      /\ SameRequest(s) /\ SameWorkers /\ leases' = leases
      /\ worker[lease[s].worker].state \in {"READY", "BUSY"}
  BY DEF Picks, OpGoesTo, OpBecomes, SameLease, AlreadyDeployed
<1>2. lease[s].state = "READY"
  BY <1>1, StudentFacts DEF StudentFits, LeaseFitsCoroutine, RowsFit
<1>3. LeaseFitsCoroutine(s)' /\ HolderKnowsLease(s)' /\ RowsFit(s)'
  BY <1>1, <1>2 DEF LeaseFitsCoroutine, HolderKnowsLease, RowsFit, Awaiting, Settled
<1>4. RequestsFitLease(s)'
  BY <1>1, <1>2, SetsKept, StudentFacts DEF StudentFits, RequestsFitLease, SameRequest
<1> QED BY <1>1, <1>3, <1>4, StudentStays DEF StudentFits, KeepsLids, Active

LEMMA TakesFits ==
  ASSUME OwnershipInvariant, CoordinationInvariant, NEW s \in Students, StepOf(s), Takes(s)
  PROVE  CoordinationInvariant'
<1>1. /\ op'[s].pc = "process" /\ op'[s].lid = NoLease
      /\ lease'[s] = lease[s] /\ op[s].pc = "free"
      /\ SameRequest(s) /\ SameWorkers /\ leases' = leases
  BY DEF Takes, OpGoesTo, OpBecomes, SameLease
<1>2. lease[s].state \in Settled
  BY <1>1, StudentFacts DEF StudentFits, LeaseFitsCoroutine
<1>3. LeaseFitsCoroutine(s)' /\ HolderKnowsLease(s)' /\ RowsFit(s)'
  BY <1>1, <1>2 DEF LeaseFitsCoroutine, HolderKnowsLease, RowsFit, Awaiting, Settled
<1>4. RequestsFitLease(s)'
  BY <1>1, <1>2, SetsKept, StudentFacts DEF StudentFits, RequestsFitLease, SameRequest
<1> QED BY <1>1, <1>3, <1>4, StudentStays DEF StudentFits, KeepsLids, Active

LEMMA SubmitsFits ==
  ASSUME OwnershipInvariant, CoordinationInvariant, NEW s \in Students, StepOf(s),
         Submits(s)
  PROVE  CoordinationInvariant'
<1>1. /\ op'[s].pc = "process" /\ op'[s].lid = NoLease
      /\ lease'[s] = lease[s] /\ op[s].pc = "free"
      /\ SameWorkers /\ leases' = leases
  BY DEF Submits, OpGoesTo, OpBecomes, SameLease
<1>2. lease[s].state \in Settled
  BY <1>1, StudentFacts DEF StudentFits, LeaseFitsCoroutine
<1>3. LeaseFitsCoroutine(s)' /\ HolderKnowsLease(s)' /\ RowsFit(s)'
  BY <1>1, <1>2 DEF LeaseFitsCoroutine, HolderKnowsLease, RowsFit, Awaiting, Settled
<1>4. RunningOf(s)' = RunningOf(s)
  BY DEF Submits, RequestBecomes, RunningOf
<1>5. RunningOf(s) = {}
  BY <1>2, StudentFacts DEF StudentFits, RequestsFitLease, Settled
<1>6. RequestsFitLease(s)'
  BY <1>1, <1>2, <1>4, <1>5 DEF RequestsFitLease, Settled
<1> QED BY <1>1, <1>3, <1>6, StudentStays DEF StudentFits, KeepsLids, Active

LEMMA ReleasesFits ==
  ASSUME OwnershipInvariant, CoordinationInvariant, NEW s \in Students, StepOf(s),
         Releases(s)
  PROVE  CoordinationInvariant'
<1>1. /\ op'[s].pc = "release" /\ op'[s].lid = lease[s].lid /\ op'[s].board = lease[s].worker
      /\ lease'[s].state = "RELEASING" /\ lease'[s].lid = lease[s].lid
      /\ lease'[s].worker = lease[s].worker
      /\ SameRequest(s) /\ SameWorkers /\ leases' = leases
  BY DEF Releases, OpBecomes, LeaseMoves, LeaseBecomes
<1>2. /\ lease[s].state = "READY" /\ worker[lease[s].worker].state = "READY"
      /\ Pending(s) \cup RunningOf(s) = {}
  BY DEF Releases, MayRelease
<1>3. LeaseFitsCoroutine(s)' /\ HolderKnowsLease(s)'
  BY <1>1 DEF LeaseFitsCoroutine, HolderKnowsLease, Awaiting
<1>4. RowsFit(s)'
  BY <1>1, <1>2, StudentFacts DEF RowsFit, SameWorkers, Active, ActiveStates
<1>5. RequestsFitLease(s)'
  BY <1>1, <1>2, SetsKept DEF RequestsFitLease
<1>6. Active(s) /\ Active(s)'
  BY <1>1, <1>2 DEF Active, ActiveStates
<1> QED BY <1>1, <1>3, <1>4, <1>5, <1>6, StudentStays DEF StudentFits, KeepsLids

-----------------------------------------------------------------------------
(* Outcomes that write the row of a board.                                 *)

LEMMA BelowNext ==
  ASSUME NEW n \in Nat, NEW l \in 0 .. (n + 1), l # n + 1
  PROVE  l \in 0 .. n
  OBVIOUS

LEMMA GrantedFits ==
  ASSUME OwnershipInvariant, CoordinationInvariant, NEW s \in Students, StepOf(s),
         NEW b \in Boards, Granted(s, b)
  PROVE  CoordinationInvariant'
<1>1. /\ op'[s].pc = "drain" /\ op'[s].lid = NoLease
      /\ lease'[s].state = "RESERVED" /\ lease'[s].lid = leases + 1 /\ lease'[s].worker = b
      /\ worker'[b].state = "RESERVED" /\ worker'[b].lid = leases + 1
      /\ \A c \in Boards \ {b} : worker'[c] = worker[c]
      /\ SameRequest(s) /\ leases' = leases + 1
      /\ lease[s].state = "QUEUED" /\ worker[b].lid = NoLease
  BY DEF Granted, OpGoesTo, OpBecomes, LeaseBecomes, WorkerBecomes
<1>2. ~Active(s) /\ Active(s)'
  BY <1>1 DEF Active, ActiveStates
<1>3. LeaseFitsCoroutine(s)' /\ HolderKnowsLease(s)' /\ RowsFit(s)'
  BY <1>1 DEF LeaseFitsCoroutine, HolderKnowsLease, RowsFit, Awaiting
<1>4. RequestsFitLease(s)'
  BY <1>1, SetsKept, StudentFacts DEF StudentFits, RequestsFitLease
<1>5. LidsNameOneBoard'
  <2>0. leases \in Nat
    BY DEF OwnershipInvariant, TypeOK
  <2>1. /\ UNCHANGED <<check, board, orphans>> /\ leases \in Nat
        /\ \A t \in Students \ {s} : lease'[t] = lease[t] /\ op'[t] = op[t]
    BY DEF StepOf, OwnershipInvariant, TypeOK
  <2>2. \A t \in Students : lease[t].lid \in Nat /\ op[t].lid \in Nat
    BY DEF OwnershipInvariant, TypeOK, Lease, Op
  <2>3. /\ \A c \in Boards : worker[c].lid \in Nat /\ check[c].lid \in Nat /\ board[c].lid \in Nat
        /\ \A c \in orphans : c.lid \in Nat
    BY DEF OwnershipInvariant, TypeOK, Worker, Status, Board, Call
  <2>4. ASSUME NEW l, l = leases + 1, NEW c \in Boards, LidOnBoard(l, c)' PROVE c = b
    BY <1>1, <2>1, <2>2, <2>3, <2>4 DEF LidOnBoard, OwnershipInvariant, LidsAreDrawn, NoLease
  <2>5. ASSUME NEW l \in 0 .. leases, NEW c \in Boards, LidOnBoard(l, c)'
        PROVE  LidOnBoard(l, c)
    BY <1>1, <2>1, <2>5 DEF LidOnBoard
  <2>6. ASSUME NEW l \in 0 .. (leases + 1), l # leases + 1 PROVE l \in 0 .. leases
    BY <2>0, <2>6, BelowNext
  <2>7. ASSUME NEW c \in Boards, NEW d \in Boards, NEW l \in 0 .. (leases + 1),
               LidOnBoard(l, c)', LidOnBoard(l, d)'
        PROVE  c = d
    <3>1. CASE l = leases + 1
      BY <2>4, <2>7, <3>1
    <3>2. CASE l # leases + 1
      <4>1. l \in 0 .. leases
        BY <2>6, <3>2
      <4> QED BY <2>5, <2>7, <4>1 DEF LidsNameOneBoard, CoordinationInvariant
    <3> QED BY <3>1, <3>2
  <2> QED BY <1>1, <2>7 DEF LidsNameOneBoard
<1> QED
  BY <1>1, <1>2, <1>3, <1>4, <1>5, StudentMoves DEF StudentFits, InUse

LEMMA DeploysFits ==
  ASSUME OwnershipInvariant, CoordinationInvariant, NEW s \in Students, StepOf(s),
         Deploys(s)
  PROVE  CoordinationInvariant'
<1> DEFINE b == lease[s].worker
<1>1. /\ op'[s].pc = "deploy" /\ op'[s].lid = lease[s].lid /\ op'[s].board = b
      /\ lease'[s].state = "DEPLOYING" /\ lease'[s].lid = lease[s].lid
      /\ lease'[s].worker = b
      /\ worker'[b].state = "DEPLOYING" /\ worker'[b].lid = worker[b].lid
      /\ \A c \in Boards \ {b} : worker'[c] = worker[c]
      /\ SameRequest(s) /\ leases' = leases /\ op[s].pc = "drain"
  BY DEF Deploys, OpBecomes, LeaseMoves, LeaseBecomes, WorkerBecomes
<1>2. lease[s].state \in {"RESERVED", "READY"}
  BY <1>1, StudentFacts DEF StudentFits, LeaseFitsCoroutine
<1>3. Active(s) /\ Active(s)'
  BY <1>1, <1>2 DEF Active, ActiveStates
<1>4. b \in Boards /\ worker[b].lid = lease[s].lid
  BY <1>3, StudentFacts
<1>5. LeaseFitsCoroutine(s)' /\ HolderKnowsLease(s)' /\ RowsFit(s)'
  BY <1>1, <1>4 DEF LeaseFitsCoroutine, HolderKnowsLease, RowsFit
<1>6. RequestsFitLease(s)'
  BY <1>1, <1>2, SetsKept, StudentFacts DEF StudentFits, RequestsFitLease
<1>7. LidsNameOneBoard'
  BY <1>1, <1>4, StudentWrites DEF KeepsLids
<1> QED
  BY <1>1, <1>3, <1>4, <1>5, <1>6, <1>7, StudentMoves DEF StudentFits, InUse

\* The board of an answer that still counts is that of the lease.
LEMMA OwnedFacts ==
  ASSUME OwnershipInvariant, CoordinationInvariant, NEW s \in Students, StepOf(s),
         op[s].pc \in Awaiting, StillOwned(s)
  PROVE  /\ op[s].board \in Boards /\ worker[op[s].board].lid = lease[s].lid
         /\ Active(s) => lease[s].worker = op[s].board
  BY StudentFacts
  DEF StillOwned, OwnershipInvariant, CoroutineHoldsLease, StudentFits, HolderKnowsLease

LEMMA DeployedFits ==
  ASSUME OwnershipInvariant, CoordinationInvariant, NEW s \in Students, StepOf(s),
         Deployed(s)
  PROVE  CoordinationInvariant'
<1> DEFINE b == op[s].board
<1>1. /\ op'[s].pc = "run" /\ op'[s].lid = NoLease
      /\ lease'[s].state = "READY" /\ lease'[s].lid = lease[s].lid
      /\ lease'[s].worker = lease[s].worker
      /\ worker'[b].state = "READY" /\ worker'[b].lid = worker[b].lid
      /\ \A c \in Boards \ {b} : worker'[c] = worker[c]
      /\ SameRequest(s) /\ leases' = leases /\ op[s].pc = "deploy"
      /\ StillOwned(s) /\ lease[s].state = "DEPLOYING"
  BY DEF Deployed, OpGoesTo, OpBecomes, LeaseBecomes, WorkerBecomes, DeployStillWanted
<1>3. Active(s) /\ Active(s)'
  BY <1>1 DEF Active, ActiveStates
<1>4. b \in Boards /\ worker[b].lid = lease[s].lid /\ lease[s].worker = b
  BY <1>1, <1>3, OwnedFacts DEF Awaiting
<1>5. LeaseFitsCoroutine(s)' /\ HolderKnowsLease(s)' /\ RowsFit(s)'
  BY <1>1, <1>4 DEF LeaseFitsCoroutine, HolderKnowsLease, RowsFit, Awaiting
<1>6. RequestsFitLease(s)'
  BY <1>1, SetsKept, StudentFacts DEF StudentFits, RequestsFitLease
<1>7. LidsNameOneBoard'
  BY <1>1, <1>4, StudentWrites DEF KeepsLids
<1> QED
  BY <1>1, <1>3, <1>4, <1>5, <1>6, <1>7, StudentMoves DEF StudentFits, InUse

LEMMA DeployLostFits ==
  ASSUME OwnershipInvariant, CoordinationInvariant, NEW s \in Students, StepOf(s),
         DeployLost(s)
  PROVE  CoordinationInvariant'
<1> DEFINE b == op[s].board
<1>1. /\ op'[s].pc = "free" /\ op'[s].lid = NoLease
      /\ lease'[s].state = "QUEUED" /\ lease'[s].lid = NoLease
      /\ worker'[b].state = "ERROR" /\ worker'[b].lid = worker[b].lid
      /\ \A c \in Boards \ {b} : worker'[c] = worker[c]
      /\ SameRequest(s) /\ leases' = leases /\ op[s].pc = "deploy"
      /\ StillOwned(s) /\ lease[s].state = "DEPLOYING"
  BY DEF DeployLost, OpGoesTo, OpBecomes, LeaseBecomes, WorkerBecomes, DeployStillWanted
<1>3. Active(s) /\ ~Active(s)'
  BY <1>1 DEF Active, ActiveStates
<1>4. b \in Boards /\ worker[b].lid = lease[s].lid /\ lease[s].worker = b
  BY <1>1, <1>3, OwnedFacts DEF Awaiting
<1>5. LeaseFitsCoroutine(s)' /\ HolderKnowsLease(s)' /\ RowsFit(s)'
  BY <1>1 DEF LeaseFitsCoroutine, HolderKnowsLease, RowsFit, Awaiting, Settled
<1>6. RequestsFitLease(s)'
  BY <1>1, SetsKept, StudentFacts DEF StudentFits, RequestsFitLease
<1>7. LidsNameOneBoard'
  BY <1>1, <1>4, StudentWrites DEF KeepsLids
<1> QED
  BY <1>1, <1>3, <1>4, <1>5, <1>6, <1>7, StudentMoves DEF StudentFits, InUse

LEMMA StartsFits ==
  ASSUME OwnershipInvariant, CoordinationInvariant, NEW s \in Students, StepOf(s),
         Starts(s)
  PROVE  CoordinationInvariant'
<1> DEFINE b == lease[s].worker
           i == op[s].req
<1>1. /\ op'[s].pc = "predict" /\ op'[s].lid = lease[s].lid /\ op'[s].board = b
      /\ op'[s].req = i
      /\ lease'[s].state = "BUSY" /\ lease'[s].lid = lease[s].lid
      /\ lease'[s].worker = b
      /\ worker'[b].state = "BUSY" /\ worker'[b].lid = worker[b].lid
      /\ \A c \in Boards \ {b} : worker'[c] = worker[c]
      /\ leases' = leases /\ op[s].pc = "run" /\ lease[s].state = "READY"
      /\ request'[s][i].status = "RUNNING" /\ request'[s][i].worker = b
      /\ \A j \in Requests \ {i} : request'[s][j] = request[s][j]
  BY DEF Starts, MayRun, OpBecomes, LeaseMoves, LeaseBecomes, WorkerBecomes,
         RequestBecomes
<1>2. Active(s) /\ Active(s)'
  BY <1>1 DEF Active, ActiveStates
<1>3. b \in Boards /\ worker[b].lid = lease[s].lid
  BY <1>2, StudentFacts
<1>4. LeaseFitsCoroutine(s)' /\ HolderKnowsLease(s)' /\ RowsFit(s)'
  BY <1>1, <1>3 DEF LeaseFitsCoroutine, HolderKnowsLease, RowsFit
<1>5. i \in Requests /\ RunningOf(s) = {}
  BY <1>1, StudentFacts
  DEF OwnershipInvariant, CoroutineHoldsLease, StudentFits, RequestsFitLease
<1>6. RunningOf(s)' = {i}
  BY <1>1, <1>5 DEF RunningOf
<1>7. RequestsFitLease(s)'
  BY <1>1, <1>6 DEF RequestsFitLease
<1>8. LidsNameOneBoard'
  BY <1>1, <1>3, StudentWrites DEF KeepsLids
<1> QED
  BY <1>1, <1>2, <1>3, <1>4, <1>7, <1>8, StudentMoves DEF StudentFits, InUse

LEMMA CompletesFits ==
  ASSUME OwnershipInvariant, CoordinationInvariant, NEW s \in Students, StepOf(s),
         Completes(s)
  PROVE  CoordinationInvariant'
<1> DEFINE b == op[s].board
           i == op[s].req
<1>1. /\ op'[s].pc = "drain" /\ op'[s].lid = NoLease
      /\ lease'[s].state = "READY" /\ lease'[s].lid = lease[s].lid
      /\ lease'[s].worker = lease[s].worker
      /\ worker'[b].state = "READY" /\ worker'[b].lid = worker[b].lid
      /\ \A c \in Boards \ {b} : worker'[c] = worker[c]
      /\ leases' = leases /\ op[s].pc = "predict"
      /\ StillOwned(s) /\ lease[s].state = "BUSY"
      /\ request'[s][i].status = "COMPLETED"
      /\ \A j \in Requests \ {i} : request'[s][j] = request[s][j]
  BY DEF Completes, PredictStillWanted, OpGoesTo, OpBecomes, LeaseMoves, LeaseBecomes,
         WorkerBecomes, RequestBecomes
<1>2. Active(s) /\ Active(s)'
  BY <1>1 DEF Active, ActiveStates
<1>3. b \in Boards /\ worker[b].lid = lease[s].lid /\ lease[s].worker = b
  BY <1>1, <1>2, OwnedFacts DEF Awaiting
<1>4. LeaseFitsCoroutine(s)' /\ HolderKnowsLease(s)' /\ RowsFit(s)'
  BY <1>1 DEF LeaseFitsCoroutine, HolderKnowsLease, RowsFit, Awaiting
<1>5. i \in RunningOf(s) /\ \A j \in RunningOf(s) : j = i
  BY <1>1, StudentFacts DEF StudentFits, RequestsFitLease
<1>6. RunningOf(s)' = {}
  BY <1>1, <1>5 DEF RunningOf
<1>7. RequestsFitLease(s)'
  BY <1>1, <1>6 DEF RequestsFitLease
<1>8. LidsNameOneBoard'
  BY <1>1, <1>3, StudentWrites DEF KeepsLids
<1> QED
  BY <1>1, <1>2, <1>3, <1>4, <1>7, <1>8, StudentMoves DEF StudentFits, InUse

LEMMA PredictLostFits ==
  ASSUME OwnershipInvariant, CoordinationInvariant, NEW s \in Students, StepOf(s),
         PredictLost(s)
  PROVE  CoordinationInvariant'
<1> DEFINE b == op[s].board
           i == op[s].req
<1>1. /\ op'[s].pc = "free" /\ op'[s].lid = NoLease
      /\ lease'[s].state = "QUEUED" /\ lease'[s].lid = NoLease
      /\ worker'[b].state = "ERROR" /\ worker'[b].lid = worker[b].lid
      /\ \A c \in Boards \ {b} : worker'[c] = worker[c]
      /\ leases' = leases /\ op[s].pc = "predict"
      /\ StillOwned(s) /\ request[s][i].status = "RUNNING"
      /\ request'[s][i].status = "FAILED"
      /\ \A j \in Requests \ {i} : request'[s][j] = request[s][j]
  BY DEF PredictLost, PredictStillWanted, OpGoesTo, OpBecomes, LeaseBecomes,
         WorkerBecomes, RequestBecomes
<1>2. i \in RunningOf(s)
  BY <1>1 DEF RunningOf, OwnershipInvariant, CoroutineHoldsLease
<1>3. lease[s].state = "BUSY" /\ \A j \in RunningOf(s) : j = i
  BY <1>2, StudentFacts DEF StudentFits, RequestsFitLease
<1>4. Active(s) /\ ~Active(s)'
  BY <1>1, <1>3 DEF Active, ActiveStates
<1>5. b \in Boards /\ worker[b].lid = lease[s].lid /\ lease[s].worker = b
  BY <1>1, <1>4, OwnedFacts DEF Awaiting
<1>6. LeaseFitsCoroutine(s)' /\ HolderKnowsLease(s)' /\ RowsFit(s)'
  BY <1>1 DEF LeaseFitsCoroutine, HolderKnowsLease, RowsFit, Awaiting, Settled
<1>7. RunningOf(s)' = {}
  BY <1>1, <1>3 DEF RunningOf
<1>8. RequestsFitLease(s)'
  BY <1>1, <1>7 DEF RequestsFitLease
<1>9. LidsNameOneBoard'
  BY <1>1, <1>5, StudentWrites DEF KeepsLids
<1> QED
  BY <1>1, <1>4, <1>5, <1>6, <1>8, <1>9, StudentMoves DEF StudentFits, InUse

LEMMA ReleasedFits ==
  ASSUME OwnershipInvariant, CoordinationInvariant, NEW s \in Students, StepOf(s),
         Released(s)
  PROVE  CoordinationInvariant'
<1> DEFINE b == op[s].board
<1>1. /\ op'[s].pc = "free" /\ op'[s].lid = NoLease
      /\ lease'[s].state = "UNASSIGNED" /\ lease'[s].lid = NoLease
      /\ worker'[b].state = "IDLE" /\ worker'[b].lid = NoLease
      /\ \A c \in Boards \ {b} : worker'[c] = worker[c]
      /\ SameRequest(s) /\ leases' = leases /\ op[s].pc = "release"
      /\ StillOwned(s) /\ lease[s].state = "RELEASING"
  BY DEF Released, OpGoesTo, OpBecomes, LeaseBecomes, WorkerBecomes, ReleaseStillWanted
<1>3. Active(s) /\ ~Active(s)'
  BY <1>1 DEF Active, ActiveStates
<1>4. b \in Boards /\ worker[b].lid = lease[s].lid /\ lease[s].worker = b
  BY <1>1, <1>3, OwnedFacts DEF Awaiting
<1>5. LeaseFitsCoroutine(s)' /\ HolderKnowsLease(s)' /\ RowsFit(s)'
  BY <1>1 DEF LeaseFitsCoroutine, HolderKnowsLease, RowsFit, Awaiting, Settled
<1>6. RequestsFitLease(s)'
  BY <1>1, SetsKept, StudentFacts DEF StudentFits, RequestsFitLease
<1>7. LidsNameOneBoard'
  BY <1>1, <1>4, StudentWrites DEF KeepsLids
<1> QED
  BY <1>1, <1>3, <1>4, <1>5, <1>6, <1>7, StudentMoves DEF StudentFits, InUse

LEMMA ReleaseLostFits ==
  ASSUME OwnershipInvariant, CoordinationInvariant, NEW s \in Students, StepOf(s),
         ReleaseLost(s)
  PROVE  CoordinationInvariant'
<1> DEFINE b == op[s].board
<1>1. /\ op'[s].pc = "free" /\ op'[s].lid = NoLease
      /\ lease'[s].state = "ERROR" /\ lease'[s].lid = lease[s].lid
      /\ lease'[s].worker = lease[s].worker
      /\ worker'[b].state = "ERROR" /\ worker'[b].lid = worker[b].lid
      /\ \A c \in Boards \ {b} : worker'[c] = worker[c]
      /\ SameRequest(s) /\ leases' = leases /\ op[s].pc = "release" /\ StillOwned(s)
  BY DEF ReleaseLost, OpGoesTo, OpBecomes, LeaseMoves, LeaseBecomes, WorkerBecomes
<1>2. lease[s].state \in {"RELEASING"} \cup Taken
  BY <1>1, StudentFacts DEF StudentFits, LeaseFitsCoroutine
<1>3. ~Active(s)'
  BY <1>1 DEF Active, ActiveStates
<1>4. b \in Boards /\ worker[b].lid = lease[s].lid /\ (Active(s) => lease[s].worker = b)
  BY <1>1, OwnedFacts DEF Awaiting
<1>5. LeaseFitsCoroutine(s)' /\ HolderKnowsLease(s)' /\ RowsFit(s)'
  BY <1>1 DEF LeaseFitsCoroutine, HolderKnowsLease, RowsFit, Awaiting, Settled
<1>6. RequestsFitLease(s)'
  BY <1>1, <1>2, SetsKept, StudentFacts DEF StudentFits, RequestsFitLease, Taken
<1>7. LidsNameOneBoard'
  BY <1>1, <1>4, StudentWrites DEF KeepsLids
<1> QED
  BY <1>1, <1>3, <1>4, <1>5, <1>6, <1>7, StudentMoves DEF StudentFits, InUse

LEMMA StudentStepFits ==
  ASSUME OwnershipInvariant, CoordinationInvariant, NEW s \in Students, StepOf(s)
  PROVE  CoordinationInvariant'
<1>1. Outcome(s)
  BY DEF StepOf
<1> QED
  BY <1>1, LeavesFits, QueuesFits, ProceedsFits, GrantedFits, IdlesFits, PicksFits,
     DeploysFits, DeployedFits, DeployLostFits, StartsFits, CompletesFits,
     PredictLostFits, ReleasedFits, ReleaseLostFits, SubmitsFits, TakesFits, ReleasesFits
  DEF Outcome

-----------------------------------------------------------------------------
(* Steps of the boards and of the network.                                 *)

LEMMA OutsideFits ==
  ASSUME OwnershipInvariant, CoordinationInvariant, Outside,
         \A t \in Students : /\ op'[t].pc = op[t].pc /\ op'[t].lid = op[t].lid
                             /\ op'[t].board = op[t].board /\ op'[t].req = op[t].req,
         \A b \in Boards : board'[b].lid = NoLease \/ LidOnBoard(board'[b].lid, b),
         \A c \in orphans' : c.lid = NoLease \/ LidOnBoard(c.lid, c.board)
  PROVE  CoordinationInvariant'
<1>1. UNCHANGED <<lease, worker, request, leases, central, unchecked, check>>
  BY DEF Outside
<1>2. ASSUME NEW t \in Students PROVE StudentFits(t)'
  <2>1. StudentFits(t)
    BY DEF CoordinationInvariant
  <2>2. Pending(t)' = Pending(t) /\ RunningOf(t)' = RunningOf(t)
    BY <1>1 DEF Pending, RunningOf
  <2>3. LeaseFitsCoroutine(t)' /\ HolderKnowsLease(t)' /\ RowsFit(t)'
    BY <1>1, <2>1 DEF StudentFits, LeaseFitsCoroutine, HolderKnowsLease, RowsFit, Active
  <2>4. RequestsFitLease(t)'
    BY <1>1, <2>1, <2>2 DEF StudentFits, RequestsFitLease
  <2> QED BY <2>3, <2>4 DEF StudentFits
<1>3. ASSUME NEW b \in Boards PROVE BoardFits(b)'
  BY <1>1 DEF CoordinationInvariant, BoardFits, Active
<1>4. RecoverySettles'
  BY <1>1 DEF CoordinationInvariant, RecoverySettles, Active
<1>5. LidsMove
  BY <1>1 DEF LidsMove, KeepsLids
<1> QED BY <1>2, <1>3, <1>4, <1>5, LidsKept DEF CoordinationInvariant

\* A board takes an id only from a call to it.
LEMMA EffectLids ==
  ASSUME NEW c, NEW ok, Effect(c, ok),
         c.lid = NoLease \/ LidOnBoard(c.lid, c.board)
  PROVE  \A b \in Boards : board'[b].lid = NoLease \/ LidOnBoard(board'[b].lid, b)
<1>1. ASSUME NEW b \in Boards
      PROVE  board'[b].lid \in {NoLease, board[b].lid} \/ (b = c.board /\ board'[b].lid = c.lid)
  BY DEF Effect, BoardBecomes
<1>2. \A b \in Boards : board[b].lid = NoLease \/ LidOnBoard(board[b].lid, b)
  BY DEF LidOnBoard
<1> QED BY <1>1, <1>2

LEMMA CallLid ==
  ASSUME NEW s \in Students
  PROVE  CallOf(s).lid = NoLease \/ LidOnBoard(CallOf(s).lid, CallOf(s).board)
  BY DEF CallOf, LidOnBoard

LEMMA ServedFits ==
  ASSUME OwnershipInvariant, CoordinationInvariant, NEW s \in Students, Served(s)
  PROVE  CoordinationInvariant'
<1>1. \A t \in Students : /\ op'[t].pc = op[t].pc /\ op'[t].lid = op[t].lid
                          /\ op'[t].board = op[t].board /\ op'[t].req = op[t].req
  BY DEF Served, Answered, OpBecomes
<1>2. \A b \in Boards : board'[b].lid = NoLease \/ LidOnBoard(board'[b].lid, b)
  BY EffectLids, CallLid DEF Served
<1>3. \A c \in orphans' : c.lid = NoLease \/ LidOnBoard(c.lid, c.board)
  BY DEF Served, LidOnBoard
<1> QED BY <1>1, <1>2, <1>3, OutsideFits DEF Served

LEMMA ServedLateFits ==
  ASSUME OwnershipInvariant, CoordinationInvariant, ServedLate
  PROVE  CoordinationInvariant'
<1>1. \A c \in orphans : c.lid = NoLease \/ LidOnBoard(c.lid, c.board)
  BY DEF LidOnBoard
<1>2. \A b \in Boards : board'[b].lid = NoLease \/ LidOnBoard(board'[b].lid, b)
  BY <1>1, EffectLids DEF ServedLate
<1> QED BY <1>1, <1>2, OutsideFits DEF ServedLate

LEMMA TimedOutFits ==
  ASSUME OwnershipInvariant, CoordinationInvariant, NEW s \in Students, TimedOut(s)
  PROVE  CoordinationInvariant'
<1>1. \A t \in Students : /\ op'[t].pc = op[t].pc /\ op'[t].lid = op[t].lid
                          /\ op'[t].board = op[t].board /\ op'[t].req = op[t].req
  BY DEF TimedOut, Answered, OpBecomes
<1>2. \A b \in Boards : board'[b].lid = NoLease \/ LidOnBoard(board'[b].lid, b)
  BY DEF TimedOut, LidOnBoard
<1>3. \A c \in orphans : c.lid = NoLease \/ LidOnBoard(c.lid, c.board)
  BY DEF LidOnBoard
<1>4. \A c \in orphans' : c.lid = NoLease \/ LidOnBoard(c.lid, c.board)
  BY <1>3, CallLid DEF TimedOut
<1> QED BY <1>1, <1>2, <1>4, OutsideFits DEF TimedOut

LEMMA RestartedFits ==
  ASSUME OwnershipInvariant, CoordinationInvariant, NEW b \in Boards, Restarted(b)
  PROVE  CoordinationInvariant'
<1>1. \A t \in Students : /\ op'[t].pc = op[t].pc /\ op'[t].lid = op[t].lid
                          /\ op'[t].board = op[t].board /\ op'[t].req = op[t].req
  BY DEF Restarted, Answered, OpBecomes
<1>2. \A c \in Boards : board'[c].lid = NoLease \/ LidOnBoard(board'[c].lid, c)
  BY DEF Restarted, BoardBecomes, LidOnBoard
<1>3. \A c \in orphans' : c.lid = NoLease \/ LidOnBoard(c.lid, c.board)
  BY DEF Restarted, LidOnBoard
<1> QED BY <1>1, <1>2, <1>3, OutsideFits DEF Restarted

-----------------------------------------------------------------------------
(* Steps of time, the reaper and the registry. No coroutine is between two *)
(* awaits meanwhile.                                                       *)

\* Ids that stay where they are, or go from a board into its check or its row.
LEMMA RowLids ==
  ASSUME CoordinationInvariant, UNCHANGED <<leases, op, board, orphans>>,
         \A t \in Students : lease'[t].lid = NoLease \/ (lease'[t].lid = lease[t].lid
                                                  /\ lease'[t].worker = lease[t].worker),
         \A b \in Boards : /\ worker'[b].lid \in {NoLease, worker[b].lid, check[b].lid}
                           /\ check'[b].lid \in {NoLease, check[b].lid, board[b].lid}
  PROVE  LidsNameOneBoard'
<1>1. \A b \in Boards : board[b].lid = NoLease \/ LidOnBoard(board[b].lid, b)
  BY DEF LidOnBoard
<1>2. \A c \in orphans : c.lid = NoLease \/ LidOnBoard(c.lid, c.board)
  BY DEF LidOnBoard
<1>3. LidsMove
  BY <1>1, <1>2 DEF LidsMove, KeepsLids
<1> QED BY <1>3, LidsKept DEF CoordinationInvariant

\* Steps that leave the rows alone.
LEMMA RowsRestFit ==
  ASSUME OwnershipInvariant, CoordinationInvariant, SameRows, SameWorkers,
         UNCHANGED <<leases, central, unchecked, op, board, orphans>>,
         \A b \in Boards : check'[b].lid \in {NoLease, check[b].lid, board[b].lid}
  PROVE  CoordinationInvariant'
<1>1. \A t \in Students : /\ lease'[t].state = lease[t].state
                          /\ lease'[t].worker = lease[t].worker
                          /\ lease'[t].lid = lease[t].lid
  BY DEF SameRows, LeaseKept, LeaseMoves, LeaseBecomes
<1>2. ASSUME NEW t \in Students PROVE StudentFits(t)'
  <2>1. Active(t) => lease[t].worker \in Boards
    BY DEF OwnershipInvariant, LeaseOwnsBoard
  <2> QED BY <2>1, StudentRests DEF CoordinationInvariant, SameRows, SameWorkers
<1>3. ASSUME NEW b \in Boards PROVE BoardFits(b)'
  BY <1>1 DEF CoordinationInvariant, BoardFits, Active, SameWorkers
<1>4. RecoverySettles'
  BY <1>1 DEF CoordinationInvariant, RecoverySettles, Active
<1>5. LidsNameOneBoard'
  BY <1>1, RowLids DEF SameWorkers
<1> QED BY <1>2, <1>3, <1>4, <1>5 DEF CoordinationInvariant

LEMMA QuietFits ==
  ASSUME OwnershipInvariant, CoordinationInvariant, Quiet
  PROVE  CoordinationInvariant'
  BY RowsRestFit DEF Quiet

LEMMA ReportsFits ==
  ASSUME OwnershipInvariant, CoordinationInvariant, NEW b \in Boards, Reports(b)
  PROVE  CoordinationInvariant'
  BY RowsRestFit DEF Reports

LEMMA ReapsFits ==
  ASSUME OwnershipInvariant, CoordinationInvariant, Reaps
  PROVE  CoordinationInvariant'
<1>1. /\ central = "up" /\ SameWorkers
      /\ UNCHANGED <<request, leases, central, unchecked, op, check, board, orphans>>
  BY DEF Reaps, EventLoopFree
<1>2. ASSUME NEW t \in Students PROVE Active(t)' <=> Active(t)
  BY DEF Reaps, LeaseKept, LeaseMoves, LeaseBecomes, Active, ActiveStates
<1>3. ASSUME NEW t \in Students, Active(t)
      PROVE  lease'[t].worker = lease[t].worker
  BY <1>3 DEF Reaps, LeaseKept, LeaseMoves, LeaseBecomes, Active, ActiveStates
<1>4. ASSUME NEW t \in Students PROVE StudentFits(t)'
  <2>1. CASE LeaseKept(t)
    <3>1. Active(t) => lease[t].worker \in Boards
      BY DEF OwnershipInvariant, LeaseOwnsBoard
    <3> QED
      BY <1>1, <2>1, <3>1, StudentRests
      DEF CoordinationInvariant, SameRequest, SameWorkers
  <2>2. CASE /\ lease[t].state \in {"LOST", "ERROR"}
             /\ LeaseBecomes(t, "QUEUED", None, NoLease, NoArtifact)
    <3>1. StudentFits(t)
      BY DEF CoordinationInvariant
    <3>2. lease'[t].state = "QUEUED" /\ lease[t].state \in {"LOST", "ERROR"}
      BY <2>2 DEF LeaseBecomes
    <3>3. Pending(t)' = Pending(t) /\ RunningOf(t)' = RunningOf(t)
      BY <1>1 DEF Pending, RunningOf
    <3>4. LeaseFitsCoroutine(t)'
      BY <1>1, <3>1, <3>2 DEF StudentFits, LeaseFitsCoroutine, Settled, Taken
    <3>5. HolderKnowsLease(t)' /\ RowsFit(t)'
      BY <3>2 DEF HolderKnowsLease, RowsFit, Active, ActiveStates
    <3>6. RequestsFitLease(t)'
      BY <1>1, <3>1, <3>2, <3>3 DEF StudentFits, RequestsFitLease
    <3> QED BY <3>4, <3>5, <3>6 DEF StudentFits
  <2> QED BY <2>1, <2>2 DEF Reaps
<1>5. ASSUME NEW b \in Boards PROVE BoardFits(b)'
  BY <1>1, <1>2, <1>3 DEF CoordinationInvariant, BoardFits, SameWorkers
<1>6. RecoverySettles'
  BY <1>1 DEF CoordinationInvariant, RecoverySettles
<1>7. LidsNameOneBoard'
  <2>1. \A t \in Students : lease'[t].lid = NoLease \/ (lease'[t].lid = lease[t].lid
                                                /\ lease'[t].worker = lease[t].worker)
    BY DEF Reaps, LeaseKept, LeaseMoves, LeaseBecomes
  <2> QED BY <1>1, <2>1, RowLids DEF SameWorkers
<1> QED BY <1>4, <1>5, <1>6, <1>7 DEF CoordinationInvariant

\* The lease that a board's row points at is one on this board, and it is the only one.
LEMMA LeaseOfBoard ==
  ASSUME OwnershipInvariant, CoordinationInvariant, NEW b \in Boards, NEW s \in Students
  PROVE  /\ IsLeaseOf(s, b) <=> Active(s) /\ lease[s].worker = b
         /\ IsLeaseOf(s, b) => \A t \in Students : IsLeaseOf(t, b) => t = s
<1>1. Active(s) => /\ lease[s].lid # NoLease /\ lease[s].worker \in Boards
                   /\ worker[lease[s].worker].lid = lease[s].lid
  BY DEF OwnershipInvariant, LeaseOwnsBoard
<1>2. lease[s].lid \in 0 .. leases
  <2>1. lease[s] \in Lease /\ leases \in Nat /\ lease[s].lid <= leases
    BY DEF OwnershipInvariant, TypeOK, LidsAreDrawn
  <2>2. lease[s].lid \in Nat
    BY <2>1 DEF Lease
  <2> QED BY <2>1, <2>2
<1>3. IsLeaseOf(s, b) => Active(s) /\ lease[s].worker = b
  BY <1>1, <1>2 DEF IsLeaseOf, Active, CoordinationInvariant, LidsNameOneBoard, LidOnBoard
<1>4. Active(s) /\ lease[s].worker = b => IsLeaseOf(s, b)
  BY <1>1 DEF IsLeaseOf, Active
<1>5. IsLeaseOf(s, b) => \A t \in Students : IsLeaseOf(t, b) => t = s
  BY DEF IsLeaseOf, OwnershipInvariant, LidsAreUnique
<1> QED BY <1>3, <1>4, <1>5

\* When a check of a board ends, the holder of the lock of its lease rests or awaits a call.
LEMMA CheckFinds ==
  ASSUME OwnershipInvariant, CoordinationInvariant, NEW b \in Boards, Checked(b),
         NEW s \in Students
  PROVE  /\ StudentFits(s) /\ central \in {"up", "recovering"}
         /\ op[s].pc \in {"free"} \cup Awaiting
         /\ central = "recovering" => op[s].pc = "free" /\ lease[s].state # "BUSY"
         /\ op'[s] = op[s] /\ central' = central
<1>1. op[s].pc \in {"free"} \cup Running \cup Awaiting
  BY DEF OwnershipInvariant, TypeOK, Op
<1>2. central \in {"up", "recovering"} /\ (central = "up" => EventLoopFree)
  BY DEF Checked, MayCheck, EventLoopFree
<1>3. op[s].pc \notin Running
  BY <1>2, NobodyRuns
<1>4. central = "recovering" => op[s].pc = "free" /\ lease[s].state # "BUSY"
  BY DEF OwnershipInvariant, OnlyUpHasTasks, FreeOp, CoordinationInvariant, RecoverySettles
<1> QED BY <1>1, <1>2, <1>3, <1>4 DEF CoordinationInvariant, Checked

\* A check changes at most the row of its board and the lease that row points at.
LEMMA CheckMoves ==
  ASSUME OwnershipInvariant, CoordinationInvariant, NEW b \in Boards, Checked(b),
         \A c \in Boards \ {b} : worker'[c] = worker[c],
         worker'[b].lid \in {NoLease, worker[b].lid, check[b].lid},
         \A t \in Students : ~IsLeaseOf(t, b) => SameLease(t) /\ SameRequest(t),
         \A t \in Students : IsLeaseOf(t, b) =>
           /\ lease'[t].worker = lease[t].worker /\ lease'[t].lid = lease[t].lid
           /\ lease'[t].state \in {"READY", "LOST"} /\ StudentFits(t)',
         worker'[b].state \in InUse
           <=> \E t \in Students : IsLeaseOf(t, b) /\ lease'[t].state = "READY"
  PROVE  CoordinationInvariant'
<1>1. /\ UNCHANGED <<leases, central, op, board, orphans>> /\ unchecked' = unchecked \ {b}
      /\ check'[b].lid = NoLease /\ \A c \in Boards \ {b} : check'[c] = check[c]
  BY DEF Checked
<1>2. ASSUME NEW t \in Students PROVE StudentFits(t)'
  <2>1. CASE ~IsLeaseOf(t, b)
    <3>1. Active(t) => lease[t].worker \in Boards \ {b}
      BY <2>1, LeaseOfBoard DEF OwnershipInvariant, LeaseOwnsBoard
    <3>2. LeaseKept(t) /\ SameRequest(t)
      BY <2>1 DEF SameLease, LeaseKept, LeaseMoves, LeaseBecomes
    <3> QED BY <1>1, <3>1, <3>2, StudentRests DEF CoordinationInvariant
  <2> QED BY <2>1
<1>3. ASSUME NEW t \in Students, ~IsLeaseOf(t, b)
      PROVE  /\ lease'[t] = lease[t] /\ (Active(t)' <=> Active(t))
             /\ Active(t) => lease[t].worker # b
  BY <1>3, LeaseOfBoard DEF SameLease, Active
<1>4. ASSUME NEW t \in Students, IsLeaseOf(t, b)
      PROVE  /\ lease[t].worker = b /\ lease'[t].worker = b
             /\ Active(t)' <=> lease'[t].state = "READY"
  BY <1>4, LeaseOfBoard DEF Active, ActiveStates
<1>5. ASSUME NEW c \in Boards PROVE BoardFits(c)'
  <2>1. CASE c = b
    BY <1>3, <1>4, <2>1 DEF BoardFits
  <2>2. CASE c # b
    <3>1. BoardFits(c) /\ worker'[c] = worker[c]
      BY <2>2 DEF CoordinationInvariant
    <3>2. \A t \in Students : Active(t)' /\ lease'[t].worker = c
                                <=> Active(t) /\ lease[t].worker = c
      BY <1>3, <1>4, <2>2
    <3> QED BY <1>1, <2>2, <3>1, <3>2 DEF BoardFits
  <2> QED BY <2>1, <2>2
<1>6. RecoverySettles'
  BY <1>1, <1>3, <1>4 DEF CoordinationInvariant, RecoverySettles, Active
<1>7. LidsNameOneBoard'
  <2>1. \A t \in Students : lease'[t].lid = lease[t].lid /\ lease'[t].worker = lease[t].worker
    BY <1>3
  <2> QED BY <1>1, <2>1, RowLids
<1> QED BY <1>2, <1>5, <1>6, <1>7 DEF CoordinationInvariant

LEMMA SparedFits ==
  ASSUME OwnershipInvariant, CoordinationInvariant, NEW b \in Boards, Spared(b)
  PROVE  CoordinationInvariant'
<1>1. /\ SameRows /\ SameWorkers /\ UNCHANGED <<leases, central, op, board, orphans>>
  BY DEF Spared, Checked, SameRows, LeaseKept, LeaseMoves, LeaseBecomes, SameRequest
<1>2. unchecked' = unchecked
  BY DEF Spared, Checked, CoordinationInvariant, RecoverySettles
<1>3. \A c \in Boards : check'[c].lid \in {NoLease, check[c].lid, board[c].lid}
  BY DEF Spared, Checked
<1> QED BY <1>1, <1>2, <1>3, RowsRestFit

LEMMA ConfirmsFits ==
  ASSUME OwnershipInvariant, CoordinationInvariant, NEW b \in Boards, NEW s \in Students,
         Confirms(b, s)
  PROVE  CoordinationInvariant'
<1>1. /\ Checked(b) /\ IsLeaseOf(s, b) /\ (central = "up" => lease[s].state = "READY")
      /\ lease'[s].state = "READY" /\ lease'[s].worker = lease[s].worker
      /\ lease'[s].lid = lease[s].lid /\ request' = request
      /\ worker'[b].state = "READY" /\ worker'[b].lid = worker[b].lid
      /\ \A c \in Boards \ {b} : worker'[c] = worker[c]
      /\ \A t \in Students \ {s} : lease'[t] = lease[t]
  BY DEF Confirms, Settles, LeaseMoves, LeaseBecomes, WorkerBecomes
<1>2. \A t \in Students : IsLeaseOf(t, b) => t = s
  BY <1>1, LeaseOfBoard
<1>3. /\ StudentFits(s) /\ op[s].pc = "free" /\ op'[s] = op[s] /\ lease[s].state # "BUSY"
  BY <1>1, CheckFinds DEF StudentFits, LeaseFitsCoroutine, Awaiting, Taken
<1>4. StudentFits(s)'
  <2>1. LeaseFitsCoroutine(s)' /\ HolderKnowsLease(s)' /\ RowsFit(s)'
    BY <1>1, <1>3 DEF LeaseFitsCoroutine, HolderKnowsLease, RowsFit, Settled, Awaiting
  <2>2. RunningOf(s)' = {}
    BY <1>1, <1>3 DEF StudentFits, RequestsFitLease, RunningOf
  <2>3. RequestsFitLease(s)'
    BY <1>1, <1>3, <2>2 DEF RequestsFitLease
  <2> QED BY <2>1, <2>3 DEF StudentFits
<1>5. \A t \in Students : ~IsLeaseOf(t, b) => SameLease(t) /\ SameRequest(t)
  BY <1>1 DEF SameLease, SameRequest
<1> QED BY <1>1, <1>2, <1>4, <1>5, CheckMoves DEF InUse

LEMMA DeniesFits ==
  ASSUME OwnershipInvariant, CoordinationInvariant, NEW b \in Boards, NEW s \in Students,
         Denies(b, s)
  PROVE  CoordinationInvariant'
<1>1. /\ Checked(b) /\ IsLeaseOf(s, b) /\ (central = "up" => lease[s].state = "READY")
      /\ lease'[s].state = "LOST" /\ lease'[s].worker = lease[s].worker
      /\ lease'[s].lid = lease[s].lid /\ request' = request
      /\ worker'[b].state = "ERROR" /\ worker'[b].lid = worker[b].lid
      /\ \A c \in Boards \ {b} : worker'[c] = worker[c]
      /\ \A t \in Students \ {s} : lease'[t] = lease[t]
  BY DEF Denies, Settles, LeaseMoves, LeaseBecomes, WorkerBecomes
<1>2. \A t \in Students : IsLeaseOf(t, b) => t = s
  BY <1>1, LeaseOfBoard
<1>3. /\ StudentFits(s) /\ op[s].pc = "free" /\ op'[s] = op[s] /\ lease[s].state # "BUSY"
  BY <1>1, CheckFinds DEF StudentFits, LeaseFitsCoroutine, Awaiting, Taken
<1>4. StudentFits(s)'
  <2>1. LeaseFitsCoroutine(s)' /\ HolderKnowsLease(s)' /\ RowsFit(s)'
    BY <1>1, <1>3 DEF LeaseFitsCoroutine, HolderKnowsLease, RowsFit, Settled, Awaiting
  <2>2. RunningOf(s)' = {}
    BY <1>1, <1>3 DEF StudentFits, RequestsFitLease, RunningOf
  <2>3. RequestsFitLease(s)'
    BY <1>1, <1>3, <2>2 DEF RequestsFitLease
  <2> QED BY <2>1, <2>3 DEF StudentFits
<1>5. \A t \in Students : ~IsLeaseOf(t, b) => SameLease(t) /\ SameRequest(t)
  BY <1>1 DEF SameLease, SameRequest
<1> QED BY <1>1, <1>2, <1>4, <1>5, CheckMoves DEF InUse

LEMMA ClearsFits ==
  ASSUME OwnershipInvariant, CoordinationInvariant, NEW b \in Boards, Clears(b)
  PROVE  CoordinationInvariant'
<1>1. /\ Checked(b) /\ \A t \in Students : ~IsLeaseOf(t, b) /\ SameLease(t) /\ SameRequest(t)
      /\ worker'[b].state \in {"ERROR", "IDLE"} /\ worker'[b].lid \in {NoLease, check[b].lid}
      /\ \A c \in Boards \ {b} : worker'[c] = worker[c]
  BY DEF Clears, WorkerBecomes, SameLease, SameRequest
<1> QED BY <1>1, CheckMoves DEF InUse

LEMMA OfflineFits ==
  ASSUME OwnershipInvariant, CoordinationInvariant, NEW b \in Boards, Offline(b)
  PROVE  CoordinationInvariant'
<1>1. /\ Checked(b) /\ worker'[b].state = "OFFLINE" /\ worker'[b].lid = worker[b].lid
      /\ \A c \in Boards \ {b} : worker'[c] = worker[c]
  BY DEF Offline, WorkerBecomes
<1>2. ASSUME NEW t \in Students, IsLeaseOf(t, b)
      PROVE  /\ lease'[t].state = "LOST" /\ lease'[t].worker = lease[t].worker
             /\ lease'[t].lid = lease[t].lid /\ FailsRunning(t)
  BY <1>2 DEF Offline, LeaseMoves, LeaseBecomes
<1>3. ASSUME NEW t \in Students, ~IsLeaseOf(t, b) PROVE SameLease(t) /\ SameRequest(t)
  BY <1>3 DEF Offline
<1>4. ASSUME NEW t \in Students, IsLeaseOf(t, b) PROVE StudentFits(t)'
  <2>1. /\ StudentFits(t) /\ op[t].pc \in {"free"} \cup Awaiting
        /\ op'[t] = op[t] /\ central' = central
    BY <1>1, CheckFinds
  <2>2. RunningOf(t)' = {}
    BY <1>2, <1>4 DEF FailsRunning, RunningOf
  <2>3. LeaseFitsCoroutine(t)' /\ HolderKnowsLease(t)' /\ RowsFit(t)'
    BY <1>2, <1>4, <2>1
    DEF LeaseFitsCoroutine, HolderKnowsLease, RowsFit, Settled, Taken, Awaiting, Active,
        ActiveStates
  <2>4. RequestsFitLease(t)'
    BY <1>2, <1>4, <2>2 DEF RequestsFitLease
  <2> QED BY <2>3, <2>4 DEF StudentFits
<1> QED BY <1>1, <1>2, <1>3, <1>4, CheckMoves DEF InUse

-----------------------------------------------------------------------------
(* Central dies and comes back.                                            *)

LEMMA CrashedFits ==
  ASSUME OwnershipInvariant, CoordinationInvariant, Crashed
  PROVE  CoordinationInvariant'
<1>1. /\ central' = "down" /\ unchecked' = {} /\ leases' = leases /\ SameWorkers
      /\ \A t \in Students : /\ op'[t].pc = "free" /\ op'[t].lid = NoLease
                             /\ lease'[t] = lease[t] /\ SameRequest(t)
      /\ \A b \in Boards : check'[b].lid = NoLease
      /\ board' = board
      /\ orphans' = orphans \cup {CallOf(s) : s \in {t \in Students : op[t].reply = "pending"}}
  BY DEF Crashed, FreeOp
<1>2. ASSUME NEW t \in Students PROVE StudentFits(t)'
  <2>1. StudentFits(t)
    BY DEF CoordinationInvariant
  <2>2. LeaseFitsCoroutine(t)' /\ HolderKnowsLease(t)' /\ RowsFit(t)'
    BY <1>1 DEF LeaseFitsCoroutine, HolderKnowsLease, RowsFit, Awaiting
  <2>3. RequestsFitLease(t)'
    BY <1>1, <2>1, SetsKept DEF StudentFits, RequestsFitLease, SameRequest
  <2> QED BY <2>2, <2>3 DEF StudentFits
<1>3. ASSUME NEW b \in Boards PROVE BoardFits(b)'
  BY <1>1 DEF BoardFits
<1>4. RecoverySettles'
  BY <1>1 DEF RecoverySettles
<1>5. LidsMove
  <2>1. \A b \in Boards : board[b].lid = NoLease \/ LidOnBoard(board[b].lid, b)
    BY DEF LidOnBoard
  <2>2. \A c \in orphans : c.lid = NoLease \/ LidOnBoard(c.lid, c.board)
    BY DEF LidOnBoard
  <2>3. \A c \in orphans' : c.lid = NoLease \/ LidOnBoard(c.lid, c.board)
    BY <1>1, <2>2, CallLid
  <2> QED BY <1>1, <2>1, <2>3 DEF LidsMove, KeepsLids, SameWorkers
<1> QED BY <1>2, <1>3, <1>4, <1>5, LidsKept DEF CoordinationInvariant

LEMMA RecoversFits ==
  ASSUME OwnershipInvariant, CoordinationInvariant, Recovers
  PROVE  CoordinationInvariant'
<1>1. /\ central' = "recovering" /\ unchecked' = Boards /\ SameWorkers
      /\ UNCHANGED <<leases, op, check, board, orphans>>
      /\ \A t \in Students : op[t].pc = "free"
  BY DEF Recovers, OwnershipInvariant, OnlyUpHasTasks, FreeOp
<1>2. ASSUME NEW t \in Students
      PROVE  /\ StudentFits(t)' /\ lease'[t].state # "BUSY"
             /\ Active(t)' => lease'[t].worker \in Boards
             /\ lease'[t].worker = lease[t].worker /\ lease'[t].lid = lease[t].lid
  <2>1. StudentFits(t) /\ FailsRunning(t)
    BY DEF CoordinationInvariant, Recovers
  <2>2. /\ RunningOf(t) # {} => lease'[t].state = "LOST"
        /\ RunningOf(t) = {} => lease'[t].state = lease[t].state
        /\ lease'[t].worker = lease[t].worker /\ lease'[t].lid = lease[t].lid
    BY DEF Recovers, LeaseMoves, LeaseBecomes, SameLease
  <2>3. RunningOf(t)' = {} /\ (RunningOf(t) = {} => Pending(t)' = Pending(t))
    BY <2>1 DEF FailsRunning, RunningOf, Pending
  <2>4. lease'[t].state # "BUSY"
    BY <2>1, <2>2 DEF StudentFits, RequestsFitLease
  <2>5. Active(t)' => lease'[t].worker \in Boards
    BY <2>2 DEF Active, ActiveStates, OwnershipInvariant, LeaseOwnsBoard
  <2>6. LeaseFitsCoroutine(t)' /\ HolderKnowsLease(t)' /\ RowsFit(t)'
    BY <1>1 DEF LeaseFitsCoroutine, HolderKnowsLease, RowsFit, Awaiting
  <2>7. RequestsFitLease(t)'
    BY <2>1, <2>2, <2>3, <2>4 DEF StudentFits, RequestsFitLease
  <2> QED BY <2>2, <2>4, <2>5, <2>6, <2>7 DEF StudentFits
<1>3. ASSUME NEW b \in Boards PROVE BoardFits(b)'
  BY <1>1 DEF BoardFits
<1>4. RecoverySettles'
  BY <1>1, <1>2 DEF RecoverySettles
<1>5. LidsNameOneBoard'
  BY <1>1, <1>2, RowLids DEF SameWorkers
<1> QED BY <1>2, <1>3, <1>4, <1>5 DEF CoordinationInvariant

LEMMA ServesFits ==
  ASSUME OwnershipInvariant, CoordinationInvariant, Serves
  PROVE  CoordinationInvariant'
<1>1. /\ central = "recovering" /\ unchecked = {} /\ central' = "up" /\ unchecked' = {}
      /\ UNCHANGED <<lease, worker, request, leases, op, check, board, orphans>>
      /\ \A t \in Students : op[t].pc = "free"
  BY DEF Serves, OwnershipInvariant, OnlyUpHasTasks, FreeOp
<1>2. ASSUME NEW t \in Students PROVE StudentFits(t)'
  <2>1. StudentFits(t) /\ lease[t].state \in Settled
    BY <1>1
    DEF CoordinationInvariant, RecoverySettles, Active, ActiveStates, Settled,
        OwnershipInvariant, TypeOK, Lease, LeaseStates
  <2>2. LeaseFitsCoroutine(t)' /\ HolderKnowsLease(t)' /\ RowsFit(t)'
    BY <1>1, <2>1 DEF LeaseFitsCoroutine, HolderKnowsLease, RowsFit, Awaiting, Settled
  <2>3. Pending(t)' = Pending(t) /\ RunningOf(t)' = RunningOf(t)
    BY <1>1 DEF Pending, RunningOf
  <2>4. RequestsFitLease(t)'
    BY <1>1, <2>1, <2>3 DEF StudentFits, RequestsFitLease
  <2> QED BY <2>2, <2>4 DEF StudentFits
<1>3. ASSUME NEW b \in Boards PROVE BoardFits(b)'
  BY <1>1 DEF CoordinationInvariant, BoardFits, Active
<1>4. RecoverySettles'
  BY <1>1 DEF RecoverySettles
<1>5. LidsNameOneBoard'
  BY <1>1, RowLids
<1> QED BY <1>2, <1>3, <1>4, <1>5 DEF CoordinationInvariant

-----------------------------------------------------------------------------
LEMMA InitialCoordination ==
  Init => CoordinationInvariant
<1> SUFFICES ASSUME Init PROVE CoordinationInvariant
  OBVIOUS
<1>1. ASSUME NEW s \in Students
      PROVE  /\ lease[s].state = "UNASSIGNED" /\ lease[s].lid = NoLease
             /\ op[s].pc = "free" /\ op[s].lid = NoLease
             /\ RunningOf(s) = {} /\ Pending(s) = {}
  BY DEF Init, FreeOp, RunningOf, Pending
<1>2. ASSUME NEW s \in Students PROVE StudentFits(s)
  <2>1. LeaseFitsCoroutine(s) /\ HolderKnowsLease(s) /\ RowsFit(s)
    BY <1>1 DEF LeaseFitsCoroutine, HolderKnowsLease, RowsFit, Settled, Awaiting
  <2>2. RequestsFitLease(s)
    BY <1>1 DEF RequestsFitLease
  <2> QED BY <2>1, <2>2 DEF StudentFits
<1>3. ASSUME NEW b \in Boards PROVE BoardFits(b)
  BY DEF Init, BoardFits
<1>4. RecoverySettles
  BY DEF Init, RecoverySettles
<1>5. LidsNameOneBoard
  <2>1. ASSUME NEW l, NEW b \in Boards PROVE ~LidOnBoard(l, b)
    BY <1>1 DEF Init, LidOnBoard, NoStatus
  <2> QED BY <2>1 DEF LidsNameOneBoard
<1> QED BY <1>2, <1>3, <1>4, <1>5 DEF CoordinationInvariant

LEMMA EveryStepFits ==
  OwnershipInvariant /\ CoordinationInvariant /\ [Next]_vars => CoordinationInvariant'
<1> SUFFICES ASSUME OwnershipInvariant, CoordinationInvariant, [Next]_vars
             PROVE  CoordinationInvariant'
  OBVIOUS
<1>1. CASE UNCHANGED vars
  BY <1>1, NothingMoves, QuietFits DEF vars, database, tasks, world
<1>2. CASE Next
  BY <1>2, StepKinds, StudentStepFits, ServedFits, TimedOutFits, ReportsFits, SparedFits,
     ClearsFits, OfflineFits, RestartedFits, ConfirmsFits, DeniesFits, QuietFits, ReapsFits,
     ServedLateFits, CrashedFits, RecoversFits, ServesFits
<1> QED BY <1>1, <1>2

-----------------------------------------------------------------------------
(* The coroutines, leases, requests and boards of Central stay coordinated *)
(* in every reachable state: CoordinationInvariant holds, whatever         *)
(* crashes, times out or arrives late.                                     *)
THEOREM CoordinationHolds == Spec => []CoordinationInvariant
<1>1. Init => CoordinationInvariant
  BY InitialCoordination
<1>2. OwnershipInvariant /\ CoordinationInvariant /\ [Next]_vars => CoordinationInvariant'
  BY EveryStepFits
<1> QED BY <1>1, <1>2, InvariantHolds, PTL DEF Spec

LEMMA CoordinationImplies ==
  OwnershipInvariant /\ CoordinationInvariant =>
    TransientLeaseHasTask /\ RunningIffBusy /\ ReleasingHasNoWork /\ RowsInStep
    /\ NoLeakedBoard
<1> SUFFICES ASSUME OwnershipInvariant, CoordinationInvariant
             PROVE  TransientLeaseHasTask /\ RunningIffBusy /\ ReleasingHasNoWork
                    /\ RowsInStep /\ NoLeakedBoard
  OBVIOUS
<1>1. \A s \in Students :
        /\ StudentFits(s) /\ op[s].pc \in {"free"} \cup Running \cup Awaiting
        /\ lease[s].state \in LeaseStates
  BY DEF CoordinationInvariant, OwnershipInvariant, TypeOK, Op, Lease
<1>2. TransientLeaseHasTask
  BY <1>1
  DEF TransientLeaseHasTask, StudentFits, LeaseFitsCoroutine, Settled, Taken, Running,
      Awaiting
<1>3. RunningIffBusy /\ ReleasingHasNoWork
  BY <1>1 DEF RunningIffBusy, ReleasingHasNoWork, StudentFits, RequestsFitLease
<1>4. RowsInStep
  BY <1>1 DEF RowsInStep, StudentFits, RowsFit
<1>5. NoLeakedBoard
  BY DEF CoordinationInvariant, RecoverySettles, BoardFits, InUse, NoLeakedBoard
<1> QED BY <1>2, <1>3, <1>4, <1>5

(* While Central is up no lease is left in a transient state without the   *)
(* coroutine that takes it out of it, and none that is READY has one that  *)
(* awaits a board (lease_manager.py keeps both in step across its awaits). *)
THEOREM TransientLeasesHaveTasks == Spec => []TransientLeaseHasTask
<1>1. OwnershipInvariant /\ CoordinationInvariant => TransientLeaseHasTask
  BY CoordinationImplies
<1> QED BY <1>1, InvariantHolds, CoordinationHolds, PTL

(* A student's request is RUNNING exactly while his lease is BUSY, on that *)
(* lease's board, at most one at a time, crashes and losses included.      *)
THEOREM RunsExactlyWhileBusy == Spec => []RunningIffBusy
<1>1. OwnershipInvariant /\ CoordinationInvariant => RunningIffBusy
  BY CoordinationImplies
<1> QED BY <1>1, InvariantHolds, CoordinationHolds, PTL

(* No board is taken back from a student who has work, although            *)
(* _release_locked looks at the requests long before its call returns.     *)
THEOREM ReleasesOnlyTheIdle == Spec => []ReleasingHasNoWork
<1>1. OwnershipInvariant /\ CoordinationInvariant => ReleasingHasNoWork
  BY CoordinationImplies
<1> QED BY <1>1, InvariantHolds, CoordinationHolds, PTL

(* The rows of a lease in use and of its board are in matching states      *)
(* between any two transactions (KV260_PYNQ_Framework.md, 8.5).            *)
THEOREM RowsStayInStep == Spec => []RowsInStep
<1>1. OwnershipInvariant /\ CoordinationInvariant => RowsInStep
  BY CoordinationImplies
<1> QED BY <1>1, InvariantHolds, CoordinationHolds, PTL

(* While Central is up a board is in use exactly when some student's lease *)
(* uses it: no failure, loss or restart leaks a board.                     *)
THEOREM NoBoardLeaks == Spec => []NoLeakedBoard
<1>1. OwnershipInvariant /\ CoordinationInvariant => NoLeakedBoard
  BY CoordinationImplies
<1> QED BY <1>1, InvariantHolds, CoordinationHolds, PTL
=============================================================================
