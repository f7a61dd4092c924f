---------------------------- MODULE RefinementProofs ----------------------------
(***************************************************************************)
(* TLAPS proofs that Central implements the abstract specifications of its *)
(* parts: every step of Central maps to a step of the abstract one or      *)
(* leaves its variables alone.                                             *)
(***************************************************************************)
EXTENDS OverlayProofs

-----------------------------------------------------------------------------
(* The boards: LeasedBoard.                                                *)

\* A call that comes with a drawn id and artifact does to its board what LeasedBoard allows.
LEMMA EffectIsLeasedBoard ==
  ASSUME Groundwork, NEW c, CallCarries(c), NEW ok \in BOOLEAN, Effect(c, ok),
         NEW b \in Boards
  PROVE  LeasedBoard(b)!BoardNext \/ UNCHANGED board[b]
<1>1. CASE board' = board \/ b # c.board
  BY <1>1 DEF Effect, BoardBecomes
<1>2. CASE b = c.board /\ BoardBecomes(b, NoLease, NoArtifact, FALSE)
  BY <1>2 DEF BoardBecomes, LeasedBoard!BoardNext, LeasedBoard!Freed, NoLease, NoArtifact
<1>3. CASE b = c.board /\ BoardBecomes(b, board[b].lid, board[b].art, FALSE)
  BY <1>3 DEF BoardBecomes, LeasedBoard!BoardNext, LeasedBoard!Unready
<1>4. CASE /\ b = c.board /\ c.kind = "deploy" /\ MayDeploy(c)
           /\ BoardBecomes(b, c.lid, c.art, TRUE)
  <2>1. c.lid # 0 /\ c.art # 0
    BY <1>4 DEF CallCarries, Carried, Drawn, NoLease
  <2> QED
    BY <1>4, <2>1
    DEF BoardBecomes, MayDeploy, LeasedBoard!BoardNext, LeasedBoard!Deployed, NoLease
<1> QED BY <1>1, <1>2, <1>3, <1>4 DEF Effect

LEMMA StepIsLeasedBoard ==
  ASSUME Groundwork, Next, NEW b \in Boards
  PROVE  LeasedBoard(b)!BoardNext \/ UNCHANGED board[b]
<1>0. OwnershipInvariant /\ ArtifactsAreOwn
  BY DEF Groundwork
<1>1. ASSUME NEW s \in Students, StepOf(s) \/ TimedOut(s) PROVE UNCHANGED board[b]
  BY <1>1 DEF StepOf, TimedOut
<1>2. ASSUME NEW s \in Students, Served(s)
      PROVE  LeasedBoard(b)!BoardNext \/ UNCHANGED board[b]
  <2>1. CallCarries(CallOf(s)) /\ \E ok \in BOOLEAN : Effect(CallOf(s), ok)
    BY <1>0, <1>2, EverybodyCarries DEF Served
  <2> QED BY <2>1, EffectIsLeasedBoard
<1>3. ASSUME ServedLate
      PROVE  LeasedBoard(b)!BoardNext \/ UNCHANGED board[b]
  <2>1. \E c \in orphans : CallCarries(c) /\ \E ok \in BOOLEAN : Effect(c, ok)
    BY <1>0, <1>3, EverybodyCarries DEF ServedLate
  <2> QED BY <2>1, EffectIsLeasedBoard
<1>4. ASSUME NEW c \in Boards, Restarted(c)
      PROVE  LeasedBoard(b)!BoardNext \/ UNCHANGED board[b]
  BY <1>4
  DEF Restarted, BoardBecomes, LeasedBoard!BoardNext, LeasedBoard!Freed, NoLease, NoArtifact
<1>5. ASSUME \/ \E c \in Boards : Reports(c) \/ Spared(c) \/ Clears(c) \/ Offline(c)
             \/ \E c \in Boards, s \in Students : Confirms(c, s) \/ Denies(c, s)
             \/ Quiet \/ Reaps \/ Crashed \/ Recovers \/ Serves
      PROVE  UNCHANGED board[b]
  BY <1>5
  DEF Reports, Spared, Clears, Offline, Confirms, Denies, Settles, Checked, Quiet, Reaps,
      Crashed, Recovers, Serves
<1> QED BY <1>0, <1>1, <1>2, <1>3, <1>4, <1>5, StepKinds

(* The boards that Central talks to are of the kind that the Worker's      *)
(* detailed model implements too (WorkerImplementsLeasedBoard): each one   *)
(* belongs to one lease until it is free and gets ready only by a          *)
(* deployment for that lease, whatever Central sends and however late      *)
(* (worker/app/state.py, lease_manager.py).                                *)
THEOREM BoardsAreLeasedBoards == Spec => ImplementsLeasedBoards
<1>1. Init => \A b \in Boards : LeasedBoard(b)!BoardInit
  BY DEF Init, LeasedBoard!BoardInit, NoLease, NoArtifact
<1>2. Groundwork /\ [Next]_vars
        => [\A b \in Boards : LeasedBoard(b)!BoardNext \/ UNCHANGED board[b]]_board
  BY StepIsLeasedBoard DEF vars, world
<1> QED BY <1>1, <1>2, GroundworkHolds, PTL DEF Spec, ImplementsLeasedBoards

-----------------------------------------------------------------------------
(* Requests: RequestService.                                               *)

StatusOf == [s \in Students |-> [i \in Requests |-> request[s][i].status]]
ArtOf    == [s \in Students |-> [i \in Requests |-> request[s][i].art]]

\* One request of one student gets another status.
LEMMA StatusRow ==
  ASSUME NEW s \in Students, NEW i \in Requests, NEW x, NEW b, NEW a,
         RequestBecomes(s, i, x, b, a),
         \A t \in Students \ {s} : request'[t] = request[t]
  PROVE  /\ StatusOf' = [StatusOf EXCEPT ![s] = [@ EXCEPT ![i] = x]]
         /\ a = request[s][i].art => ArtOf' = ArtOf
<1>1. ASSUME NEW t \in Students, NEW j \in Requests
      PROVE  /\ request'[t][j].status = IF t = s /\ j = i THEN x ELSE request[t][j].status
             /\ a = request[s][i].art => request'[t][j].art = request[t][j].art
  BY DEF RequestBecomes
<1>2. StatusOf' = [t \in Students |-> [j \in Requests |->
                     IF t = s /\ j = i THEN x ELSE request[t][j].status]]
  BY <1>1 DEF StatusOf
<1>3. [StatusOf EXCEPT ![s] = [@ EXCEPT ![i] = x]]
        = [t \in Students |-> [j \in Requests |->
             IF t = s /\ j = i THEN x ELSE request[t][j].status]]
  BY DEF StatusOf
<1>4. a = request[s][i].art => ArtOf' = ArtOf
  BY <1>1 DEF ArtOf
<1> QED BY <1>2, <1>3, <1>4

LEMMA RowsServe ==
  ASSUME \A t \in Students : SameRequest(t)
  PROVE  StatusOf' = StatusOf /\ ArtOf' = ArtOf
  BY DEF SameRequest, StatusOf, ArtOf

\* The running requests of the students in S, and no others, fail.
LEMMA FailingServes ==
  ASSUME NEW S \in SUBSET Students,
         \A t \in Students : IF t \in S THEN FailsRunning(t) ELSE SameRequest(t)
  PROVE  Service!Fail(S)
<1>1. ASSUME NEW t \in Students, NEW j \in Requests
      PROVE  /\ request'[t][j].status = IF t \in S /\ request[t][j].status = "RUNNING"
                                        THEN "FAILED" ELSE request[t][j].status
             /\ request'[t][j].art = request[t][j].art
  BY DEF FailsRunning, SameRequest
<1> QED BY <1>1 DEF Service!Fail, Service!Positions, Requests

LEMMA StudentStepServes ==
  ASSUME Groundwork, NEW s \in Students, StepOf(s)
  PROVE  Service!ServiceNext \/ (StatusOf' = StatusOf /\ ArtOf' = ArtOf)
<1>0. /\ \A t \in Students \ {s} : request'[t] = request[t]
      /\ \/ SameRequest(s) \/ Submits(s) \/ Starts(s) \/ Completes(s) \/ PredictLost(s)
  BY DEF StepOf, Outcome, Leaves, Queues, Proceeds, Granted, Idles, Picks, Deploys, Deployed,
         DeployLost, Released, ReleaseLost, Takes, Releases
<1>1. CASE SameRequest(s)
  BY <1>0, <1>1, RowsServe DEF SameRequest
<1>2. CASE Submits(s)
  <2>1. PICK i \in Requests :
          /\ request[s][i].status = "NONE"
          /\ \A j \in Requests : j < i => request[s][j].status # "NONE"
          /\ RequestBecomes(s, i, "QUEUED", None, latest[s])
    BY <1>2 DEF Submits
  <2>2. StatusOf' = [StatusOf EXCEPT ![s] = [@ EXCEPT ![i] = "QUEUED"]]
    BY <1>0, <2>1, StatusRow
  <2>3. /\ ArtOf'[s][i] # 0
        /\ \A t \in Students, j \in Requests :
             <<t, j>> # <<s, i>> => ArtOf'[t][j] = ArtOf[t][j]
    BY <1>0, <1>2, <2>1 DEF Submits, RequestBecomes, ArtOf, NoArtifact
  <2>4. Service!Accept(s, i)
    BY <2>1, <2>2, <2>3 DEF Service!Accept, Service!Positions, Requests, StatusOf, ArtOf
  <2> QED BY <2>4 DEF Service!ServiceNext, Service!Positions, Requests
<1>3. CASE Starts(s)
  <2>1. PICK i \in Requests :
          /\ request[s][i].status = "QUEUED"
          /\ \A j \in Requests : j < i => request[s][j].status \in Ended
          /\ RequestBecomes(s, i, "RUNNING", lease[s].worker, request[s][i].art)
    BY <1>3, StudentKnown DEF Starts, RequestsInOrder
  <2>2. /\ StatusOf' = [StatusOf EXCEPT ![s] = [@ EXCEPT ![i] = "RUNNING"]]
        /\ ArtOf' = ArtOf
    BY <1>0, <2>1, StatusRow
  <2>3. Service!Start(s, i)
    BY <2>1, <2>2 DEF Service!Start, Service!Positions, Requests, StatusOf, ArtOf, Ended
  <2> QED BY <2>3 DEF Service!ServiceNext, Service!Positions, Requests
<1>4. CASE Completes(s)
  <2>1. PICK i \in Requests :
          /\ request[s][i].status = "RUNNING"
          /\ RequestBecomes(s, i, "COMPLETED", request[s][i].worker, request[s][i].art)
    BY <1>4 DEF Completes, PredictStillWanted, Groundwork, OwnershipInvariant,
                CoroutineHoldsLease
  <2>2. /\ StatusOf' = [StatusOf EXCEPT ![s] = [@ EXCEPT ![i] = "COMPLETED"]]
        /\ ArtOf' = ArtOf
    BY <1>0, <2>1, StatusRow
  <2>3. Service!Complete(s, i)
    BY <2>1, <2>2 DEF Service!Complete, Service!Positions, Requests, StatusOf, ArtOf
  <2> QED BY <2>3 DEF Service!ServiceNext, Service!Positions, Requests
<1>5. CASE PredictLost(s)
  <2> DEFINE i == op[s].req
  <2>1. i \in Requests /\ request[s][i].status = "RUNNING"
    BY <1>5 DEF PredictLost, PredictStillWanted, Groundwork, OwnershipInvariant,
                CoroutineHoldsLease
  <2>2. RequestBecomes(s, i, "FAILED", request[s][i].worker, request[s][i].art)
    BY <1>5 DEF PredictLost
  <2>3. \A j \in Requests : request[s][j].status = "RUNNING" => j = i
    BY <2>1, StudentKnown DEF StudentFits, RequestsFitLease, RunningOf
  <2>4. FailsRunning(s)
    BY <2>1, <2>2, <2>3 DEF RequestBecomes, FailsRunning
  <2>5. Service!Fail({s})
    BY <1>0, <2>4, FailingServes DEF SameRequest
  <2> QED BY <2>5 DEF Service!ServiceNext
<1> QED BY <1>0, <1>1, <1>2, <1>3, <1>4, <1>5

LEMMA StepServes ==
  ASSUME Groundwork, Next
  PROVE  Service!ServiceNext \/ (StatusOf' = StatusOf /\ ArtOf' = ArtOf)
<1>0. OwnershipInvariant
  BY DEF Groundwork
<1>1. ASSUME NEW b \in Boards, Offline(b) PROVE Service!ServiceNext
  <2> DEFINE S == {t \in Students : IsLeaseOf(t, b)}
  <2>1. \A t \in Students : IF t \in S THEN FailsRunning(t) ELSE SameRequest(t)
    BY <1>1 DEF Offline
  <2>2. PICK T \in SUBSET Students :
          \A t \in Students : IF t \in T THEN FailsRunning(t) ELSE SameRequest(t)
    BY <2>1
  <2> QED BY <2>2, FailingServes DEF Service!ServiceNext
<1>2. ASSUME Recovers PROVE Service!ServiceNext
  <2>1. Service!Fail(Students)
    BY <1>2, FailingServes DEF Recovers
  <2> QED BY <2>1 DEF Service!ServiceNext
<1>3. ASSUME \/ \E s \in Students : Served(s) \/ TimedOut(s)
             \/ \E b \in Boards : Reports(b) \/ Spared(b) \/ Clears(b) \/ Restarted(b)
             \/ \E b \in Boards, s \in Students : Confirms(b, s) \/ Denies(b, s)
             \/ Quiet \/ Reaps \/ ServedLate \/ Crashed \/ Serves
      PROVE  \A t \in Students : SameRequest(t)
  BY <1>3
  DEF Served, TimedOut, Outside, Reports, SameRows, Spared, Clears, Restarted, Confirms,
      Denies, Settles, Quiet, Reaps, ServedLate, Crashed, Serves, SameRequest
<1> QED BY <1>0, <1>1, <1>2, <1>3, StepKinds, StudentStepServes, RowsServe

(* A student's requests run one at a time and in order, each at most once  *)
(* and on the artifact it was bound to, and none is replayed or changed    *)
(* when it has ended: Central implements RequestService in every           *)
(* environment, crashes included (lease_manager.py, main.py).              *)
THEOREM CentralImplementsService == Spec => ImplementsRequestService
<1>1. Init => Service!ServiceInit
  BY DEF Init, Service!ServiceInit, Service!Positions, Requests, NoArtifact
<1>2. Groundwork /\ [Next]_vars => [Service!ServiceNext]_<<StatusOf, ArtOf>>
  BY StepServes DEF StatusOf, ArtOf, vars, database
<1>3. Groundwork /\ [Next]_vars
        => [Service!ServiceNext]_<<[s \in Students |-> [i \in Requests |-> request[s][i].status]],
                                   [s \in Students |-> [i \in Requests |-> request[s][i].art]]>>
  BY <1>2 DEF StatusOf, ArtOf
<1> QED
  BY <1>1, <1>3, GroundworkHolds, PTL
  DEF Spec, ImplementsRequestService, Service!ServiceSpec

-----------------------------------------------------------------------------
(* The boards as a pool: BoardPool.                                        *)

Uses(s, b) == Active(s) /\ lease[s].worker = b
Owner      == [b \in Boards |-> OwnerOf(b)]

\* The owner of a board is the one student whose lease uses it.
OwnersAreUsers ==
  \A b \in Boards :
    /\ \A s \in Students : Uses(s, b) <=> OwnerOf(b) = s
    /\ (\A s \in Students : ~Uses(s, b)) <=> OwnerOf(b) = None

LEMMA OwnersUse == OwnershipInvariant => OwnersAreUsers
<1> SUFFICES ASSUME OwnershipInvariant, NEW b \in Boards
             PROVE  /\ \A s \in Students : Uses(s, b) <=> OwnerOf(b) = s
                    /\ (\A s \in Students : ~Uses(s, b)) <=> OwnerOf(b) = None
  BY DEF OwnersAreUsers
<1>1. \A s, t \in Students : Uses(s, b) /\ Uses(t, b) => s = t
  BY InvariantImplies DEF Ownership, Uses
<1>2. None \notin Students
  BY NoneAssumption
<1>3. CASE \E s \in Students : Uses(s, b)
  <2>1. OwnerOf(b) = CHOOSE s \in Students : Uses(s, b)
    BY <1>3 DEF OwnerOf, Uses
  <2>2. OwnerOf(b) \in Students /\ Uses(OwnerOf(b), b)
    BY <1>3, <2>1
  <2> QED BY <1>1, <1>2, <2>2
<1>4. CASE \A s \in Students : ~Uses(s, b)
  <2>1. OwnerOf(b) = None
    BY <1>4 DEF OwnerOf, Uses
  <2> QED BY <1>2, <1>4, <2>1
<1> QED BY <1>3, <1>4

LEMMA OwnersUseNext == OwnershipInvariant' => OwnersAreUsers'
<1>1. OwnershipInvariant => OwnersAreUsers
  BY OwnersUse
<1> QED BY <1>1, PTL

\* Leases only stop using boards.
LEMMA UsesEnd ==
  ASSUME OwnersAreUsers, OwnersAreUsers',
         \A t \in Students : Active(t)' => Active(t) /\ lease'[t].worker = lease[t].worker
  PROVE  Pool!PoolNext \/ Owner' = Owner
<1>1. ASSUME NEW b \in Boards PROVE OwnerOf(b)' \in {None, OwnerOf(b)}
  <2>1. ASSUME NEW s \in Students, OwnerOf(b)' = s PROVE OwnerOf(b) = s
    <3>1. Active(s)' /\ lease'[s].worker = b
      BY <2>1 DEF OwnersAreUsers, Uses
    <3>2. Uses(s, b)
      BY <3>1 DEF Uses
    <3> QED BY <3>2 DEF OwnersAreUsers
  <2>2. OwnerOf(b)' = None \/ \E s \in Students : OwnerOf(b)' = s
    BY DEF OwnersAreUsers
  <2> QED BY <2>1, <2>2
<1> DEFINE Gone == {b \in Boards : OwnerOf(b)' = None /\ OwnerOf(b) # None}
<1>2. PICK B \in SUBSET Boards :
        \A b \in Boards : b \in B <=> OwnerOf(b)' = None /\ OwnerOf(b) # None
  <2>1. Gone \in SUBSET Boards
    OBVIOUS
  <2> QED BY <2>1
<1>3. Owner' = [b \in Boards |-> IF b \in B THEN None ELSE Owner[b]]
  BY <1>1, <1>2 DEF Owner
<1>4. CASE B = {}
  BY <1>1, <1>2, <1>4 DEF Owner
<1>5. CASE B # {}
  <2>1. Pool!TakeAway(B)
    BY <1>3, <1>5 DEF Pool!TakeAway, Owner
  <2> QED BY <2>1 DEF Pool!PoolNext
<1> QED BY <1>4, <1>5

\* A student who waits is given a board that no lease uses.
LEMMA GrantUses ==
  ASSUME OwnershipInvariant, OwnersAreUsers, OwnersAreUsers', NEW s \in Students,
         NEW b \in Boards, Granted(s, b),
         \A t \in Students \ {s} : lease'[t] = lease[t]
  PROVE  Pool!PoolNext
<1>1. /\ lease[s].state = "QUEUED" /\ worker[b].lid = NoLease
      /\ lease'[s].state = "RESERVED" /\ lease'[s].worker = b
  BY DEF Granted, LeaseBecomes
<1>2. \A t \in Students : ~Uses(t, b)
  BY <1>1 DEF OwnershipInvariant, LeaseOwnsBoard, Uses
<1>3. \A c \in Boards : ~Uses(s, c)
  BY <1>1 DEF Uses, Active, ActiveStates
<1>4. Owner[b] = None /\ \A c \in Boards : Owner[c] # s
  BY <1>2, <1>3 DEF Owner, OwnersAreUsers
<1>5. ASSUME NEW c \in Boards PROVE OwnerOf(c)' = IF c = b THEN s ELSE OwnerOf(c)
  <2>1. \A t \in Students \ {s} : (Active(t)' /\ lease'[t].worker = c) <=> Uses(t, c)
    BY DEF Active, Uses
  <2>2. (Active(s)' /\ lease'[s].worker = c) <=> c = b
    BY <1>1 DEF Active, ActiveStates
  <2>3. \A t \in Students : Uses(t, c)' <=> (Active(t)' /\ lease'[t].worker = c)
    BY DEF Uses
  <2>4. CASE c = b
    BY <2>2, <2>3, <2>4 DEF OwnersAreUsers
  <2>5. CASE c # b
    <3>1. \A t \in Students : Uses(t, c)' <=> Uses(t, c)
      BY <1>3, <2>1, <2>2, <2>3, <2>5
    <3> QED BY <2>5, <3>1 DEF OwnersAreUsers
  <2> QED BY <2>4, <2>5
<1>6. Pool!Grant(b, s)
  BY <1>4, <1>5 DEF Pool!Grant, Owner
<1> QED BY <1>6 DEF Pool!PoolNext

LEMMA StudentStepUses ==
  ASSUME Groundwork, NEW s \in Students, StepOf(s), \A b \in Boards : ~Granted(s, b)
  PROVE  \A t \in Students : Active(t)' => Active(t) /\ lease'[t].worker = lease[t].worker
<1>1. ASSUME NEW t \in Students \ {s}
      PROVE  Active(t)' => Active(t) /\ lease'[t].worker = lease[t].worker
  BY DEF StepOf, Active
<1>2. Active(s)' => Active(s) /\ lease'[s].worker = lease[s].worker
  <2>1. CASE \/ Leaves(s) \/ Proceeds(s) \/ Picks(s) \/ Submits(s) \/ Takes(s)
    BY <2>1 DEF Leaves, Proceeds, Picks, Submits, Takes, SameLease, Active
  <2>2. CASE \/ Queues(s) \/ DeployLost(s) \/ PredictLost(s) \/ Released(s) \/ ReleaseLost(s)
    BY <2>2
    DEF Queues, DeployLost, PredictLost, Released, ReleaseLost, LeaseMoves, LeaseBecomes,
        Active, ActiveStates
  <2>3. CASE \/ Idles(s) \/ Deploys(s) \/ Deployed(s) \/ Starts(s) \/ Completes(s)
             \/ Releases(s)
    <3>1. lease'[s].worker = lease[s].worker
      BY <2>3
      DEF Idles, Deploys, Deployed, Starts, Completes, Releases, LeaseMoves, LeaseBecomes
    <3>2. CASE Idles(s) \/ Deploys(s)
      BY <3>1, <3>2
      DEF Idles, Deploys, Groundwork, OwnershipInvariant, CoroutineHoldsLease
    <3>3. CASE Deployed(s) \/ Starts(s) \/ Completes(s) \/ Releases(s)
      BY <3>1, <3>3
      DEF Deployed, DeployStillWanted, Starts, MayRun, Completes, Releases, MayRelease,
          Active, ActiveStates
    <3> QED BY <2>3, <3>2, <3>3
  <2> QED BY <2>1, <2>2, <2>3 DEF StepOf, Outcome
<1> QED BY <1>1, <1>2

LEMMA OtherStepUses ==
  ASSUME \/ \E s \in Students : Served(s) \/ TimedOut(s)
         \/ \E b \in Boards : Reports(b) \/ Spared(b) \/ Clears(b) \/ Offline(b)
                              \/ Restarted(b)
         \/ \E b \in Boards, s \in Students : Confirms(b, s) \/ Denies(b, s)
         \/ Quiet \/ Reaps \/ ServedLate \/ Crashed \/ Recovers \/ Serves
  PROVE  \A t \in Students : Active(t)' => Active(t) /\ lease'[t].worker = lease[t].worker
<1>1. CASE \/ \E s \in Students : Served(s) \/ TimedOut(s)
           \/ ServedLate \/ Crashed \/ Serves
           \/ \E b \in Boards : Spared(b) \/ Clears(b) \/ Restarted(b)
  BY <1>1
  DEF Served, TimedOut, ServedLate, Restarted, Outside, Crashed, Serves, Spared, Clears,
      Active
<1>2. CASE Quiet \/ Reaps \/ Recovers \/ \E b \in Boards : Reports(b)
  BY <1>2
  DEF Quiet, Reaps, Recovers, Reports, SameRows, LeaseKept, LeaseMoves, LeaseBecomes,
      SameLease, Active, ActiveStates
<1>3. CASE \E b \in Boards : Offline(b)
  BY <1>3
  DEF Offline, LeaseMoves, LeaseBecomes, SameLease, Active, ActiveStates
<1>4. CASE \E b \in Boards, s \in Students : Confirms(b, s) \/ Denies(b, s)
  BY <1>4
  DEF Confirms, Denies, Settles, IsLeaseOf, LeaseMoves, LeaseBecomes, Active
<1> QED BY <1>1, <1>2, <1>3, <1>4

LEMMA StepKeepsPool ==
  ASSUME Groundwork, Next
  PROVE  Pool!PoolNext \/ Owner' = Owner
<1>1. OwnershipInvariant /\ OwnershipInvariant'
  BY GroundworkStep DEF Groundwork
<1>2. OwnersAreUsers /\ OwnersAreUsers'
  BY <1>1, OwnersUse, OwnersUseNext
<1>3. ASSUME NEW s \in Students, StepOf(s) PROVE Pool!PoolNext \/ Owner' = Owner
  <2>1. CASE \E b \in Boards : Granted(s, b)
    BY <1>1, <1>2, <1>3, <2>1, GrantUses DEF StepOf
  <2>2. CASE \A b \in Boards : ~Granted(s, b)
    BY <1>2, <1>3, <2>2, StudentStepUses, UsesEnd
  <2> QED BY <2>1, <2>2
<1>4. ASSUME \/ \E s \in Students : Served(s) \/ TimedOut(s)
             \/ \E b \in Boards : Reports(b) \/ Spared(b) \/ Clears(b) \/ Offline(b)
                                  \/ Restarted(b)
             \/ \E b \in Boards, s \in Students : Confirms(b, s) \/ Denies(b, s)
             \/ Quiet \/ Reaps \/ ServedLate \/ Crashed \/ Recovers \/ Serves
      PROVE  Pool!PoolNext \/ Owner' = Owner
  BY <1>2, <1>4, OtherStepUses, UsesEnd
<1> QED BY <1>1, <1>3, <1>4, StepKinds

(* A board serves one student at a time, a student has at most one board,  *)
(* and no board goes from one student to another without having been free: *)
(* Central implements BoardPool (reserve_lease, and every writer of the    *)
(* lease and worker rows), whatever restarts or arrives late.              *)
THEOREM CentralImplementsPool == Spec => ImplementsBoardPool
<1>1. Init => Pool!PoolInit
  <2> SUFFICES ASSUME Init, NEW b \in Boards PROVE OwnerOf(b) = None
    BY DEF Pool!PoolInit
  <2>1. \A s \in Students : ~Active(s)
    BY DEF Init, Active, ActiveStates
  <2> QED BY <2>1 DEF OwnerOf
<1>2. Groundwork /\ [Next]_vars => [Pool!PoolNext]_[b \in Boards |-> OwnerOf(b)]
  <2>1. ASSUME UNCHANGED vars PROVE Owner' = Owner
    BY <2>1 DEF Owner, OwnerOf, Active, vars, database
  <2> QED BY <2>1, StepKeepsPool DEF Owner
<1> QED BY <1>1, <1>2, GroundworkHolds, PTL DEF Spec, ImplementsBoardPool, Pool!PoolSpec

-----------------------------------------------------------------------------
(* Artifacts in use: ArtifactUse.                                          *)

UnfinishedOf(s) == Pending(s) \cup RunningOf(s)
UsedBy == [s \in Students |-> {request[s][i].art : i \in UnfinishedOf(s)}]
HeldBy == [s \in Students |-> lease[s].art]
ShownBy == [b \in Boards |-> worker[b].art]

\* The requests of s that have not ended are among those that had not, each bound as before.
NothingBound(s) ==
  \A i \in UnfinishedOf(s)' : i \in UnfinishedOf(s) /\ request'[s][i].art = request[s][i].art

LEMMA UsedAreIds ==
  ASSUME Groundwork, NEW s \in Students, NEW i \in UnfinishedOf(s)
  PROVE  request[s][i].art \in 1 .. MaxArtifacts
<1>1. i \in Accepted(s)
  BY DEF UnfinishedOf, Pending, RunningOf, Accepted
<1>2. request[s][i].art \in 1 .. artifacts /\ artifacts <= MaxArtifacts /\ artifacts \in Nat
  BY <1>1, StudentKnown, IdTypes
  DEF BindsArtifacts, Drawn, Groundwork, ArtifactsAreOwn, ArtifactsAreDrawn
<1> QED BY <1>2, BoundsAssumption

\* Requests end, and rows keep their artifact or let go of it.
LEMMA OnlyLetsGo ==
  ASSUME Groundwork,
         \A t \in Students : NothingBound(t) /\ lease'[t].art \in {NoArtifact, lease[t].art},
         \A b \in Boards : worker'[b].art \in {NoArtifact, worker[b].art}
  PROVE  Use!UseNext
<1> DEFINE R == {e \in Students \X (1 .. MaxArtifacts) : e[2] \notin UsedBy'[e[1]]}
           S == {t \in Students : lease'[t].art = NoArtifact}
           B == {b \in Boards : worker'[b].art = NoArtifact}
<1>1. ASSUME NEW t \in Students
      PROVE  UsedBy'[t] = {a \in UsedBy[t] : <<t, a>> \notin R}
  <2>1. ASSUME NEW a \in UsedBy'[t] PROVE a \in UsedBy[t]
    BY <2>1 DEF UsedBy, NothingBound
  <2>2. ASSUME NEW a \in UsedBy[t] PROVE a \in 1 .. MaxArtifacts
    BY <2>2, UsedAreIds DEF UsedBy
  <2> QED BY <2>1, <2>2
<1>2. UsedBy' = [t \in Students |-> {a \in UsedBy[t] : <<t, a>> \notin R}]
  BY <1>1 DEF UsedBy
<1>3. HeldBy' = [t \in Students |-> IF t \in S THEN 0 ELSE HeldBy[t]]
  BY DEF HeldBy, NoArtifact
<1>4. ShownBy' = [b \in Boards |-> IF b \in B THEN 0 ELSE ShownBy[b]]
  BY DEF ShownBy, NoArtifact
<1>5. PICK R1 \in SUBSET (Students \X (1 .. MaxArtifacts)) :
        UsedBy' = [t \in Students |-> {a \in UsedBy[t] : <<t, a>> \notin R1}]
  BY <1>2
<1>6. PICK S1 \in SUBSET Students :
        HeldBy' = [t \in Students |-> IF t \in S1 THEN 0 ELSE HeldBy[t]]
  <2>1. S \in SUBSET Students
    OBVIOUS
  <2> QED BY <1>3, <2>1
<1>7. PICK B1 \in SUBSET Boards :
        ShownBy' = [b \in Boards |-> IF b \in B1 THEN 0 ELSE ShownBy[b]]
  <2>1. B \in SUBSET Boards
    OBVIOUS
  <2> QED BY <1>4, <2>1
<1>8. Use!LetGo(R1, S1, B1)
  BY <1>5, <1>6, <1>7 DEF Use!LetGo, UsedBy, HeldBy, ShownBy, UnfinishedOf
<1> QED BY <1>8 DEF Use!UseNext

LEMMA RequestsEnd ==
  ASSUME NEW s \in Students, SameRequest(s) \/ FailsRunning(s)
  PROVE  NothingBound(s)
<1>1. ASSUME NEW i \in Requests
      PROVE  /\ request'[s][i].status \in {"QUEUED", "RUNNING"}
                  => request[s][i].status = request'[s][i].status
             /\ request'[s][i].art = request[s][i].art
  BY DEF SameRequest, FailsRunning
<1> QED BY <1>1 DEF NothingBound, UnfinishedOf, Pending, RunningOf

\* A request runs or ends.
LEMMA RequestRuns ==
  ASSUME NEW s \in Students, NEW i \in UnfinishedOf(s), NEW x, NEW b,
         RequestBecomes(s, i, x, b, request[s][i].art)
  PROVE  NothingBound(s)
<1>1. ASSUME NEW j \in Requests
      PROVE  /\ request'[s][j].art = request[s][j].art
             /\ j = i \/ request'[s][j].status = request[s][j].status
  BY DEF RequestBecomes, UnfinishedOf, Pending, RunningOf
<1> QED BY <1>1 DEF NothingBound, UnfinishedOf, Pending, RunningOf

LEMMA SubmitBinds ==
  ASSUME Groundwork, NEW s \in Students, StepOf(s), Submits(s)
  PROVE  Use!UseNext
<1>1. PICK i \in Requests :
        /\ request[s][i].status = "NONE"
        /\ RequestBecomes(s, i, "QUEUED", None, latest[s])
  BY DEF Submits
<1>2. /\ latest[s] # 0 /\ lease'[s] = lease[s]
      /\ \A b \in Boards : worker'[b] = worker[b]
      /\ \A t \in Students \ {s} : lease'[t] = lease[t] /\ request'[t] = request[t]
  BY DEF Submits, StepOf, SameLease, SameWorkers, NoArtifact
<1>3. ASSUME NEW j \in Requests
      PROVE  /\ j \in UnfinishedOf(s)' <=> j = i \/ j \in UnfinishedOf(s)
             /\ j = i => j \notin UnfinishedOf(s) /\ request'[s][j].art = latest[s]
             /\ j # i => request'[s][j].art = request[s][j].art
  BY <1>1 DEF RequestBecomes, UnfinishedOf, Pending, RunningOf
<1>4. UsedBy'[s] = UsedBy[s] \cup {latest[s]}
  <2>1. UsedBy'[s] = {request'[s][j].art : j \in UnfinishedOf(s)'}
    BY DEF UsedBy
  <2>2. UsedBy[s] = {request[s][j].art : j \in UnfinishedOf(s)}
    BY DEF UsedBy
  <2>3. UnfinishedOf(s)' \subseteq Requests /\ UnfinishedOf(s) \subseteq Requests
    BY DEF UnfinishedOf, Pending, RunningOf
  <2>4. ASSUME NEW a \in UsedBy'[s] PROVE a \in UsedBy[s] \cup {latest[s]}
    BY <1>3, <2>1, <2>2, <2>3
  <2>5. ASSUME NEW a \in UsedBy[s] PROVE a \in UsedBy'[s]
    BY <1>3, <2>1, <2>2, <2>3
  <2>6. latest[s] \in UsedBy'[s]
    BY <1>3, <2>1
  <2> QED BY <2>4, <2>5, <2>6
<1>5. ASSUME NEW t \in Students \ {s} PROVE UsedBy'[t] = UsedBy[t]
  BY <1>2 DEF UsedBy, UnfinishedOf, Pending, RunningOf
<1>6. UsedBy' = [UsedBy EXCEPT ![s] = UsedBy[s] \cup {latest[s]}]
  BY <1>4, <1>5 DEF UsedBy
<1>7. HeldBy' = HeldBy /\ ShownBy' = ShownBy
  BY <1>2 DEF HeldBy, ShownBy
<1>8. Use!Bind(s)
  BY <1>2, <1>6, <1>7 DEF Use!Bind, UsedBy, HeldBy, ShownBy, UnfinishedOf
<1> QED BY <1>8 DEF Use!UseNext

LEMMA DeploymentUses ==
  ASSUME Groundwork, NEW s \in Students, StepOf(s), Deployed(s)
  PROVE  Use!UseNext
<1>1. /\ SameRequest(s) /\ lease'[s].art = op[s].art /\ op[s].pc = "deploy"
      /\ \A t \in Students \ {s} : lease'[t] = lease[t] /\ request'[t] = request[t]
  BY DEF Deployed, StepOf, LeaseBecomes
<1>2. PICK b \in Boards :
        worker'[b].art = op[s].art /\ \A c \in Boards \ {b} : worker'[c] = worker[c]
  BY <1>1, StudentKnown DEF Deployed, WorkerBecomes, Awaiting
<1>3. op[s].req \in UnfinishedOf(s) /\ op[s].art = request[s][op[s].req].art
  BY <1>1, StudentKnown
  DEF RequestsInOrder, BindsArtifacts, UnfinishedOf, Pending, Accepted
<1>4. PICK a \in 1 .. MaxArtifacts : a = op[s].art /\ a \in UsedBy[s]
  BY <1>3, UsedAreIds DEF UsedBy
<1>5. UsedBy' = UsedBy
  BY <1>1 DEF UsedBy, UnfinishedOf, Pending, RunningOf, SameRequest
<1>6. HeldBy' = [HeldBy EXCEPT ![s] = a] /\ ShownBy' = [ShownBy EXCEPT ![b] = a]
  BY <1>1, <1>2, <1>4 DEF HeldBy, ShownBy
<1>7. Use!DeployUse(s, b, a)
  BY <1>4, <1>5, <1>6 DEF Use!DeployUse, UsedBy, HeldBy, ShownBy, UnfinishedOf
<1> QED BY <1>7 DEF Use!UseNext

LEMMA StudentStepUsesArtifacts ==
  ASSUME Groundwork, NEW s \in Students, StepOf(s)
  PROVE  Use!UseNext
<1>0. \A t \in Students \ {s} : lease'[t] = lease[t] /\ SameRequest(t)
  BY DEF StepOf, SameRequest
<1>1. ASSUME NothingBound(s), lease'[s].art \in {NoArtifact, lease[s].art},
             \A b \in Boards : worker'[b].art \in {NoArtifact, worker[b].art}
      PROVE  Use!UseNext
  BY <1>0, <1>1, RequestsEnd, OnlyLetsGo
<1>2. CASE \/ Leaves(s) \/ Queues(s) \/ Proceeds(s) \/ Idles(s) \/ Picks(s) \/ Takes(s)
           \/ Releases(s) \/ \E b \in Boards : Granted(s, b)
  <2>1. SameRequest(s) /\ lease'[s].art \in {NoArtifact, lease[s].art}
    BY <1>2
    DEF Leaves, Queues, Proceeds, Idles, Picks, Takes, Releases, Granted, LeaseMoves,
        LeaseBecomes, SameLease
  <2>2. \A b \in Boards : worker'[b].art \in {NoArtifact, worker[b].art}
    BY <1>2
    DEF Leaves, Queues, Proceeds, Idles, Picks, Takes, Releases, Granted, WorkerBecomes,
        SameWorkers
  <2> QED BY <1>1, <2>1, <2>2, RequestsEnd
<1>3. CASE Deploys(s) \/ DeployLost(s) \/ Released(s) \/ ReleaseLost(s)
  <2>1. SameRequest(s) /\ lease'[s].art \in {NoArtifact, lease[s].art}
    BY <1>3 DEF Deploys, DeployLost, Released, ReleaseLost, LeaseMoves, LeaseBecomes
  <2>2. \A b \in Boards : worker'[b].art \in {NoArtifact, worker[b].art}
    BY <1>3 DEF Deploys, DeployLost, Released, ReleaseLost, WorkerBecomes
  <2> QED BY <1>1, <2>1, <2>2, RequestsEnd
<1>4. CASE Starts(s) \/ Completes(s) \/ PredictLost(s)
  <2>1. lease'[s].art \in {NoArtifact, lease[s].art}
    BY <1>4 DEF Starts, Completes, PredictLost, LeaseMoves, LeaseBecomes
  <2>2. \A b \in Boards : worker'[b].art \in {NoArtifact, worker[b].art}
    BY <1>4 DEF Starts, Completes, PredictLost, WorkerBecomes
  <2>3. op[s].req \in UnfinishedOf(s)
    BY <1>4
    DEF Starts, Completes, PredictLost, MayRun, PredictStillWanted, UnfinishedOf, Pending,
        RunningOf, Groundwork, OwnershipInvariant, CoroutineHoldsLease
  <2>4. \E x, b : RequestBecomes(s, op[s].req, x, b, request[s][op[s].req].art)
    BY <1>4 DEF Starts, Completes, PredictLost
  <2>5. NothingBound(s)
    BY <2>3, <2>4, RequestRuns
  <2> QED BY <1>1, <2>1, <2>2, <2>5
<1> QED BY <1>2, <1>3, <1>4, SubmitBinds, DeploymentUses DEF StepOf, Outcome

LEMMA OtherStepUsesArtifacts ==
  ASSUME Groundwork,
         \/ \E s \in Students : Served(s) \/ TimedOut(s)
         \/ \E b \in Boards : Reports(b) \/ Spared(b) \/ Clears(b) \/ Offline(b)
                              \/ Restarted(b)
         \/ \E b \in Boards, s \in Students : Confirms(b, s) \/ Denies(b, s)
         \/ Quiet \/ Reaps \/ ServedLate \/ Crashed \/ Recovers \/ Serves
  PROVE  Use!UseNext
<1>1. ASSUME \A t \in Students : SameRequest(t) \/ FailsRunning(t),
             \A t \in Students : lease'[t].art \in {NoArtifact, lease[t].art},
             \A b \in Boards : worker'[b].art \in {NoArtifact, worker[b].art}
      PROVE  Use!UseNext
  BY <1>1, RequestsEnd, OnlyLetsGo
<1>2. CASE \/ \E s \in Students : Served(s) \/ TimedOut(s)
           \/ ServedLate \/ Crashed \/ Serves
           \/ \E b \in Boards : Spared(b) \/ Restarted(b)
  BY <1>1, <1>2
  DEF Served, TimedOut, ServedLate, Restarted, Outside, Crashed, Serves, Spared, SameRequest,
      SameWorkers
<1>3. CASE Quiet \/ Reaps \/ Recovers \/ \E b \in Boards : Reports(b)
  BY <1>1, <1>3
  DEF Quiet, Reaps, Recovers, Reports, SameRows, LeaseKept, LeaseMoves, LeaseBecomes,
      SameLease, SameRequest, SameWorkers
<1>4. CASE \E b \in Boards : Offline(b)
  BY <1>1, <1>4 DEF Offline, LeaseMoves, LeaseBecomes, SameLease, WorkerBecomes
<1>5. CASE \E b \in Boards, s \in Students : Confirms(b, s) \/ Denies(b, s)
  BY <1>1, <1>5
  DEF Confirms, Denies, Settles, LeaseMoves, LeaseBecomes, SameRequest, WorkerBecomes
<1>6. ASSUME NEW b \in Boards, Clears(b) PROVE Use!UseNext
  <2>1. UNCHANGED <<lease, request>>
    BY <1>6 DEF Clears
  <2>2. CASE check[b].lid = NoLease
    BY <1>1, <1>6, <2>1, <2>2 DEF Clears, WorkerBecomes, SameRequest
  <2>3. CASE check[b].lid # NoLease
    <3>1. check[b].art \in 1 .. artifacts /\ artifacts <= MaxArtifacts /\ artifacts \in Nat
      BY <2>3, IdTypes DEF Groundwork, ArtifactsAreOwn, ArtifactsAreDrawn, Drawn
    <3>2. PICK a \in 1 .. MaxArtifacts : a = check[b].art
      BY <3>1, BoundsAssumption
    <3>3. UsedBy' = UsedBy /\ HeldBy' = HeldBy
      BY <2>1 DEF UsedBy, HeldBy, UnfinishedOf, Pending, RunningOf
    <3>4. ShownBy' = [ShownBy EXCEPT ![b] = a]
      BY <1>6, <2>3, <3>2 DEF Clears, WorkerBecomes, ShownBy
    <3>5. Use!ReportUse(b, a)
      BY <3>3, <3>4 DEF Use!ReportUse, UsedBy, HeldBy, ShownBy, UnfinishedOf
    <3> QED BY <3>5 DEF Use!UseNext
  <2> QED BY <2>2, <2>3
<1> QED BY <1>2, <1>3, <1>4, <1>5, <1>6

(* Central uses artifacts only as artifact cleanup reckons with it: a new  *)
(* use begins with a submission on the student's newest artifact, with the *)
(* deployment of an unfinished request's, or with what a board reports;    *)
(* everything else only ends uses (lease_manager.py, worker_registry.py,   *)
(* as artifact_cleanup.py relies on them).                                 *)
THEOREM CentralImplementsUse == Spec => ImplementsArtifactUse
<1>1. Init => Use!UseInit
  BY DEF Init, Use!UseInit, Pending, RunningOf, NoArtifact
<1>2. Groundwork /\ Next => Use!UseNext
  BY StepKinds, StudentStepUsesArtifacts, OtherStepUsesArtifacts DEF Groundwork
<1>3. UNCHANGED vars => UNCHANGED Use!uses
  BY DEF vars, database, Use!uses, Pending, RunningOf
<1>4. Groundwork /\ [Next]_vars => [Use!UseNext]_(Use!uses)
  BY <1>2, <1>3
<1> QED BY <1>1, <1>4, GroundworkHolds, PTL DEF Spec, ImplementsArtifactUse, Use!UseSpec
=============================================================================
