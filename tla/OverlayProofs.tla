----------------------------- MODULE OverlayProofs -----------------------------
(***************************************************************************)
(* TLAPS proofs about Central and what its boards have loaded:             *)
(* OverlayInvariant is inductive, hence a request is predicted on an       *)
(* artifact of its student, on its own as long as Central does not         *)
(* restart, and a READY lease is real as long as no board restarts either. *)
(***************************************************************************)
EXTENDS CoordinationProofs, OverlayInvariant

-----------------------------------------------------------------------------
(* The requests of a student move forward.                                 *)

RequestsMove(s) ==
  /\ \A i \in Accepted(s) : i \in Accepted(s)' /\ request'[s][i].art = request[s][i].art
  /\ \A i \in Accepted(s)' : i \notin Accepted(s) =>
       /\ request'[s][i].art \in Drawn
       /\ \A j \in Requests : j < i => j \in Accepted(s)

LEMMA RequestsRest ==
  ASSUME NEW t \in Students, SameRequest(t)
  PROVE  RequestsMove(t) /\ Accepted(t)' = Accepted(t)
  BY DEF SameRequest, RequestsMove, Accepted

LEMMA FailingMoves ==
  ASSUME NEW t \in Students, FailsRunning(t)
  PROVE  RequestsMove(t)
<1>1. ASSUME NEW i \in Requests
      PROVE  /\ request'[t][i].status = "NONE" <=> request[t][i].status = "NONE"
             /\ request'[t][i].art = request[t][i].art
  BY DEF FailsRunning
<1> QED BY <1>1 DEF RequestsMove, Accepted

LEMMA OrderMoves ==
  ASSUME NEW t \in Students, RequestsMove(t), RequestsInOrder(t), BindsArtifacts(t),
         artifacts \in Nat, artifacts' \in Nat, artifacts <= artifacts'
  PROVE  /\ \A i \in Accepted(t)', j \in Requests : j < i => j \in Accepted(t)'
         /\ \A i \in Accepted(t)' : request'[t][i].art \in Drawn'
         /\ BoundOf(t) \subseteq BoundOf(t)'
<1>1. Drawn \subseteq Drawn'
  BY DEF Drawn
<1> QED BY <1>1 DEF RequestsMove, RequestsInOrder, BindsArtifacts, BoundOf

\* The next request is the oldest: all before it have ended.
LEMMA NextIsOldest ==
  ASSUME OwnershipInvariant, CoordinationInvariant, NEW s \in Students, op[s].pc = "drain",
         RequestsInOrder(s), Pending(s) # {}
  PROVE  /\ NextOf(s) \in Requests /\ request[s][NextOf(s)].status = "QUEUED"
         /\ \A j \in Requests : j < NextOf(s) => request[s][j].status \in Ended
<1>1. Pending(s) \subseteq Nat /\ Requests \subseteq Nat
  BY DEF Pending, Requests
<1>2. \E j \in Pending(s) : \A k \in Pending(s) : j <= k
  BY <1>1, LeastElement
<1>3. NextOf(s) \in Pending(s) /\ \A k \in Pending(s) : NextOf(s) <= k
  BY <1>2 DEF NextOf
<1>4. NextOf(s) \in Requests /\ request[s][NextOf(s)].status = "QUEUED"
  BY <1>3 DEF Pending
<1>5. central = "up"
  BY HolderIsUp DEF OwnershipInvariant, Running, Awaiting
<1>6. lease[s].state # "BUSY"
  BY <1>5 DEF CoordinationInvariant, StudentFits, LeaseFitsCoroutine
<1>7. RunningOf(s) = {}
  BY <1>6 DEF CoordinationInvariant, StudentFits, RequestsFitLease
<1>8. ASSUME NEW j \in Requests, j < NextOf(s) PROVE request[s][j].status \in Ended
  <2>1. j \in Accepted(s)
    BY <1>4, <1>8 DEF RequestsInOrder, Accepted
  <2>2. j \notin Pending(s)
    BY <1>1, <1>3, <1>8
  <2>3. request[s][j].status \in RequestStates
    BY DEF OwnershipInvariant, TypeOK, Request
  <2> QED BY <1>7, <2>1, <2>2, <2>3 DEF Accepted, Pending, RunningOf, RequestStates, Ended
<1> QED BY <1>4, <1>8

-----------------------------------------------------------------------------
(* What a step of the coroutine of s does to the ids and requests of s.    *)

\* Ids of s come from where they were, or are drawn now.
LidsFrom(s) ==
  /\ lease'[s].lid \in {NoLease, lease[s].lid} \/ (lease'[s].lid = leases'
                                                   /\ leases' = leases + 1)
  /\ op'[s].lid \in {NoLease, lease[s].lid, op[s].lid}

LEMMA OutcomeLids ==
  ASSUME NEW s \in Students, StepOf(s)
  PROVE  LidsFrom(s) /\ (leases' = leases \/ leases' = leases + 1)
<1>1. \/ Leaves(s) \/ Queues(s) \/ Proceeds(s) \/ Idles(s) \/ Picks(s) \/ Submits(s)
         \/ Takes(s)
      \/ \E b \in Boards : Granted(s, b)
      \/ Deploys(s) \/ Starts(s) \/ Releases(s)
      \/ Deployed(s) \/ DeployLost(s) \/ Completes(s)
      \/ PredictLost(s) \/ Released(s) \/ ReleaseLost(s)
  BY DEF StepOf, Outcome
<1>2. CASE \/ Leaves(s) \/ Queues(s) \/ Proceeds(s) \/ Idles(s) \/ Picks(s) \/ Submits(s)
           \/ Takes(s)
  BY <1>2
  DEF LidsFrom, Leaves, Queues, Proceeds, Idles, Picks, Submits, Takes, OpGoesTo, OpBecomes,
      LeaseMoves, LeaseBecomes, SameLease
<1>3. CASE \E b \in Boards : Granted(s, b)
  BY <1>3 DEF LidsFrom, Granted, OpGoesTo, OpBecomes, LeaseBecomes
<1>4. CASE Deploys(s) \/ Starts(s) \/ Releases(s)
  BY <1>4 DEF LidsFrom, Deploys, Starts, Releases, OpBecomes, LeaseMoves, LeaseBecomes
<1>5. CASE \/ Deployed(s) \/ DeployLost(s) \/ Completes(s)
           \/ PredictLost(s) \/ Released(s) \/ ReleaseLost(s)
  BY <1>5
  DEF LidsFrom, Deployed, DeployLost, Completes, PredictLost, Released, ReleaseLost,
      OpGoesTo, OpBecomes, LeaseMoves, LeaseBecomes
<1> QED BY <1>1, <1>2, <1>3, <1>4, <1>5

LEMMA OutcomeRequests ==
  ASSUME OwnershipInvariant, NEW s \in Students, StepOf(s)
  PROVE  RequestsMove(s)
<1>1. \/ SameRequest(s) \/ Submits(s) \/ Starts(s) \/ Completes(s) \/ PredictLost(s)
  BY DEF StepOf, Outcome, Leaves, Queues, Proceeds, Granted, Idles, Picks, Deploys, Deployed,
         DeployLost, Released, ReleaseLost, Takes, Releases
<1>2. CASE SameRequest(s)
  BY <1>2, RequestsRest
<1>3. CASE Submits(s)
  <2>1. PICK i \in Requests :
          /\ request[s][i].status = "NONE"
          /\ \A j \in Requests : j < i => request[s][j].status # "NONE"
          /\ RequestBecomes(s, i, "QUEUED", None, latest[s])
    BY <1>3 DEF Submits
  <2>2. latest[s] \in Drawn
    BY <1>3 DEF Submits, OwnershipInvariant, TypeOK, Drawn, NoArtifact
  <2> QED BY <2>1, <2>2 DEF RequestsMove, RequestBecomes, Accepted
<1>4. CASE Starts(s) \/ Completes(s) \/ PredictLost(s)
  <2> DEFINE i == op[s].req
  <2>1. i \in Requests /\ request[s][i].status # "NONE"
    <3>1. i \in Requests
      BY <1>4 DEF Starts, Completes, PredictLost, OwnershipInvariant, CoroutineHoldsLease
    <3> QED BY <1>4, <3>1 DEF Starts, Completes, PredictLost, MayRun, PredictStillWanted
  <2>2. \E x \in {"RUNNING", "COMPLETED", "FAILED"} : \E b :
          RequestBecomes(s, i, x, b, request[s][i].art)
    BY <1>4 DEF Starts, Completes, PredictLost
  <2> QED BY <2>1, <2>2 DEF RequestsMove, RequestBecomes, Accepted
<1> QED BY <1>1, <1>2, <1>3, <1>4

\* What a step of s says of the call or the request that s goes on with.
GoesOnWith(s) ==
  /\ op'[s].pc \in {"deploy", "run"} =>
       /\ request'[s][op'[s].req].status = "QUEUED"
       /\ \A j \in Requests : j < op'[s].req => request'[s][j].status \in Ended
  /\ op'[s].pc \in {"deploy", "predict"} =>
       op'[s].req \in Accepted(s) /\ op'[s].art = request[s][op'[s].req].art
  /\ op'[s].lid # NoLease => op'[s].pc \in Awaiting

LEMMA OutcomeCalls ==
  ASSUME OwnershipInvariant, CoordinationInvariant, NEW s \in Students, StepOf(s),
         RequestsInOrder(s), BindsArtifacts(s)
  PROVE  GoesOnWith(s)
<1>1. CASE \/ Leaves(s) \/ Queues(s) \/ Proceeds(s) \/ (\E b \in Boards : Granted(s, b))
           \/ Idles(s) \/ DeployLost(s)
  BY <1>1
  DEF GoesOnWith, Leaves, Queues, Proceeds, Granted, Idles, DeployLost, OpGoesTo, OpBecomes
<1>2. CASE \/ Completes(s) \/ PredictLost(s) \/ Released(s) \/ ReleaseLost(s)
           \/ Submits(s) \/ Takes(s)
  BY <1>2
  DEF GoesOnWith, Completes, PredictLost, Released, ReleaseLost, Submits, Takes, OpGoesTo,
      OpBecomes
<1>3. CASE Picks(s)
  <2>1. /\ op[s].pc = "drain" /\ Pending(s) # {} /\ SameRequest(s)
        /\ op'[s].pc = "run" /\ op'[s].req = NextOf(s) /\ op'[s].lid = NoLease
    BY <1>3 DEF Picks, OpGoesTo, OpBecomes
  <2> QED BY <2>1, NextIsOldest DEF GoesOnWith, SameRequest
<1>4. CASE Deploys(s)
  <2>1. /\ op[s].pc = "drain" /\ Pending(s) # {} /\ SameRequest(s)
        /\ op'[s].pc = "deploy" /\ op'[s].req = NextOf(s)
        /\ op'[s].art = request[s][NextOf(s)].art
    BY <1>4 DEF Deploys, OpBecomes
  <2>2. NextOf(s) \in Accepted(s)
    BY <2>1, NextIsOldest DEF Accepted
  <2> QED BY <2>1, <2>2, NextIsOldest DEF GoesOnWith, SameRequest, Awaiting
<1>5. CASE Deployed(s)
  <2>1. /\ op[s].pc = "deploy" /\ SameRequest(s)
        /\ op'[s].pc = "run" /\ op'[s].req = op[s].req /\ op'[s].lid = NoLease
    BY <1>5 DEF Deployed, OpGoesTo, OpBecomes
  <2> QED BY <2>1 DEF GoesOnWith, SameRequest, RequestsInOrder
<1>6. CASE Starts(s)
  <2>1. /\ op[s].pc = "run" /\ MayRun(s) /\ op[s].req \in Requests
        /\ op'[s].pc = "predict" /\ op'[s].req = op[s].req
        /\ op'[s].art = request[s][op[s].req].art
    BY <1>6 DEF Starts, OpBecomes, OwnershipInvariant, CoroutineHoldsLease
  <2>2. op[s].req \in Accepted(s)
    BY <2>1 DEF MayRun, Accepted
  <2> QED BY <2>1, <2>2 DEF GoesOnWith, Awaiting
<1>7. CASE Releases(s)
  BY <1>7 DEF GoesOnWith, Releases, OpBecomes, Awaiting
<1> QED BY <1>1, <1>2, <1>3, <1>4, <1>5, <1>6, <1>7 DEF StepOf, Outcome

\* Requests that move forward and a coroutine that goes on with one of them.
LEMMA RequestsFit ==
  ASSUME NEW t \in Students, RequestsMove(t), GoesOnWith(t), RequestsInOrder(t),
         BindsArtifacts(t), artifacts \in Nat, artifacts' \in Nat, artifacts <= artifacts'
  PROVE  RequestsInOrder(t)' /\ BindsArtifacts(t)'
<1>1. /\ \A i \in Accepted(t)', j \in Requests : j < i => j \in Accepted(t)'
      /\ \A i \in Accepted(t)' : request'[t][i].art \in Drawn'
  BY OrderMoves
<1>2. op'[t].pc \in {"deploy", "predict"} =>
        op'[t].req \in Accepted(t)' /\ op'[t].art = request'[t][op'[t].req].art
  BY DEF GoesOnWith, RequestsMove
<1>3. RequestsInOrder(t)'
  BY <1>1 DEF RequestsInOrder, GoesOnWith
<1>4. BindsArtifacts(t)'
  BY <1>1, <1>2 DEF BindsArtifacts, GoesOnWith
<1> QED BY <1>3, <1>4

\* A coroutine that waits on, and requests that stay or, if they run, fail.
LEMMA GoesOnWaiting ==
  ASSUME OwnershipInvariant, NEW t \in Students, RequestsInOrder(t), BindsArtifacts(t),
         op'[t].pc = op[t].pc, op'[t].lid = op[t].lid, op'[t].req = op[t].req,
         op'[t].art = op[t].art,
         SameRequest(t) \/ FailsRunning(t)
  PROVE  GoesOnWith(t)
<1>1. ASSUME NEW i \in Requests
      PROVE  /\ request[t][i].status = "QUEUED" => request'[t][i].status = "QUEUED"
             /\ request[t][i].status \in Ended => request'[t][i].status \in Ended
  BY DEF SameRequest, FailsRunning, Ended
<1>2. op[t].pc \in {"deploy", "run"} => op[t].req \in Requests
  BY DEF OwnershipInvariant, CoroutineHoldsLease
<1> QED BY <1>1, <1>2 DEF RequestsInOrder, BindsArtifacts, GoesOnWith

-----------------------------------------------------------------------------
(* Artifacts travel with lease ids.                                        *)

\* Lease id l comes with artifact a: so may a board or a deployment for l.
Carried(l, a) ==
  /\ l \in 0 .. leases /\ a \in Drawn
  /\ \A s \in Students : OwnsLid(s, l) => a \in BoundOf(s)

CallCarries(c) ==
  c.lid # NoLease /\ c.lid \in 0 .. leases /\ (c.kind = "deploy" => Carried(c.lid, c.art))

LEMMA IdTypes ==
  ASSUME OwnershipInvariant
  PROVE  /\ leases \in Nat /\ artifacts \in Nat
         /\ \A s \in Students : lease[s].lid \in 0 .. leases /\ op[s].lid \in 0 .. leases
         /\ \A b \in Boards : board[b].lid \in 0 .. leases
         /\ \A c \in orphans : c.lid \in 0 .. leases
<1>1. leases \in Nat /\ artifacts \in Nat
  BY DEF OwnershipInvariant, TypeOK
<1>2. ASSUME NEW s \in Students PROVE lease[s].lid \in 0 .. leases /\ op[s].lid \in 0 .. leases
  <2>1. lease[s].lid \in Nat /\ op[s].lid \in Nat
    BY DEF OwnershipInvariant, TypeOK, Lease, Op
  <2> QED BY <1>1, <2>1 DEF OwnershipInvariant, LidsAreDrawn
<1>3. ASSUME NEW b \in Boards PROVE board[b].lid \in 0 .. leases
  <2>1. board[b].lid \in Nat
    BY DEF OwnershipInvariant, TypeOK, Board
  <2> QED BY <1>1, <2>1 DEF OwnershipInvariant, LidsAreDrawn
<1>4. ASSUME NEW c \in orphans PROVE c.lid \in 0 .. leases
  <2>1. c \in Call /\ c.lid <= leases
    BY DEF OwnershipInvariant, TypeOK, LidsAreDrawn
  <2>2. c.lid \in Nat
    BY <2>1 DEF Call
  <2> QED BY <1>1, <2>1, <2>2
<1> QED BY <1>1, <1>2, <1>3, <1>4

\* What boards hold and calls bring.
LEMMA EverybodyCarries ==
  ASSUME OwnershipInvariant, ArtifactsAreOwn
  PROVE  /\ \A b \in Boards : board[b].lid = NoLease \/ Carried(board[b].lid, board[b].art)
         /\ \A c \in orphans : CallCarries(c)
         /\ \A t \in Students : op[t].reply = "pending" => CallCarries(CallOf(t))
<1>1. ASSUME NEW b \in Boards, board[b].lid # NoLease
      PROVE  Carried(board[b].lid, board[b].art)
  BY <1>1, IdTypes DEF ArtifactsAreOwn, ArtifactsAreDrawn, HoldsOwnArtifacts, Carried
<1>2. ASSUME NEW c \in orphans PROVE CallCarries(c)
  BY IdTypes DEF ArtifactsAreOwn, ArtifactsAreDrawn, HoldsOwnArtifacts, Carried, CallCarries
<1>3. ASSUME NEW t \in Students, op[t].reply = "pending" PROVE CallCarries(CallOf(t))
  <2>1. op[t].lid # NoLease /\ op[t].lid \in 0 .. leases
    BY <1>3, IdTypes DEF OwnershipInvariant, CoroutineHoldsLease
  <2>2. ASSUME op[t].pc = "deploy" PROVE Carried(op[t].lid, op[t].art)
    <3>1. op[t].req \in Accepted(t) /\ op[t].art = request[t][op[t].req].art
      BY <2>2 DEF ArtifactsAreOwn, BindsArtifacts
    <3>2. op[t].art \in BoundOf(t) /\ op[t].art \in Drawn
      BY <3>1 DEF BoundOf, ArtifactsAreOwn, BindsArtifacts
    <3> QED BY <2>1, <3>2 DEF Carried, ArtifactsAreOwn, CallsAreOwn
  <2> QED BY <2>1, <2>2 DEF CallOf, CallCarries
<1> QED BY <1>1, <1>2, <1>3

\* An id that has been drawn belongs to s only if it did before.
LEMMA OwnsBefore ==
  ASSUME OwnershipInvariant, NEW t \in Students, LidsFrom(t), NEW l \in 0 .. leases,
         l # NoLease, l \in {lease'[t].lid, op'[t].lid}
  PROVE  OwnsLid(t, l)
  BY IdTypes DEF LidsFrom, OwnsLid

\* A step that moves ids, requests and artifacts only together.
LEMMA ArtifactsMove ==
  ASSUME OwnershipInvariant, ArtifactsAreOwn,
         leases' \in {leases, leases + 1},
         \A t \in Students : LidsFrom(t) /\ RequestsMove(t) /\ GoesOnWith(t),
         artifacts' \in Nat, artifacts <= artifacts', artifacts' <= MaxArtifacts,
         \A b \in Boards : /\ board'[b].lid = NoLease \/ Carried(board'[b].lid, board'[b].art)
                           /\ check'[b].lid # NoLease => check'[b].art \in Drawn,
         \A c \in orphans' : CallCarries(c)
  PROVE  ArtifactsAreOwn'
<1>1. /\ artifacts \in Nat /\ leases \in Nat /\ Drawn \subseteq Drawn'
  BY IdTypes DEF Drawn
<1>2. ASSUME NEW t \in Students PROVE RequestsInOrder(t)' /\ BindsArtifacts(t)'
  BY <1>1, RequestsFit DEF ArtifactsAreOwn
<1>3. ASSUME NEW t \in Students PROVE BoundOf(t) \subseteq BoundOf(t)'
  BY <1>1, OrderMoves DEF ArtifactsAreOwn
<1>4. ASSUME NEW t \in Students, NEW l, NEW a, Carried(l, a), l # NoLease,
             l \in {lease'[t].lid, op'[t].lid}
      PROVE  a \in BoundOf(t)'
  BY <1>3, <1>4, OwnsBefore DEF Carried
<1>5. ASSUME NEW t \in Students PROVE HoldsOwnArtifacts(t)'
  BY <1>4 DEF HoldsOwnArtifacts, OwnsLid, CallCarries
<1>6. CallsAreOwn'
  <2>1. ASSUME NEW s \in Students, NEW t \in Students, op'[t].lid # NoLease,
               op'[t].lid \in {lease'[s].lid, op'[s].lid}
        PROVE  s = t
    <3>1. op'[t].lid \in {lease[t].lid, op[t].lid} /\ op'[t].lid \in 0 .. leases
      BY <2>1, IdTypes DEF LidsFrom
    <3>2. OwnsLid(s, op'[t].lid)
      BY <2>1, <3>1, OwnsBefore
    <3> QED
      BY <2>1, <3>1, <3>2
      DEF OwnsLid, ArtifactsAreOwn, CallsAreOwn, OwnershipInvariant, LidsAreUnique
  <2> QED BY <2>1 DEF CallsAreOwn, OwnsLid
<1>7. ArtifactsAreDrawn'
  BY <1>1 DEF ArtifactsAreDrawn, Carried, CallCarries
<1> QED BY <1>2, <1>5, <1>6, <1>7 DEF ArtifactsAreOwn

\* Artifacts are only ever added, within the bound.
LEMMA ArtifactsGrow ==
  ASSUME OwnershipInvariant, Next, artifacts <= MaxArtifacts
  PROVE  artifacts' \in Nat /\ artifacts <= artifacts' /\ artifacts' <= MaxArtifacts
<1>1. artifacts \in Nat /\ MaxArtifacts \in Nat
  BY BoundsAssumption DEF OwnershipInvariant, TypeOK
<1>2. ASSUME NEW s \in Students, CreateArtifact(s)
      PROVE  artifacts' = artifacts + 1 /\ artifacts < MaxArtifacts
  BY <1>2 DEF CreateArtifact
<1>3. ASSUME NEW s \in Students, Coroutine(s) PROVE artifacts' = artifacts
  BY <1>3
  DEF Coroutine, ProcessStudentLocked, ReserveLease, DrainLocked, MarkRunning,
      DeploySucceeded, DeployFailed, PredictSucceeded, PredictFailed, ReleaseSucceeded,
      ReleaseFailed
<1>4. ASSUME NEW s \in Students, SubmitPredict(s) \/ GrowIdle(s) \/ Serve(s) \/ TimeOut(s)
      PROVE  artifacts' = artifacts
  BY <1>4 DEF SubmitPredict, GrowIdle, Serve, TimeOut, database
<1>5. ASSUME NEW b \in Boards,
             CheckTask(b) \/ CheckFails(b) \/ ReleaseWorker(b) \/ BoardRestart(b)
      PROVE  artifacts' = artifacts
  BY <1>5 DEF CheckTask, StatusAnswered, ApplyStatus, CheckFails, ReleaseWorker,
              BoardRestart, database
<1>6. ASSUME AllocatorTask PROVE artifacts' = artifacts
  BY <1>6 DEF AllocatorTask, AllocatorLoop, AllocatorLocks, database
<1>7. ASSUME ReaperTask PROVE artifacts' = artifacts
  <2>1. ASSUME ReapOnce PROVE artifacts' = artifacts
    BY <2>1 DEF ReapOnce
  <2>2. ASSUME ReapNext PROVE artifacts' = artifacts
    BY <2>2 DEF ReapNext, database
  <2> QED BY <1>7, <2>1, <2>2 DEF ReaperTask, ReapRelease
<1>8. ASSUME Lifespan PROVE artifacts' = artifacts
  BY <1>8 DEF Lifespan, RecoverRequests, StartServing, database
<1>9. ASSUME ServeOrphan \/ Crash PROVE artifacts' = artifacts
  BY <1>9 DEF ServeOrphan, Crash, database
<1>10. artifacts' = artifacts \/ (artifacts' = artifacts + 1 /\ artifacts < MaxArtifacts)
  BY <1>2, <1>3, <1>4, <1>5, <1>6, <1>7, <1>8, <1>9 DEF Next
<1> QED BY <1>1, <1>10

\* The coroutine of t waits on or is gone, and nothing new begins for t.
Rests(t) ==
  /\ lease'[t].lid \in {NoLease, lease[t].lid}
  /\ \/ op'[t] = FreeOp
     \/ /\ op'[t].pc = op[t].pc /\ op'[t].lid = op[t].lid /\ op'[t].req = op[t].req
        /\ op'[t].art = op[t].art
  /\ SameRequest(t) \/ FailsRunning(t)

LEMMA RestsMoves ==
  ASSUME OwnershipInvariant, ArtifactsAreOwn, NEW t \in Students, Rests(t)
  PROVE  LidsFrom(t) /\ RequestsMove(t) /\ GoesOnWith(t)
<1>1. LidsFrom(t)
  BY DEF Rests, LidsFrom, FreeOp
<1>2. RequestsMove(t)
  BY RequestsRest, FailingMoves DEF Rests
<1>3. GoesOnWith(t)
  <2>1. CASE op'[t] = FreeOp
    BY <2>1 DEF GoesOnWith, FreeOp
  <2>2. CASE op'[t] # FreeOp
    BY <2>2, GoesOnWaiting DEF Rests, ArtifactsAreOwn
  <2> QED BY <2>1, <2>2
<1> QED BY <1>1, <1>2, <1>3

\* A board comes by what it holds through a call.
LEMMA EffectCarries ==
  ASSUME OwnershipInvariant, ArtifactsAreOwn, NEW c, CallCarries(c), NEW ok, Effect(c, ok)
  PROVE  \A b \in Boards : board'[b].lid = NoLease \/ Carried(board'[b].lid, board'[b].art)
<1>1. ASSUME NEW b \in Boards
      PROVE  \/ board'[b].lid = NoLease
             \/ board'[b].lid = board[b].lid /\ board'[b].art = board[b].art
             \/ c.kind = "deploy" /\ board'[b].lid = c.lid /\ board'[b].art = c.art
  BY DEF Effect, BoardBecomes
<1> QED BY <1>1, EverybodyCarries DEF CallCarries

LEMMA StudentStepCarries ==
  ASSUME OwnershipInvariant, CoordinationInvariant, ArtifactsAreOwn, NEW s \in Students,
         StepOf(s)
  PROVE  ArtifactsAreOwn'
<1>1. /\ artifacts' = artifacts /\ artifacts \in Nat
      /\ UNCHANGED <<check, board, orphans>>
      /\ \A t \in Students \ {s} : lease'[t] = lease[t] /\ op'[t] = op[t]
                                   /\ request'[t] = request[t]
  BY IdTypes DEF StepOf
<1>2. LidsFrom(s) /\ leases' \in {leases, leases + 1}
  BY OutcomeLids
<1>3. RequestsMove(s) /\ GoesOnWith(s)
  BY OutcomeRequests, OutcomeCalls DEF ArtifactsAreOwn
<1>4. ASSUME NEW t \in Students \ {s} PROVE LidsFrom(t) /\ RequestsMove(t) /\ GoesOnWith(t)
  BY <1>1, RestsMoves DEF Rests, SameRequest
<1>5. \A b \in Boards : board[b].lid = NoLease \/ Carried(board[b].lid, board[b].art)
  BY EverybodyCarries
<1>6. \A b \in Boards : check[b].lid # NoLease => check[b].art \in Drawn
  BY DEF ArtifactsAreOwn, ArtifactsAreDrawn
<1>7. \A c \in orphans : CallCarries(c)
  BY EverybodyCarries
<1>8. artifacts <= MaxArtifacts /\ artifacts <= artifacts
  BY <1>1 DEF ArtifactsAreOwn, ArtifactsAreDrawn
<1>9. \A t \in Students : LidsFrom(t) /\ RequestsMove(t) /\ GoesOnWith(t)
  BY <1>2, <1>3, <1>4
<1> QED BY <1>1, <1>2, <1>5, <1>6, <1>7, <1>8, <1>9, ArtifactsMove

\* A step of anybody else.
LEMMA OtherStepCarries ==
  ASSUME OwnershipInvariant, ArtifactsAreOwn, Next, leases' = leases,
         \A t \in Students : Rests(t),
         \A b \in Boards : board'[b].lid = NoLease \/ Carried(board'[b].lid, board'[b].art),
         \A b \in Boards : \/ check'[b].lid \in {NoLease}
                           \/ check'[b].lid = check[b].lid /\ check'[b].art = check[b].art
                           \/ check'[b].lid = board[b].lid /\ check'[b].art = board[b].art,
         \A c \in orphans' : CallCarries(c)
  PROVE  ArtifactsAreOwn'
<1>1. \A t \in Students : LidsFrom(t) /\ RequestsMove(t) /\ GoesOnWith(t)
  BY RestsMoves
<1>2. artifacts' \in Nat /\ artifacts <= artifacts' /\ artifacts' <= MaxArtifacts
  BY ArtifactsGrow DEF ArtifactsAreOwn, ArtifactsAreDrawn
<1>3. \A b \in Boards : check'[b].lid # NoLease => check'[b].art \in Drawn
  BY DEF ArtifactsAreOwn, ArtifactsAreDrawn
<1> QED BY <1>1, <1>2, <1>3, ArtifactsMove

\* Steps that leave coroutines, boards and calls alone.
LEMMA RowStepCarries ==
  ASSUME OwnershipInvariant, ArtifactsAreOwn, Next,
         UNCHANGED <<leases, op, board, orphans>>,
         \A t \in Students : /\ lease'[t].lid \in {NoLease, lease[t].lid}
                             /\ SameRequest(t) \/ FailsRunning(t),
         \A b \in Boards : \/ check'[b].lid \in {NoLease}
                           \/ check'[b].lid = check[b].lid /\ check'[b].art = check[b].art
                           \/ check'[b].lid = board[b].lid /\ check'[b].art = board[b].art
  PROVE  ArtifactsAreOwn'
<1>1. \A t \in Students : Rests(t)
  BY DEF Rests
<1>2. \A b \in Boards : board'[b].lid = NoLease \/ Carried(board'[b].lid, board'[b].art)
  BY EverybodyCarries
<1>3. \A c \in orphans' : CallCarries(c)
  BY EverybodyCarries
<1> QED BY <1>1, <1>2, <1>3, OtherStepCarries

LEMMA QuietCarries ==
  ASSUME OwnershipInvariant, ArtifactsAreOwn, Next, Quiet
  PROVE  ArtifactsAreOwn'
<1>1. \A t \in Students : lease'[t].lid = lease[t].lid /\ SameRequest(t)
  BY DEF Quiet, SameRows, LeaseKept, LeaseMoves, LeaseBecomes
<1> QED BY <1>1, RowStepCarries DEF Quiet

LEMMA ReapsCarries ==
  ASSUME OwnershipInvariant, ArtifactsAreOwn, Next, Reaps
  PROVE  ArtifactsAreOwn'
<1>1. \A t \in Students : lease'[t].lid \in {NoLease, lease[t].lid} /\ SameRequest(t)
  BY DEF Reaps, LeaseKept, LeaseMoves, LeaseBecomes, SameRequest
<1> QED BY <1>1, RowStepCarries DEF Reaps

LEMMA ReportsCarries ==
  ASSUME OwnershipInvariant, ArtifactsAreOwn, Next, NEW b \in Boards, Reports(b)
  PROVE  ArtifactsAreOwn'
<1>1. \A t \in Students : lease'[t].lid = lease[t].lid /\ SameRequest(t)
  BY DEF Reports, SameRows, LeaseKept, LeaseMoves, LeaseBecomes
<1> QED BY <1>1, RowStepCarries DEF Reports

LEMMA CheckedCarries ==
  ASSUME OwnershipInvariant, ArtifactsAreOwn, Next, NEW b \in Boards, Checked(b),
         \A t \in Students : lease'[t].lid = lease[t].lid
                             /\ (SameRequest(t) \/ FailsRunning(t))
  PROVE  ArtifactsAreOwn'
  BY RowStepCarries DEF Checked

LEMMA ChecksCarry ==
  ASSUME OwnershipInvariant, ArtifactsAreOwn, Next, NEW b \in Boards,
         \/ Spared(b) \/ Clears(b) \/ Offline(b)
         \/ \E s \in Students : Confirms(b, s) \/ Denies(b, s)
  PROVE  ArtifactsAreOwn'
<1>1. CASE Spared(b) \/ Clears(b)
  BY <1>1, CheckedCarries DEF Spared, Clears, SameRequest
<1>2. CASE Offline(b)
  <2>1. \A t \in Students : lease'[t].lid = lease[t].lid
                            /\ (SameRequest(t) \/ FailsRunning(t))
    BY <1>2 DEF Offline, LeaseMoves, LeaseBecomes, SameLease
  <2> QED BY <1>2, <2>1, CheckedCarries DEF Offline
<1>3. ASSUME NEW s \in Students, Confirms(b, s) \/ Denies(b, s) PROVE ArtifactsAreOwn'
  <2>1. Checked(b) /\ \A t \in Students : lease'[t].lid = lease[t].lid /\ SameRequest(t)
    BY <1>3 DEF Confirms, Denies, Settles, LeaseMoves, LeaseBecomes, SameRequest
  <2> QED BY <2>1, CheckedCarries
<1> QED BY <1>1, <1>2, <1>3

LEMMA OutsideCarries ==
  ASSUME OwnershipInvariant, ArtifactsAreOwn, Next, Outside,
         \A t \in Students : /\ op'[t].pc = op[t].pc /\ op'[t].lid = op[t].lid
                             /\ op'[t].req = op[t].req /\ op'[t].art = op[t].art,
         \A b \in Boards : board'[b].lid = NoLease \/ Carried(board'[b].lid, board'[b].art),
         \A c \in orphans' : CallCarries(c)
  PROVE  ArtifactsAreOwn'
  BY OtherStepCarries DEF Outside, Rests, SameRequest

LEMMA OutsideStepCarries ==
  ASSUME OwnershipInvariant, ArtifactsAreOwn, Next,
         \/ \E s \in Students : Served(s) \/ TimedOut(s)
         \/ ServedLate \/ \E b \in Boards : Restarted(b)
  PROVE  ArtifactsAreOwn'
<1>1. /\ \A b \in Boards : board[b].lid = NoLease \/ Carried(board[b].lid, board[b].art)
      /\ \A c \in orphans : CallCarries(c)
      /\ \A t \in Students : op[t].reply = "pending" => CallCarries(CallOf(t))
  BY EverybodyCarries
<1>2. ASSUME NEW s \in Students, Served(s) PROVE ArtifactsAreOwn'
  <2>1. /\ Outside /\ orphans' = orphans /\ op[s].reply = "pending"
        /\ \E ok \in BOOLEAN : Effect(CallOf(s), ok)
        /\ \A t \in Students : /\ op'[t].pc = op[t].pc /\ op'[t].lid = op[t].lid
                               /\ op'[t].req = op[t].req /\ op'[t].art = op[t].art
    BY <1>2 DEF Served, Answered, OpBecomes
  <2> QED BY <1>1, <2>1, EffectCarries, OutsideCarries
<1>3. ASSUME NEW s \in Students, TimedOut(s) PROVE ArtifactsAreOwn'
  <2>1. /\ Outside /\ board' = board
        /\ orphans' = IF op[s].reply = "pending" THEN orphans \cup {CallOf(s)} ELSE orphans
        /\ \A t \in Students : /\ op'[t].pc = op[t].pc /\ op'[t].lid = op[t].lid
                               /\ op'[t].req = op[t].req /\ op'[t].art = op[t].art
    BY <1>3 DEF TimedOut, Answered, OpBecomes
  <2>2. \A c \in orphans' : CallCarries(c)
    BY <1>1, <2>1
  <2> QED BY <1>1, <2>1, <2>2, OutsideCarries
<1>4. CASE ServedLate
  <2>1. PICK c \in orphans : orphans' = orphans \ {c} /\ \E ok \in BOOLEAN : Effect(c, ok)
    BY <1>4 DEF ServedLate
  <2> QED BY <1>1, <1>4, <2>1, EffectCarries, OutsideCarries DEF ServedLate
<1>5. ASSUME NEW b \in Boards, Restarted(b) PROVE ArtifactsAreOwn'
  <2>1. /\ Outside /\ \A c \in orphans' : c \in orphans
        /\ \A c \in Boards : \/ board'[c].lid = NoLease
                             \/ board'[c].lid = board[c].lid /\ board'[c].art = board[c].art
        /\ \A t \in Students : /\ op'[t].pc = op[t].pc /\ op'[t].lid = op[t].lid
                               /\ op'[t].req = op[t].req /\ op'[t].art = op[t].art
    BY <1>5 DEF Restarted, BoardBecomes, Answered, OpBecomes
  <2> QED BY <1>1, <2>1, OutsideCarries
<1> QED BY <1>2, <1>3, <1>4, <1>5

LEMMA LifeCycleCarries ==
  ASSUME OwnershipInvariant, ArtifactsAreOwn, Next, Crashed \/ Recovers \/ Serves
  PROVE  ArtifactsAreOwn'
<1>1. CASE Crashed
  <2>1. /\ leases' = leases /\ board' = board /\ \A b \in Boards : check'[b].lid = NoLease
        /\ \A t \in Students : Rests(t)
        /\ orphans' = orphans \cup {CallOf(s) : s \in {t \in Students : op[t].reply = "pending"}}
    BY <1>1 DEF Crashed, Rests
  <2>2. /\ \A b \in Boards : board[b].lid = NoLease \/ Carried(board[b].lid, board[b].art)
        /\ \A c \in orphans' : CallCarries(c)
    BY <2>1, EverybodyCarries
  <2> QED BY <2>1, <2>2, OtherStepCarries
<1>2. CASE Recovers
  <2>1. \A t \in Students : lease'[t].lid = lease[t].lid /\ FailsRunning(t)
    BY <1>2 DEF Recovers, LeaseMoves, LeaseBecomes, SameLease
  <2> QED BY <1>2, <2>1, RowStepCarries DEF Recovers
<1>3. CASE Serves
  BY <1>3, RowStepCarries DEF Serves, SameRequest
<1> QED BY <1>1, <1>2, <1>3

LEMMA StepCarries ==
  ASSUME OwnershipInvariant, CoordinationInvariant, ArtifactsAreOwn, Next
  PROVE  ArtifactsAreOwn'
  BY StepKinds, StudentStepCarries, QuietCarries, ReapsCarries, ReportsCarries, ChecksCarry,
     OutsideStepCarries, LifeCycleCarries


LEMMA InitialArtifacts ==
  Init => ArtifactsAreOwn
<1> SUFFICES ASSUME Init PROVE ArtifactsAreOwn
  OBVIOUS
<1>1. ASSUME NEW s \in Students
      PROVE  /\ lease[s].lid = NoLease /\ op[s].lid = NoLease /\ op[s].pc = "free"
             /\ Accepted(s) = {}
  BY DEF Init, FreeOp, Accepted
<1>2. /\ orphans = {} /\ artifacts = 0
      /\ \A b \in Boards : board[b].lid = NoLease /\ check[b].lid = NoLease
  BY DEF Init, NoStatus
<1>3. ASSUME NEW s \in Students
      PROVE  RequestsInOrder(s) /\ BindsArtifacts(s) /\ HoldsOwnArtifacts(s)
  BY <1>1, <1>2 DEF RequestsInOrder, BindsArtifacts, HoldsOwnArtifacts, OwnsLid
<1>4. CallsAreOwn
  BY <1>1 DEF CallsAreOwn, OwnsLid
<1>5. ArtifactsAreDrawn
  BY <1>2, BoundsAssumption DEF ArtifactsAreDrawn
<1> QED BY <1>3, <1>4, <1>5 DEF ArtifactsAreOwn

LEMMA StutterKeeps ==
  ASSUME ArtifactsAreOwn, UNCHANGED vars
  PROVE  ArtifactsAreOwn'
<1>1. UNCHANGED <<lease, request, artifacts, op, check, board, orphans>>
  BY DEF vars, database, tasks, world
<1>2. \A s \in Students : Accepted(s)' = Accepted(s) /\ BoundOf(s)' = BoundOf(s)
  BY <1>1 DEF Accepted, BoundOf
<1>3. \A s \in Students : RequestsInOrder(s)' /\ BindsArtifacts(s)' /\ HoldsOwnArtifacts(s)'
  BY <1>1, <1>2 DEF ArtifactsAreOwn, RequestsInOrder, BindsArtifacts, HoldsOwnArtifacts,
                    OwnsLid, Drawn
<1>4. CallsAreOwn'
  BY <1>1 DEF ArtifactsAreOwn, CallsAreOwn, OwnsLid
<1>5. ArtifactsAreDrawn'
  BY <1>1 DEF ArtifactsAreOwn, ArtifactsAreDrawn, Drawn
<1> QED BY <1>3, <1>4, <1>5 DEF ArtifactsAreOwn

(* Whatever crashes, restarts or arrives late: every board, call and row   *)
(* that carries a lease id of a student carries an artifact one of his     *)
(* requests was bound to (lease_manager._drain_locked, _deploy and         *)
(* worker/app/state.py).                                                   *)
THEOREM ArtifactsStayOwn == Spec => []ArtifactsAreOwn
<1>1. Init => ArtifactsAreOwn
  BY InitialArtifacts
<1>2. OwnershipInvariant /\ CoordinationInvariant /\ ArtifactsAreOwn /\ [Next]_vars
        => ArtifactsAreOwn'
  BY StepCarries, StutterKeeps
<1> QED BY <1>1, <1>2, InvariantHolds, CoordinationHolds, PTL DEF Spec

-----------------------------------------------------------------------------
(* Only the board itself answers a call with success.                      *)

LEMMA OutcomeReply ==
  ASSUME NEW s \in Students, StepOf(s)
  PROVE  op'[s].reply \in {"none", "pending"}
<1>1. CASE \/ Leaves(s) \/ Queues(s) \/ Proceeds(s) \/ (\E b \in Boards : Granted(s, b))
           \/ Idles(s) \/ Picks(s) \/ Deployed(s) \/ DeployLost(s)
  BY <1>1
  DEF Leaves, Queues, Proceeds, Granted, Idles, Picks, Deployed, DeployLost, OpGoesTo,
      OpBecomes
<1>2. CASE \/ Completes(s) \/ PredictLost(s) \/ Released(s) \/ ReleaseLost(s)
           \/ Submits(s) \/ Takes(s) \/ Deploys(s) \/ Starts(s) \/ Releases(s)
  BY <1>2
  DEF Completes, PredictLost, Released, ReleaseLost, Submits, Takes, Deploys, Starts,
      Releases, OpGoesTo, OpBecomes
<1> QED BY <1>1, <1>2 DEF StepOf, Outcome

LEMMA AnsweredByBoard ==
  ASSUME OwnershipInvariant, Next, NEW s \in Students, op[s].reply = "pending",
         op'[s].reply = "ok"
  PROVE  Served(s)
<1>1. ASSUME NEW t \in Students, StepOf(t) \/ Served(t) \/ TimedOut(t) PROVE Served(s)
  BY <1>1, OutcomeReply DEF StepOf, Served, TimedOut, Answered, OpBecomes
<1>2. ASSUME NEW b \in Boards,
             \/ Reports(b) \/ Spared(b) \/ Clears(b) \/ Offline(b) \/ Restarted(b)
             \/ \E t \in Students : Confirms(b, t) \/ Denies(b, t)
      PROVE  FALSE
  BY <1>2
  DEF Reports, Spared, Clears, Offline, Restarted, Confirms, Denies, Settles, Checked,
      Answered, OpBecomes
<1>3. CASE Quiet \/ Reaps \/ ServedLate \/ Crashed \/ Recovers \/ Serves
  BY <1>3 DEF Quiet, Reaps, ServedLate, Crashed, Recovers, Serves, FreeOp
<1> QED BY <1>1, <1>2, <1>3, StepKinds

\* A successful prediction found its own lease on the board, with an overlay loaded.
LEMMA PredictionFinds ==
  ASSUME OwnershipInvariant, Next, NEW s \in Students, op[s].pc = "predict",
         op[s].reply = "pending", op'[s].reply = "ok"
  PROVE  /\ op[s].board \in Boards /\ op[s].lid # NoLease
         /\ board[op[s].board].lid = op[s].lid
<1>1. PICK ok \in BOOLEAN :
        Effect(CallOf(s), ok) /\ Answered(s, IF ok THEN "ok" ELSE "error")
  BY AnsweredByBoard DEF Served
<1>2. ok = TRUE
  BY <1>1 DEF Answered, OpBecomes
<1>3. op[s].board \in Boards /\ op[s].lid # NoLease
  BY DEF OwnershipInvariant, CoroutineHoldsLease, Awaiting
<1>4. CallOf(s).kind = "predict" /\ CallOf(s).board = op[s].board /\ CallOf(s).lid = op[s].lid
  BY DEF CallOf
<1> QED BY <1>1, <1>2, <1>3, <1>4 DEF Effect

(* A student's image is never run on another student's overlay, whatever   *)
(* restarts, times out or arrives late (the lease id that                  *)
(* WorkerState.predict compares is what keeps them apart).                 *)
THEOREM PredictionsUseOwnArtifacts == Spec => PredictsOnOwnArtifact
<1>1. ASSUME OwnershipInvariant, ArtifactsAreOwn, Next, NEW s \in Students,
             op[s].pc = "predict", op[s].reply = "pending", op'[s].reply = "ok"
      PROVE  \E i \in Requests : /\ request[s][i].status # "NONE"
                                 /\ request[s][i].art = board[op[s].board].art
  <2>1. /\ op[s].board \in Boards /\ op[s].lid # NoLease
        /\ board[op[s].board].lid = op[s].lid
    BY <1>1, PredictionFinds
  <2>2. board[op[s].board].art \in BoundOf(s)
    BY <1>1, <2>1 DEF ArtifactsAreOwn, HoldsOwnArtifacts, OwnsLid
  <2> QED BY <2>2 DEF BoundOf, Accepted
<1>2. OwnershipInvariant /\ ArtifactsAreOwn /\ [Next]_vars
        => [\A s \in Students :
              (op[s].pc = "predict" /\ op[s].reply = "pending" /\ op'[s].reply = "ok")
                => \E i \in Requests : /\ request[s][i].status # "NONE"
                                       /\ request[s][i].art = board[op[s].board].art]_vars
  BY <1>1
<1> QED BY <1>2, InvariantHolds, ArtifactsStayOwn, PTL DEF Spec, PredictsOnOwnArtifact

-----------------------------------------------------------------------------
(* What the rows say of the overlays, as long as Central, or neither       *)
(* Central nor a board, restarts.                                          *)

\* What has been proved for every environment.
Groundwork == OwnershipInvariant /\ CoordinationInvariant /\ ArtifactsAreOwn

LEMMA GroundworkStep ==
  ASSUME Groundwork, Next
  PROVE  Groundwork'
  BY EveryStep, EveryStepFits, StepCarries DEF Groundwork

\* What is known of a student between two steps.
LEMMA StudentKnown ==
  ASSUME Groundwork, NEW t \in Students
  PROVE  /\ op[t].pc \in {"free"} \cup Running \cup Awaiting /\ lease[t].state \in LeaseStates
         /\ Active(t) => /\ lease[t].lid # NoLease /\ lease[t].worker \in Boards
                         /\ worker[lease[t].worker].lid = lease[t].lid
         /\ StudentFits(t) /\ RequestsInOrder(t) /\ BindsArtifacts(t)
         /\ op[t].pc \in Awaiting =>
              central = "up" /\ op[t].board \in Boards /\ op[t].lid # NoLease
         /\ op[t].pc \notin Awaiting => op[t].lid = NoLease /\ op[t].reply = "none"
         /\ op[t].pc = "run" => Active(t) /\ op[t].req \in Requests
<1>1. op[t] \in Op /\ lease[t] \in Lease
  BY DEF Groundwork, OwnershipInvariant, TypeOK
<1>2. op[t].pc \in Awaiting => central = "up"
  BY DEF Groundwork, OwnershipInvariant, OnlyUpHasTasks, FreeOp, Awaiting
<1> QED
  BY <1>1, <1>2
  DEF Groundwork, OwnershipInvariant, LeaseOwnsBoard, CoroutineHoldsLease,
      CoordinationInvariant, ArtifactsAreOwn, BindsArtifacts, Op, Lease

\* An id of t in a call is t's call.
LEMMA OwnCall ==
  ASSUME Groundwork, NEW s \in Students, NEW t \in Students, op[s].lid # NoLease,
         op[s].lid \in {lease[t].lid, op[t].lid}
  PROVE  s = t
  BY DEF Groundwork, ArtifactsAreOwn, CallsAreOwn, OwnsLid

\* A lease that awaits an answer is in no state but that of the call.
LEMMA CallShowsInRow ==
  ASSUME Groundwork, NEW t \in Students
  PROVE  /\ op[t].pc = "deploy" => lease[t].state \in {"DEPLOYING"} \cup Taken
         /\ op[t].pc = "predict" => lease[t].state \in {"BUSY"} \cup Taken
         /\ op[t].pc = "release" => lease[t].state \in {"RELEASING"} \cup Taken
  BY StudentKnown DEF StudentFits, LeaseFitsCoroutine, Awaiting

\* An answer that no longer counts is for a lease that has been taken away.
LEMMA UnwantedIsTaken ==
  ASSUME Groundwork, NEW s \in Students, op[s].pc \in Awaiting,
         \/ op[s].pc = "deploy" /\ ~DeployStillWanted(s)
         \/ op[s].pc = "predict" /\ ~(PredictStillWanted(s) /\ lease[s].state = "BUSY")
         \/ op[s].pc = "release" /\ ~ReleaseStillWanted(s)
  PROVE  ~Active(s)
<1> SUFFICES ASSUME Active(s) PROVE FALSE
  OBVIOUS
<1>1. StillOwned(s)
  BY StudentKnown DEF StudentFits, HolderKnowsLease, StillOwned
<1>2. \/ op[s].pc = "deploy" /\ lease[s].state = "DEPLOYING"
      \/ op[s].pc = "predict" /\ lease[s].state = "BUSY"
      \/ op[s].pc = "release" /\ lease[s].state = "RELEASING"
  BY CallShowsInRow DEF Active, ActiveStates, Taken, Awaiting
<1>3. op[s].pc = "predict" => PredictStillWanted(s)
  BY <1>1, <1>2, StudentKnown
  DEF StudentFits, RequestsFitLease, RunningOf, PredictStillWanted
<1> QED BY <1>1, <1>2, <1>3 DEF DeployStillWanted, ReleaseStillWanted

-----------------------------------------------------------------------------
(* No late call carries the id of a lease in use but its caller's.         *)

\* Between two calls of s, and after a call that succeeded, nobody's late call is for
\* the lease of s.
LEMMA NoCallLingers ==
  ASSUME Groundwork, NEW s \in Students, OrphansAreStale(s), Active(s),
         op[s].pc \notin Awaiting \/ (op[s].reply = "ok" /\ op[s].lid = lease[s].lid)
  PROVE  \A c \in orphans : c.lid # lease[s].lid
BY StudentKnown DEF OrphansAreStale

\* The ids that a step of s leaves in the row and in the coroutine of s.
LEMMA StepIsFresh ==
  ASSUME Groundwork, NEW s \in Students, OrphansAreStale(s), StepOf(s)
  PROVE  /\ op'[s].lid # NoLease => op'[s].lid = lease'[s].lid /\ Active(s)'
         /\ Active(s)' => \A c \in orphans : c.lid # lease'[s].lid
<1>1. CASE \/ Queues(s) \/ DeployLost(s) \/ PredictLost(s) \/ Released(s) \/ ReleaseLost(s)
  BY <1>1
  DEF Queues, DeployLost, PredictLost, Released, ReleaseLost, OpGoesTo, OpBecomes, Active,
      ActiveStates, LeaseMoves, LeaseBecomes
<1>2. CASE Leaves(s)
  <2>1. op'[s].lid = NoLease /\ lease'[s] = lease[s]
    BY <1>2 DEF Leaves, OpGoesTo, OpBecomes, SameLease
  <2>2. op[s].pc \in {"reserve", "run"} \/ ~Active(s)
    BY <1>2, UnwantedIsTaken DEF Leaves, Awaiting
  <2> QED BY <2>1, <2>2, NoCallLingers DEF Active, Awaiting
<1>3. CASE \/ Proceeds(s) \/ Idles(s) \/ Picks(s) \/ Submits(s) \/ Takes(s)
  <2>1. /\ op'[s].lid = NoLease /\ op[s].pc \notin Awaiting
        /\ lease'[s].lid = lease[s].lid
    BY <1>3
    DEF Proceeds, Idles, Picks, Submits, Takes, OpGoesTo, OpBecomes, SameLease, LeaseMoves,
        LeaseBecomes, Awaiting
  <2>2. Active(s)' => Active(s)
    <3>1. CASE Idles(s)
      BY <3>1, StudentKnown DEF Idles, StudentFits, LeaseFitsCoroutine, Active, ActiveStates,
                                Groundwork, OwnershipInvariant, CoroutineHoldsLease
    <3>2. CASE \/ Proceeds(s) \/ Picks(s) \/ Submits(s) \/ Takes(s)
      BY <3>2 DEF Proceeds, Picks, Submits, Takes, SameLease, Active
    <3> QED BY <1>3, <3>1, <3>2
  <2> QED BY <2>1, <2>2, NoCallLingers
<1>4. CASE \E b \in Boards : Granted(s, b)
  <2>1. op'[s].lid = NoLease /\ lease'[s].lid = leases + 1
    BY <1>4 DEF Granted, OpGoesTo, OpBecomes, LeaseBecomes
  <2>2. leases \in Nat /\ \A c \in orphans : c.lid \in 0 .. leases
    BY IdTypes DEF Groundwork
  <2> QED BY <2>1, <2>2
<1>5. CASE Deployed(s) \/ Completes(s)
  <2>1. /\ op'[s].lid = NoLease /\ op[s].reply = "ok" /\ lease'[s].lid = lease[s].lid
        /\ StillOwned(s) /\ lease[s].state \in {"DEPLOYING", "BUSY"}
    BY <1>5
    DEF Deployed, Completes, OpGoesTo, OpBecomes, LeaseMoves, LeaseBecomes, DeployStillWanted,
        PredictStillWanted
  <2> QED BY <2>1, NoCallLingers DEF StillOwned, Active, ActiveStates
<1>6. CASE Deploys(s) \/ Starts(s) \/ Releases(s)
  <2>1. /\ op'[s].lid = lease[s].lid /\ lease'[s].lid = lease[s].lid
        /\ lease'[s].state \in {"DEPLOYING", "BUSY", "RELEASING"}
        /\ op[s].pc \in {"drain", "run", "free"}
        /\ op[s].pc = "free" => MayRelease(s)
    BY <1>6 DEF Deploys, Starts, Releases, OpBecomes, LeaseMoves, LeaseBecomes
  <2>2. Active(s) /\ op[s].pc \notin Awaiting
    BY <2>1 DEF Groundwork, OwnershipInvariant, CoroutineHoldsLease, MayRelease, Active,
                ActiveStates, Awaiting
  <2> QED BY <2>1, <2>2, NoCallLingers DEF Active, ActiveStates
<1> QED BY <1>1, <1>2, <1>3, <1>4, <1>5, <1>6 DEF StepOf, Outcome

-----------------------------------------------------------------------------
(* A board that still holds the lease has the artifact of the lease's row. *)

\* The states of a lease whose artifact is settled.
Deployable == {"RESERVED", "READY", "BUSY", "RELEASING"}

RowFollows(s) ==
  lease[s].state \in Deployable =>
    LET d == board[lease[s].worker] IN d.lid = lease[s].lid => d.art = lease[s].art

\* A lease with the same board, id and artifact, settled before and after.
LEMMA RowStaysSettled ==
  ASSUME NEW s \in Students, OverlayFollowsRows(s), board' = board,
         lease[s].state \in Deployable, NEW x, LeaseMoves(s, x)
  PROVE  RowFollows(s)'
  BY DEF OverlayFollowsRows, RowFollows, LeaseMoves, LeaseBecomes, Deployable

LEMMA StepKeepsRow ==
  ASSUME Groundwork, NEW s \in Students, OverlayFollowsRows(s), StepOf(s)
  PROVE  RowFollows(s)'
<1>0. board' = board
  BY DEF StepOf
<1>1. CASE \/ Queues(s) \/ DeployLost(s) \/ PredictLost(s) \/ Released(s) \/ ReleaseLost(s)
           \/ Deploys(s)
  BY <1>1
  DEF Queues, DeployLost, PredictLost, Released, ReleaseLost, Deploys, LeaseMoves,
      LeaseBecomes, RowFollows, Deployable
<1>2. CASE Leaves(s) \/ Proceeds(s) \/ Picks(s) \/ Submits(s) \/ Takes(s)
  <2>1. lease'[s] = lease[s]
    BY <1>2 DEF Leaves, Proceeds, Picks, Submits, Takes, SameLease
  <2> QED BY <1>0, <2>1 DEF OverlayFollowsRows, RowFollows, Deployable
<1>3. CASE Idles(s) \/ Starts(s) \/ Completes(s) \/ Releases(s)
  <2>1. lease[s].state \in Deployable
    BY <1>3, StudentKnown
    DEF Idles, Starts, Completes, Releases, MayRun, MayRelease, StudentFits,
        LeaseFitsCoroutine, Groundwork, StepOf, Deployable
  <2>2. \E x : LeaseMoves(s, x)
    BY <1>3 DEF Idles, Starts, Completes, Releases
  <2> QED BY <1>0, <2>1, <2>2, RowStaysSettled
<1>4. CASE \E b \in Boards : Granted(s, b)
  <2>1. PICK b \in Boards : lease'[s].worker = b /\ lease'[s].lid = leases + 1
    BY <1>4 DEF Granted, LeaseBecomes
  <2>2. leases \in Nat /\ board[b].lid \in 0 .. leases
    BY IdTypes DEF Groundwork
  <2>3. board[b].lid # leases + 1
    BY <2>2
  <2> QED BY <1>0, <2>1, <2>3 DEF RowFollows
<1>5. CASE Deployed(s)
  <2>1. /\ op[s].pc = "deploy" /\ op[s].reply = "ok" /\ StillOwned(s) /\ Active(s)
        /\ lease'[s].worker = lease[s].worker /\ lease'[s].lid = lease[s].lid
        /\ lease'[s].art = op[s].art
    BY <1>5 DEF Deployed, DeployStillWanted, LeaseBecomes, Active, ActiveStates
  <2>2. lease[s].worker = op[s].board /\ lease[s].lid = op[s].lid
    BY <2>1, StudentKnown DEF StudentFits, HolderKnowsLease, Awaiting
  <2> QED BY <1>0, <2>1, <2>2 DEF OverlayFollowsRows, RowFollows
<1> QED BY <1>1, <1>2, <1>3, <1>4, <1>5 DEF StepOf, Outcome

\* The other two clauses: what a coroutine of s goes on with.
CallFollows(s) ==
  /\ op[s].pc = "run" => lease[s].art = request[s][op[s].req].art
  /\ op[s].pc = "predict" \/ (op[s].pc = "deploy" /\ op[s].reply = "ok") =>
       LET d == board[op[s].board] IN d.lid = op[s].lid => d.art = op[s].art

LEMMA StepKeepsCall ==
  ASSUME Groundwork, NEW s \in Students, OverlayFollowsRows(s), StepOf(s)
  PROVE  CallFollows(s)'
<1>1. CASE Leaves(s) \/ Queues(s) \/ Proceeds(s) \/ (\E b \in Boards : Granted(s, b))
           \/ Idles(s) \/ DeployLost(s)
  BY <1>1
  DEF CallFollows, Leaves, Queues, Proceeds, Granted, Idles, DeployLost, OpGoesTo, OpBecomes
<1>2. CASE \/ Completes(s) \/ PredictLost(s) \/ Released(s) \/ ReleaseLost(s)
           \/ Submits(s) \/ Takes(s) \/ Deploys(s) \/ Releases(s)
  BY <1>2
  DEF CallFollows, Completes, PredictLost, Released, ReleaseLost, Submits, Takes, Deploys,
      Releases, OpGoesTo, OpBecomes
<1>3. CASE Picks(s)
  BY <1>3
  DEF CallFollows, Picks, OpGoesTo, OpBecomes, SameLease, SameRequest, AlreadyDeployed
<1>4. CASE Deployed(s)
  <2>1. op[s].art = request[s][op[s].req].art
    BY <1>4, StudentKnown DEF Deployed, BindsArtifacts
  <2> QED
    BY <1>4, <2>1
    DEF CallFollows, Deployed, OpGoesTo, OpBecomes, LeaseBecomes, SameRequest
<1>5. CASE Starts(s)
  <2>1. /\ op'[s].pc = "predict" /\ op'[s].board = lease[s].worker
        /\ op'[s].lid = lease[s].lid /\ op'[s].art = request[s][op[s].req].art
        /\ op[s].pc = "run" /\ lease[s].state = "READY" /\ board' = board
    BY <1>5 DEF Starts, MayRun, OpBecomes, StepOf
  <2> QED BY <2>1 DEF OverlayFollowsRows, CallFollows
<1> QED BY <1>1, <1>2, <1>3, <1>4, <1>5 DEF StepOf, Outcome

LEMMA StudentStepFollows ==
  ASSUME Groundwork, OverlaysFollow, NEW s \in Students, StepOf(s)
  PROVE  OverlaysFollow'
<1>1. /\ central = "up" /\ central' = "up" /\ UNCHANGED <<board, orphans>>
      /\ \A t \in Students \ {s} : lease'[t] = lease[t] /\ op'[t] = op[t]
                                   /\ request'[t] = request[t]
  BY StudentFacts DEF StepOf, Groundwork
<1>2. OrphansAreStale(s) /\ OverlayFollowsRows(s)
  BY DEF OverlaysFollow
<1>3. OverlayFollowsRows(s)'
  <2>1. RowFollows(s)' /\ CallFollows(s)'
    BY <1>2, StepKeepsRow, StepKeepsCall
  <2> QED BY <2>1 DEF OverlayFollowsRows, RowFollows, CallFollows, Deployable
<1>4. OrphansAreStale(s)'
  <2>1. /\ op'[s].lid # NoLease => op'[s].lid = lease'[s].lid /\ Active(s)'
        /\ Active(s)' => \A c \in orphans : c.lid # lease'[s].lid
    BY <1>2, StepIsFresh
  <2>2. \A c \in orphans : c.lid # NoLease
    BY DEF Groundwork, ArtifactsAreOwn, ArtifactsAreDrawn
  <2> QED BY <1>1, <2>1, <2>2 DEF OrphansAreStale
<1>5. ASSUME NEW t \in Students \ {s} PROVE OrphansAreStale(t)' /\ OverlayFollowsRows(t)'
  BY <1>1 DEF OverlaysFollow, OrphansAreStale, OverlayFollowsRows, Active
<1> QED BY <1>1, <1>3, <1>4, <1>5 DEF OverlaysFollow

-----------------------------------------------------------------------------
(* Steps that leave coroutines, boards and calls alone.                    *)

LEMMA RowsFollow ==
  ASSUME Groundwork, Groundwork', OverlaysFollow, UNCHANGED <<op, board, orphans>>,
         central' # "up" => central # "up",
         \A t \in Students : /\ LeaseKept(t) \/ ~(Active(t)')
                             /\ SameRequest(t) \/ FailsRunning(t)
  PROVE  OverlaysFollow'
<1>1. ASSUME NEW t \in Students, ~(Active(t)')
      PROVE  OrphansAreStale(t)' /\ OverlayFollowsRows(t)'
  <2>1. op[t].pc # "run"
    BY <1>1, StudentKnown DEF Groundwork, OwnershipInvariant, CoroutineHoldsLease
  <2> QED
    BY <1>1, <2>1
    DEF OverlaysFollow, OrphansAreStale, OverlayFollowsRows, Active, ActiveStates
<1>2. ASSUME NEW t \in Students, LeaseKept(t)
      PROVE  /\ OrphansAreStale(t)' /\ OverlayFollowsRows(t)'
             /\ Active(t)' => Active(t)
  <2>1. Active(t)' => Active(t)
    BY <1>2 DEF LeaseKept, LeaseMoves, LeaseBecomes, Active
  <2>2. OrphansAreStale(t)'
    BY <1>2, <2>1 DEF OverlaysFollow, OrphansAreStale, LeaseKept, LeaseMoves, LeaseBecomes
  <2>3. op[t].pc = "run" => request'[t][op[t].req].art = request[t][op[t].req].art
    BY StudentKnown DEF SameRequest, FailsRunning
  <2>4. OverlayFollowsRows(t)'
    BY <1>2, <2>3 DEF OverlaysFollow, OverlayFollowsRows, LeaseKept, LeaseMoves, LeaseBecomes
  <2> QED BY <2>1, <2>2, <2>4
<1> QED BY <1>1, <1>2 DEF OverlaysFollow

\* Recovery finds no lease in use: only a monitor's check settles one, and it was READY.
LEMMA SettledWasReady ==
  ASSUME Groundwork, OverlaysFollow, NEW b \in Boards, NEW s \in Students, NEW x, NEW y,
         Settles(b, s, x, y)
  PROVE  lease[s].state = "READY" /\ central' = central
  BY DEF Settles, Checked, IsLeaseOf, OverlaysFollow, Active

LEMMA BackgroundFollows ==
  ASSUME Groundwork, OverlaysFollow, Next,
         \/ Quiet \/ Reaps \/ Recovers \/ Serves
         \/ \E b \in Boards : Reports(b) \/ Spared(b) \/ Clears(b) \/ Offline(b)
         \/ \E b \in Boards, s \in Students : Confirms(b, s) \/ Denies(b, s)
  PROVE  OverlaysFollow'
<1>0. Groundwork'
  BY GroundworkStep
<1>1. CASE Quiet \/ \E b \in Boards : Reports(b)
  BY <1>0, <1>1, RowsFollow DEF Quiet, Reports, SameRows
<1>2. CASE Reaps
  BY <1>0, <1>2, RowsFollow
  DEF Reaps, LeaseBecomes, Active, ActiveStates, SameRequest
<1>3. CASE Recovers
  <2>1. \A t \in Students : LeaseKept(t) \/ ~(Active(t)')
    BY <1>3
    DEF Recovers, LeaseKept, LeaseMoves, LeaseBecomes, SameLease, Active, ActiveStates
  <2> QED BY <1>0, <1>3, <2>1, RowsFollow DEF Recovers
<1>4. CASE Serves \/ \E b \in Boards : Spared(b) \/ Clears(b)
  <2>1. /\ UNCHANGED <<lease, request, op, board, orphans>>
        /\ central' # "up" => central # "up"
    BY <1>4 DEF Serves, Spared, Clears, Checked
  <2> QED
    BY <1>0, <2>1, RowsFollow DEF LeaseKept, LeaseMoves, LeaseBecomes, SameRequest
<1>5. ASSUME NEW b \in Boards, Offline(b) PROVE OverlaysFollow'
  <2>1. \A t \in Students : /\ LeaseKept(t) \/ ~(Active(t)')
                            /\ SameRequest(t) \/ FailsRunning(t)
    BY <1>5
    DEF Offline, LeaseKept, LeaseMoves, LeaseBecomes, SameLease, Active, ActiveStates
  <2> QED BY <1>0, <1>5, <2>1, RowsFollow DEF Offline, Checked
<1>6. ASSUME NEW b \in Boards, NEW s \in Students, Confirms(b, s) \/ Denies(b, s)
      PROVE  OverlaysFollow'
  <2>1. PICK x \in {"READY", "LOST"} : \E y : Settles(b, s, x, y)
    BY <1>6 DEF Confirms, Denies
  <2>2. /\ lease[s].state = "READY" /\ central' = central /\ LeaseMoves(s, x)
        /\ UNCHANGED <<op, board, orphans, request>>
        /\ \A t \in Students \ {s} : lease'[t] = lease[t]
    BY <2>1, SettledWasReady DEF Settles, Checked
  <2>3. \A t \in Students : LeaseKept(t) \/ ~(Active(t)')
    BY <2>1, <2>2 DEF LeaseKept, LeaseMoves, LeaseBecomes, Active, ActiveStates
  <2> QED BY <1>0, <2>2, <2>3, RowsFollow DEF SameRequest
<1> QED BY <1>1, <1>2, <1>3, <1>4, <1>5, <1>6

-----------------------------------------------------------------------------
(* Steps of the boards and of the network.                                 *)

\* What a call that is served leaves on the boards.
LEMMA EffectLeaves ==
  ASSUME NEW c, NEW ok \in BOOLEAN, Effect(c, ok), NEW b \in Boards
  PROVE  /\ \/ board'[b].lid = NoLease
            \/ board'[b].lid = board[b].lid /\ board'[b].art = board[b].art
            \/ c.kind = "deploy" /\ board'[b].lid = c.lid /\ board'[b].art = c.art
         /\ ok /\ c.kind = "deploy" /\ b = c.board =>
              board'[b].lid = c.lid /\ board'[b].art = c.art /\ board'[b].ready
         /\ \/ board'[b] = board[b] /\ (ok => c.kind = "predict")
            \/ b # c.board /\ board'[b] = board[b]
            \/ b = c.board /\ board[b].lid \in {NoLease, c.lid}
  BY DEF Effect, BoardBecomes, MayDeploy

\* A late call never bears the id of a lease that is settled, or of a call that waits
\* for its board or has its answer.
LEMMA LateIsForNobody ==
  ASSUME Groundwork, NEW t \in Students, OrphansAreStale(t), NEW c \in orphans
  PROVE  /\ c.lid = lease[t].lid /\ Active(t) =>
              lease[t].state \in {"DEPLOYING", "BUSY", "RELEASING"} /\ op[t].reply = "error"
         /\ c.kind = "deploy" /\ lease[t].state \in Deployable => c.lid # lease[t].lid
         /\ op[t].pc = "predict" \/ (op[t].pc = "deploy" /\ op[t].reply = "ok") =>
              c.lid # op[t].lid \/ c.kind # "deploy"
<1>1. c.lid # NoLease
  BY DEF Groundwork, ArtifactsAreOwn, ArtifactsAreDrawn
<1>2. ASSUME c.lid = lease[t].lid, Active(t)
      PROVE  /\ op[t].reply = "error" /\ c.kind = op[t].pc
             /\ lease[t].state \in {"DEPLOYING", "BUSY", "RELEASING"}
             /\ c.kind = "deploy" => lease[t].state = "DEPLOYING"
  <2>1. op[t].lid = c.lid /\ op[t].reply = "error" /\ c.kind = op[t].pc
    BY <1>2 DEF OrphansAreStale
  <2>2. op[t].pc \in Awaiting
    BY <1>1, <2>1, StudentKnown
  <2> QED BY <1>2, <2>1, <2>2, CallShowsInRow DEF Active, ActiveStates, Taken, Awaiting
<1>3. lease[t].state \in Deployable => Active(t) /\ lease[t].state # "DEPLOYING"
  BY DEF Deployable, Active, ActiveStates
<1> QED BY <1>2, <1>3 DEF OrphansAreStale

\* Calls go on, and at most their answers change.
OnlyAnswers ==
  \A t \in Students : /\ op'[t].pc = op[t].pc /\ op'[t].req = op[t].req
                      /\ op'[t].board = op[t].board /\ op'[t].lid = op[t].lid
                      /\ op'[t].art = op[t].art

\* A board's new content is what it had, nothing, or the artifact of the call it served.
LEMMA OutsideFollows ==
  ASSUME Groundwork, OverlaysFollow, Outside, OnlyAnswers,
         \A t \in Students : OrphansAreStale(t)',
         \A t \in Students, b \in Boards :
           \/ board'[b].lid = NoLease
           \/ board'[b].lid = board[b].lid /\ board'[b].art = board[b].art
           \/ /\ lease[t].state \in Deployable => board'[b].lid # lease[t].lid
              /\ op[t].pc = "predict" \/ (op[t].pc = "deploy" /\ op[t].reply = "ok") =>
                   board'[b].lid # op[t].lid,
         \A t \in Students :
           op[t].pc = "deploy" /\ op'[t].reply = "ok" =>
             \/ op[t].reply = "ok"
             \/ board'[op[t].board].art = op[t].art
  PROVE  OverlaysFollow'
<1>1. UNCHANGED <<lease, request, central>>
  BY DEF Outside
<1>2. ASSUME NEW t \in Students PROVE OverlayFollowsRows(t)'
  <2>1. OverlayFollowsRows(t) /\ (lease[t].state \in Deployable => Active(t))
    BY DEF OverlaysFollow, Deployable, Active, ActiveStates
  <2>2. /\ Active(t) => lease[t].lid # NoLease /\ lease[t].worker \in Boards
        /\ op[t].pc \in Awaiting => op[t].board \in Boards /\ op[t].lid # NoLease
    BY StudentKnown
  <2>3. RowFollows(t)'
    BY <1>1, <2>1, <2>2 DEF OverlayFollowsRows, RowFollows, Deployable
  <2>4. CallFollows(t)'
    BY <1>1, <2>1, <2>2 DEF OnlyAnswers, OverlayFollowsRows, CallFollows, Awaiting
  <2> QED BY <2>3, <2>4 DEF OverlayFollowsRows, RowFollows, CallFollows, Deployable
<1> QED BY <1>1, <1>2 DEF OverlaysFollow, Active

LEMMA ServedFollows ==
  ASSUME Groundwork, OverlaysFollow, NEW s \in Students, Served(s)
  PROVE  OverlaysFollow'
<1>1. /\ Outside /\ op[s].reply = "pending" /\ orphans' = orphans /\ lease' = lease
      /\ OnlyAnswers /\ \A t \in Students \ {s} : op'[t] = op[t]
  BY DEF Served, Answered, OpBecomes, OnlyAnswers, Outside
<1>2. PICK ok \in BOOLEAN :
        Effect(CallOf(s), ok) /\ op'[s].reply = IF ok THEN "ok" ELSE "error"
  BY DEF Served, Answered, OpBecomes
<1>3. /\ CallOf(s).kind = op[s].pc /\ CallOf(s).board = op[s].board
      /\ CallOf(s).lid = op[s].lid /\ CallOf(s).art = op[s].art
      /\ op[s].board \in Boards /\ op[s].lid # NoLease /\ op[s].pc \in Awaiting
  BY <1>1, StudentKnown DEF CallOf
<1>4. ASSUME NEW t \in Students PROVE OrphansAreStale(t)'
  <2>1. OrphansAreStale(t)
    BY DEF OverlaysFollow
  <2>2. CASE t = s
    BY <1>1, <2>1, <2>2 DEF OrphansAreStale, OnlyAnswers, Active
  <2>3. CASE t # s
    BY <1>1, <2>1, <2>3 DEF OrphansAreStale, Active
  <2> QED BY <2>2, <2>3
<1>5. ASSUME NEW t \in Students, NEW b \in Boards
      PROVE  \/ board'[b].lid = NoLease
             \/ board'[b].lid = board[b].lid /\ board'[b].art = board[b].art
             \/ /\ lease[t].state \in Deployable => board'[b].lid # lease[t].lid
                /\ op[t].pc = "predict" \/ (op[t].pc = "deploy" /\ op[t].reply = "ok") =>
                     board'[b].lid # op[t].lid
  <2> SUFFICES ASSUME op[s].pc = "deploy", board'[b].lid = op[s].lid
               PROVE  /\ lease[t].state \in Deployable => board'[b].lid # lease[t].lid
                      /\ op[t].pc = "predict" \/ (op[t].pc = "deploy" /\ op[t].reply = "ok") =>
                           board'[b].lid # op[t].lid
    BY <1>2, <1>3, EffectLeaves
  <2>1. op[s].lid \in {lease[t].lid, op[t].lid} => t = s
    BY <1>3, OwnCall
  <2>2. lease[s].state \notin Deployable
    BY CallShowsInRow DEF Taken, Deployable
  <2> QED BY <1>1, <2>1, <2>2
<1>6. ASSUME NEW t \in Students, op[t].pc = "deploy", op'[t].reply = "ok",
             op[t].reply # "ok"
      PROVE  board'[op[t].board].art = op[t].art
  BY <1>1, <1>2, <1>3, <1>6, EffectLeaves
<1> QED BY <1>1, <1>4, <1>5, <1>6, OutsideFollows

LEMMA ServedLateFollows ==
  ASSUME Groundwork, OverlaysFollow, ServedLate
  PROVE  OverlaysFollow'
<1>1. PICK c \in orphans : orphans' = orphans \ {c} /\ \E ok \in BOOLEAN : Effect(c, ok)
  BY DEF ServedLate
<1>2. Outside /\ op' = op /\ OnlyAnswers /\ lease' = lease
  BY DEF ServedLate, OnlyAnswers, Outside
<1>3. ASSUME NEW t \in Students PROVE OrphansAreStale(t) /\ OrphansAreStale(t)'
  BY <1>1, <1>2 DEF OverlaysFollow, OrphansAreStale, Active
<1>4. ASSUME NEW t \in Students, NEW b \in Boards
      PROVE  \/ board'[b].lid = NoLease
             \/ board'[b].lid = board[b].lid /\ board'[b].art = board[b].art
             \/ /\ lease[t].state \in Deployable => board'[b].lid # lease[t].lid
                /\ op[t].pc = "predict" \/ (op[t].pc = "deploy" /\ op[t].reply = "ok") =>
                     board'[b].lid # op[t].lid
  BY <1>1, <1>3, EffectLeaves, LateIsForNobody
<1> QED BY <1>2, <1>3, <1>4, OutsideFollows

LEMMA NetworkFollows ==
  ASSUME Groundwork, OverlaysFollow,
         (\E s \in Students : TimedOut(s)) \/ (\E b \in Boards : Restarted(b))
  PROVE  OverlaysFollow'
<1>1. ASSUME NEW s \in Students, TimedOut(s) PROVE OverlaysFollow'
  <2>1. /\ Outside /\ OnlyAnswers /\ board' = board /\ lease' = lease
        /\ op'[s].reply = "error" /\ \A t \in Students \ {s} : op'[t] = op[t]
        /\ \A c \in orphans' : c \in orphans \/ c = CallOf(s)
    BY <1>1 DEF TimedOut, Answered, OpBecomes, OnlyAnswers, Outside
  <2>2. op[s].lid # NoLease
    BY <1>1, StudentKnown DEF TimedOut
  <2>3. ASSUME NEW t \in Students PROVE OrphansAreStale(t)'
    <3>1. OrphansAreStale(t)
      BY DEF OverlaysFollow
    <3>2. op[s].lid \in {lease[t].lid, op[t].lid} => t = s
      BY <2>2, OwnCall
    <3> QED
      BY <2>1, <3>1, <3>2 DEF OrphansAreStale, OnlyAnswers, CallOf, Active
  <2> QED BY <2>1, <2>3, OutsideFollows
<1>2. ASSUME NEW b \in Boards, Restarted(b) PROVE OverlaysFollow'
  <2>1. /\ Outside /\ OnlyAnswers /\ lease' = lease /\ \A c \in orphans' : c \in orphans
        /\ \A t \in Students : op'[t].reply \in {"error", op[t].reply}
        /\ \A d \in Boards : board'[d].lid = NoLease \/ board'[d] = board[d]
    BY <1>2 DEF Restarted, Answered, OpBecomes, OnlyAnswers, Outside, BoardBecomes
  <2>2. ASSUME NEW t \in Students PROVE OrphansAreStale(t)'
    BY <2>1 DEF OverlaysFollow, OrphansAreStale, OnlyAnswers, Active
  <2> QED BY <2>1, <2>2, OutsideFollows
<1> QED BY <1>1, <1>2

\* While Central does not crash, whatever else happens.
LEMMA StepFollows ==
  ASSUME Groundwork, OverlaysFollow, Next, "crash" \notin Environment
  PROVE  OverlaysFollow'
<1>1. OwnershipInvariant
  BY DEF Groundwork
<1>2. ~Crashed
  BY DEF Crashed
<1> QED
  BY <1>1, <1>2, StepKinds, StudentStepFollows, ServedFollows, NetworkFollows,
     BackgroundFollows, ServedLateFollows

LEMMA InitialOverlays ==
  Init => OverlaysFollow
<1> SUFFICES ASSUME Init PROVE OverlaysFollow
  OBVIOUS
<1>1. /\ orphans = {}
      /\ \A s \in Students : lease[s].state = "UNASSIGNED" /\ op[s].pc = "free"
  BY DEF Init, FreeOp
<1> QED
  BY <1>1 DEF OverlaysFollow, OrphansAreStale, OverlayFollowsRows, Active, ActiveStates

LEMMA StutterFollows ==
  ASSUME OverlaysFollow, UNCHANGED vars
  PROVE  OverlaysFollow'
<1>1. UNCHANGED <<lease, request, central, op, board, orphans>>
  BY DEF vars, database, tasks, world
<1>2. \A s \in Students : OrphansAreStale(s)' /\ OverlayFollowsRows(s)'
  BY <1>1 DEF OverlaysFollow, OrphansAreStale, OverlayFollowsRows, Active
<1> QED BY <1>1, <1>2 DEF OverlaysFollow, Active

LEMMA GroundworkHolds == Spec => []Groundwork
<1>1. OwnershipInvariant /\ CoordinationInvariant /\ ArtifactsAreOwn => Groundwork
  BY DEF Groundwork
<1> QED BY <1>1, InvariantHolds, CoordinationHolds, ArtifactsStayOwn, PTL

(* As long as Central does not crash, a board that still holds the lease   *)
(* of a student has the artifact that the row or the caller goes by, in    *)
(* spite of timeouts, late deployments and boards that restart (the checks *)
(* of worker/app/state.py and the order of calls of _deploy).              *)
THEOREM OverlaysFollowRows ==
  ASSUME "crash" \notin Environment
  PROVE  Spec => []OverlaysFollow
<1>1. Init => OverlaysFollow
  BY InitialOverlays
<1>2. Groundwork /\ OverlaysFollow /\ [Next]_vars => OverlaysFollow'
  BY StepFollows, StutterFollows
<1> QED BY <1>1, <1>2, GroundworkHolds, PTL DEF Spec

(* As long as Central does not crash, a request is run on the very         *)
(* artifact it was bound to when it was submitted (KV260_PYNQ_Framework.md *)
(* 10.4), although worker/app/state.py compares lease ids only. The        *)
(* hypothesis is needed: see PredictsOnItsArtifact.                        *)
THEOREM PredictionsUseTheirArtifacts ==
  ASSUME "crash" \notin Environment
  PROVE  Spec => PredictsOnItsArtifact
<1>1. ASSUME Groundwork, OverlaysFollow, Next, NEW s \in Students,
             op[s].pc = "predict", op[s].reply = "pending", op'[s].reply = "ok"
      PROVE  board[op[s].board].art = op[s].art
  <2>1. board[op[s].board].lid = op[s].lid
    BY <1>1, PredictionFinds DEF Groundwork
  <2> QED BY <1>1, <2>1 DEF OverlaysFollow, OverlayFollowsRows
<1>2. Groundwork /\ OverlaysFollow /\ [Next]_vars
        => [\A s \in Students :
              (op[s].pc = "predict" /\ op[s].reply = "pending" /\ op'[s].reply = "ok")
                => board[op[s].board].art = op[s].art]_vars
  BY <1>1
<1> QED BY <1>2, GroundworkHolds, OverlaysFollowRows, PTL DEF Spec, PredictsOnItsArtifact

-----------------------------------------------------------------------------
(* A READY lease has its board ready, as long as no board restarts either. *)

IsReady(s) ==
  board[lease[s].worker].lid = lease[s].lid /\ board[lease[s].worker].ready

\* When the board of s is known to be ready.
ShouldBeReady(s) ==
  \/ lease[s].state = "READY" /\ lease[s].art # NoArtifact
  \/ lease[s].state = "BUSY" /\ op[s].reply # "error"
  \/ lease[s].state = "DEPLOYING" /\ op[s].reply = "ok"

\* Whether the lease of s has an artifact yet.
ArtifactFits(s) ==
  /\ lease[s].state \in {"QUEUED", "UNASSIGNED", "RESERVED"} => lease[s].art = NoArtifact
  /\ op[s].pc = "run" => lease[s].art # NoArtifact

LEMMA ReadyParts ==
  ASSUME NEW s \in Students
  PROVE  /\ BoardIsReady(s) <=> (ShouldBeReady(s) => IsReady(s)) /\ ArtifactFits(s)
         /\ BoardIsReady(s)' <=> (ShouldBeReady(s)' => IsReady(s)') /\ ArtifactFits(s)'
<1>1. BoardIsReady(s) <=> (ShouldBeReady(s) => IsReady(s)) /\ ArtifactFits(s)
  BY DEF BoardIsReady, ShouldBeReady, IsReady, ArtifactFits
<1>2. BoardIsReady(s)' <=> (ShouldBeReady(s)' => IsReady(s)') /\ ArtifactFits(s)'
  BY DEF BoardIsReady, ShouldBeReady, IsReady, ArtifactFits
<1> QED BY <1>1, <1>2

\* A student's request is bound to an artifact.
LEMMA BoundToSomething ==
  ASSUME Groundwork, NEW s \in Students, NEW i \in Accepted(s)
  PROVE  request[s][i].art # NoArtifact
  BY StudentKnown DEF BindsArtifacts, Drawn, NoArtifact

LEMMA StepKeepsArtifactFit ==
  ASSUME Groundwork, Groundwork', NEW s \in Students, ArtifactFits(s), StepOf(s)
  PROVE  ArtifactFits(s)'
<1>1. CASE \/ Leaves(s) \/ Proceeds(s) \/ Submits(s) \/ Takes(s)
  BY <1>1
  DEF Leaves, Proceeds, Submits, Takes, OpGoesTo, OpBecomes, SameLease, ArtifactFits
<1>2. CASE \/ Queues(s) \/ DeployLost(s) \/ PredictLost(s) \/ Released(s)
           \/ \E b \in Boards : Granted(s, b)
  BY <1>2
  DEF Queues, DeployLost, PredictLost, Released, Granted, OpGoesTo, OpBecomes, LeaseBecomes,
      ArtifactFits
<1>3. CASE \/ Idles(s) \/ Deploys(s) \/ Starts(s) \/ Completes(s) \/ ReleaseLost(s)
           \/ Releases(s)
  BY <1>3
  DEF Idles, Deploys, Starts, Completes, ReleaseLost, Releases, OpGoesTo, OpBecomes,
      LeaseMoves, LeaseBecomes, ArtifactFits
<1>4. CASE Picks(s)
  <2>1. /\ op[s].pc = "drain" /\ Pending(s) # {} /\ lease'[s] = lease[s]
        /\ lease[s].art = request[s][NextOf(s)].art
    BY <1>4 DEF Picks, SameLease, AlreadyDeployed
  <2>2. NextOf(s) \in Accepted(s)
    BY <2>1, NextIsOldest DEF Groundwork, ArtifactsAreOwn, Accepted
  <2>3. lease'[s].art # NoArtifact
    BY <2>1, <2>2, BoundToSomething
  <2> QED BY <2>1, <2>3 DEF ArtifactFits
<1>5. CASE Deployed(s)
  <2>1. op[s].art = request[s][op[s].req].art /\ op[s].req \in Accepted(s)
    BY <1>5, StudentKnown DEF Deployed, BindsArtifacts
  <2>2. lease'[s].art # NoArtifact /\ lease'[s].state = "READY"
    BY <1>5, <2>1, BoundToSomething DEF Deployed, LeaseBecomes
  <2> QED BY <2>2 DEF ArtifactFits
<1> QED BY <1>1, <1>2, <1>3, <1>4, <1>5 DEF StepOf, Outcome

LEMMA StepKeepsReady ==
  ASSUME Groundwork, Groundwork', NEW s \in Students, BoardIsReady(s), StepOf(s),
         ShouldBeReady(s)'
  PROVE  IsReady(s)'
<1>0. /\ board' = board /\ ArtifactFits(s) /\ (ShouldBeReady(s) => IsReady(s))
      /\ StudentFits(s) /\ central = "up"
      /\ StudentFits(s)' /\ central' = "up"
  BY ReadyParts, StudentFacts DEF StepOf, Groundwork, CoordinationInvariant
<1>1. CASE \/ Leaves(s) \/ Proceeds(s) \/ Picks(s) \/ Submits(s) \/ Takes(s)
  <2>1. lease'[s] = lease[s] /\ op'[s].pc \in {"free", "reserve", "drain", "run", "process"}
    BY <1>1
    DEF Leaves, Proceeds, Picks, Submits, Takes, SameLease, OpGoesTo, OpBecomes
  <2>2. lease'[s].state \in Settled \cup {"RESERVED"}
    BY <1>0, <2>1 DEF StudentFits, LeaseFitsCoroutine, Settled
  <2>3. ShouldBeReady(s)
    BY <2>1, <2>2 DEF ShouldBeReady, Settled
  <2> QED BY <1>0, <2>1, <2>3 DEF IsReady
<1>2. CASE \/ Queues(s) \/ DeployLost(s) \/ PredictLost(s) \/ Released(s) \/ ReleaseLost(s)
           \/ (\E b \in Boards : Granted(s, b)) \/ Releases(s)
  BY <1>2
  DEF Queues, DeployLost, PredictLost, Released, ReleaseLost, Granted, Releases, LeaseMoves,
      LeaseBecomes, ShouldBeReady
<1>3. CASE Deploys(s)
  BY <1>3 DEF Deploys, LeaseMoves, LeaseBecomes, OpBecomes, ShouldBeReady
<1>4. CASE Idles(s) \/ Starts(s) \/ Completes(s)
  <2>1. /\ lease'[s].worker = lease[s].worker /\ lease'[s].lid = lease[s].lid
        /\ lease'[s].art = lease[s].art
    BY <1>4 DEF Idles, Starts, Completes, LeaseMoves, LeaseBecomes
  <2>2. ShouldBeReady(s)
    <3>1. CASE Idles(s)
      <4>1. lease[s].state \in {"RESERVED", "READY"} /\ lease'[s].state = "READY"
        BY <1>0, <3>1 DEF Idles, LeaseMoves, LeaseBecomes, StudentFits, LeaseFitsCoroutine
      <4>2. lease[s].art # NoArtifact
        BY <2>1, <4>1 DEF ShouldBeReady
      <4> QED BY <1>0, <4>1, <4>2 DEF ArtifactFits, ShouldBeReady
    <3>2. CASE Starts(s)
      BY <1>0, <3>2 DEF Starts, MayRun, ArtifactFits, ShouldBeReady
    <3>3. CASE Completes(s)
      BY <3>3 DEF Completes, ShouldBeReady
    <3> QED BY <1>4, <3>1, <3>2, <3>3
  <2> QED BY <1>0, <2>1, <2>2 DEF IsReady
<1>5. CASE Deployed(s)
  <2>1. /\ lease'[s].worker = lease[s].worker /\ lease'[s].lid = lease[s].lid
        /\ lease[s].state = "DEPLOYING" /\ op[s].reply = "ok"
    BY <1>5 DEF Deployed, DeployStillWanted, LeaseBecomes
  <2> QED BY <1>0, <2>1 DEF IsReady, ShouldBeReady
<1> QED BY <1>1, <1>2, <1>3, <1>4, <1>5 DEF StepOf, Outcome

BoardsAreReady == \A s \in Students : BoardIsReady(s)

LEMMA StudentStepReady ==
  ASSUME Groundwork, Groundwork', BoardsAreReady, NEW s \in Students, StepOf(s)
  PROVE  BoardsAreReady'
<1>1. BoardIsReady(s) /\ ArtifactFits(s)
  BY ReadyParts DEF BoardsAreReady
<1>2. BoardIsReady(s)'
  BY <1>1, StepKeepsArtifactFit, StepKeepsReady, ReadyParts
<1>3. ASSUME NEW t \in Students \ {s} PROVE BoardIsReady(t)'
  <2>1. lease'[t] = lease[t] /\ op'[t] = op[t] /\ board' = board /\ BoardIsReady(t)
    BY DEF StepOf, BoardsAreReady
  <2> QED BY <2>1 DEF BoardIsReady
<1> QED BY <1>2, <1>3 DEF BoardsAreReady

\* Steps that leave coroutines and boards alone.
LEMMA RowsReady ==
  ASSUME Groundwork, Groundwork', BoardsAreReady, UNCHANGED <<op, board>>,
         \A t \in Students :
           \/ LeaseKept(t)
           \/ lease'[t].state = "LOST"
           \/ LeaseBecomes(t, "QUEUED", None, NoLease, NoArtifact)
  PROVE  BoardsAreReady'
<1>1. ASSUME NEW t \in Students PROVE BoardIsReady(t)'
  <2>1. BoardIsReady(t)
    BY DEF BoardsAreReady
  <2>2. CASE LeaseKept(t)
    BY <2>1, <2>2 DEF BoardIsReady, LeaseKept, LeaseMoves, LeaseBecomes
  <2>3. CASE lease'[t].state = "LOST" \/ LeaseBecomes(t, "QUEUED", None, NoLease, NoArtifact)
    <3>1. lease'[t].state \in {"LOST", "QUEUED"} /\ ~(Active(t)')
      BY <2>3 DEF LeaseBecomes, Active, ActiveStates
    <3>2. op'[t].pc # "run"
      BY <3>1 DEF Groundwork, OwnershipInvariant, CoroutineHoldsLease
    <3> QED BY <2>3, <3>1, <3>2 DEF BoardIsReady, LeaseBecomes
  <2> QED BY <2>2, <2>3
<1> QED BY <1>1 DEF BoardsAreReady

LEMMA BackgroundReady ==
  ASSUME Groundwork, Groundwork', OverlaysFollow, BoardsAreReady,
         \/ Quiet \/ Reaps \/ Recovers \/ Serves
         \/ \E b \in Boards : Reports(b) \/ Spared(b) \/ Clears(b) \/ Offline(b)
         \/ \E b \in Boards, s \in Students : Confirms(b, s) \/ Denies(b, s)
  PROVE  BoardsAreReady'
<1>1. CASE Quiet \/ Reaps \/ \E b \in Boards : Reports(b)
  BY <1>1, RowsReady DEF Quiet, Reaps, Reports, SameRows
<1>2. CASE Recovers
  <2>1. \A t \in Students : LeaseKept(t) \/ lease'[t].state = "LOST"
    BY <1>2 DEF Recovers, LeaseKept, LeaseMoves, LeaseBecomes, SameLease
  <2> QED BY <1>2, <2>1, RowsReady DEF Recovers
<1>3. CASE Serves \/ \E b \in Boards : Spared(b) \/ Clears(b)
  <2>1. UNCHANGED <<lease, op, board>>
    BY <1>3 DEF Serves, Spared, Clears, Checked
  <2> QED BY <2>1, RowsReady DEF LeaseKept, LeaseMoves, LeaseBecomes
<1>4. ASSUME NEW b \in Boards, Offline(b) PROVE BoardsAreReady'
  <2>1. \A t \in Students : LeaseKept(t) \/ lease'[t].state = "LOST"
    BY <1>4 DEF Offline, LeaseKept, LeaseMoves, LeaseBecomes, SameLease
  <2> QED BY <1>4, <2>1, RowsReady DEF Offline, Checked
<1>5. ASSUME NEW b \in Boards, NEW s \in Students, Confirms(b, s) \/ Denies(b, s)
      PROVE  BoardsAreReady'
  <2>1. PICK x \in {"READY", "LOST"} : \E y : Settles(b, s, x, y)
    BY <1>5 DEF Confirms, Denies
  <2>2. /\ lease[s].state = "READY" /\ LeaseMoves(s, x) /\ UNCHANGED <<op, board>>
        /\ \A t \in Students \ {s} : lease'[t] = lease[t]
    BY <2>1, SettledWasReady DEF Settles, Checked
  <2>3. \A t \in Students : LeaseKept(t) \/ lease'[t].state = "LOST"
    BY <2>1, <2>2 DEF LeaseKept, LeaseMoves, LeaseBecomes
  <2> QED BY <2>2, <2>3, RowsReady
<1> QED BY <1>1, <1>2, <1>3, <1>4, <1>5

\* A step of boards or network: answers change, and a board only where its lease allows.
LEMMA OutsideReady ==
  ASSUME BoardsAreReady, UNCHANGED lease, OnlyAnswers,
         \A t \in Students :
           ShouldBeReady(t)' =>
             \/ ShouldBeReady(t) /\ board'[lease[t].worker] = board[lease[t].worker]
             \/ IsReady(t)'
  PROVE  BoardsAreReady'
<1>1. ASSUME NEW t \in Students PROVE BoardIsReady(t)'
  <2>1. ArtifactFits(t) /\ (ShouldBeReady(t) => IsReady(t))
    BY ReadyParts DEF BoardsAreReady
  <2>2. ArtifactFits(t)'
    BY <2>1 DEF ArtifactFits, OnlyAnswers
  <2>3. ShouldBeReady(t)' => IsReady(t)'
    BY <2>1 DEF IsReady
  <2> QED BY <2>2, <2>3, ReadyParts
<1> QED BY <1>1 DEF BoardsAreReady

\* A board that should be ready is in use by its student.
LEMMA ReadyFacts ==
  ASSUME Groundwork, BoardsAreReady, NEW t \in Students, ShouldBeReady(t)
  PROVE  /\ lease[t].worker \in Boards /\ lease[t].lid # NoLease /\ Active(t)
         /\ board[lease[t].worker].lid = lease[t].lid
         /\ op[t].pc \in Awaiting => op[t].reply # "error"
<1>1. Active(t)
  BY DEF ShouldBeReady, Active, ActiveStates
<1>2. op[t].pc \in Awaiting => lease[t].state # "READY"
  BY CallShowsInRow DEF Awaiting, Taken
<1>3. IsReady(t)
  BY ReadyParts DEF BoardsAreReady
<1> QED BY <1>1, <1>2, <1>3, StudentKnown DEF ShouldBeReady, IsReady

LEMMA ServedReady ==
  ASSUME Groundwork, BoardsAreReady, NEW s \in Students, Served(s)
  PROVE  BoardsAreReady'
<1>1. /\ op[s].reply = "pending" /\ lease' = lease /\ OnlyAnswers
      /\ \A t \in Students \ {s} : op'[t] = op[t]
  BY DEF Served, Answered, OpBecomes, OnlyAnswers, Outside
<1>2. PICK ok \in BOOLEAN :
        Effect(CallOf(s), ok) /\ op'[s].reply = IF ok THEN "ok" ELSE "error"
  BY DEF Served, Answered, OpBecomes
<1>3. /\ CallOf(s).kind = op[s].pc /\ CallOf(s).board = op[s].board
      /\ CallOf(s).lid = op[s].lid /\ CallOf(s).art = op[s].art
      /\ op[s].board \in Boards /\ op[s].lid # NoLease /\ op[s].pc \in Awaiting
  BY <1>1, StudentKnown DEF CallOf
<1>4. ASSUME NEW t \in Students, t # s, ShouldBeReady(t)'
      PROVE  ShouldBeReady(t) /\ board'[lease[t].worker] = board[lease[t].worker]
  <2>1. ShouldBeReady(t)
    BY <1>1, <1>4 DEF ShouldBeReady
  <2>2. /\ lease[t].worker \in Boards /\ lease[t].lid # NoLease
        /\ board[lease[t].worker].lid = lease[t].lid
    BY <2>1, ReadyFacts
  <2>3. op[s].lid # lease[t].lid
    BY <1>3, <1>4, OwnCall
  <2> QED BY <1>2, <1>3, <2>1, <2>2, <2>3, EffectLeaves
<1>5. ASSUME ShouldBeReady(s)'
      PROVE  \/ ShouldBeReady(s) /\ board'[lease[s].worker] = board[lease[s].worker]
             \/ IsReady(s)'
  <2>1. \/ op[s].pc = "predict" /\ lease[s].state = "BUSY" /\ ok
        \/ op[s].pc = "deploy" /\ lease[s].state = "DEPLOYING" /\ ok
    BY <1>1, <1>2, <1>3, <1>5, CallShowsInRow DEF ShouldBeReady, Awaiting, Taken
  <2>2. Active(s) /\ lease[s].lid = op[s].lid /\ lease[s].worker = op[s].board
    BY <1>3, <2>1, StudentKnown DEF Active, ActiveStates, StudentFits, HolderKnowsLease
  <2>3. CASE op[s].pc = "predict" /\ lease[s].state = "BUSY" /\ ok
    BY <1>1, <1>2, <1>3, <2>3 DEF Effect, ShouldBeReady
  <2>4. CASE op[s].pc = "deploy" /\ lease[s].state = "DEPLOYING" /\ ok
    <3>1. board'[op[s].board].lid = op[s].lid /\ board'[op[s].board].ready
      BY <1>2, <1>3, <2>4 DEF Effect, BoardBecomes
    <3> QED BY <1>1, <2>2, <3>1 DEF IsReady
  <2> QED BY <2>1, <2>3, <2>4
<1> QED BY <1>1, <1>4, <1>5, OutsideReady

LEMMA ServedLateReady ==
  ASSUME Groundwork, OverlaysFollow, BoardsAreReady, ServedLate
  PROVE  BoardsAreReady'
<1>1. PICK c \in orphans : \E ok \in BOOLEAN : Effect(c, ok)
  BY DEF ServedLate
<1>2. op' = op /\ OnlyAnswers /\ lease' = lease
  BY DEF ServedLate, OnlyAnswers, Outside
<1>3. ASSUME NEW t \in Students, ShouldBeReady(t)'
      PROVE  ShouldBeReady(t) /\ board'[lease[t].worker] = board[lease[t].worker]
  <2>1. ShouldBeReady(t)
    BY <1>2, <1>3 DEF ShouldBeReady
  <2>2. /\ lease[t].worker \in Boards /\ lease[t].lid # NoLease /\ Active(t)
        /\ board[lease[t].worker].lid = lease[t].lid
        /\ op[t].pc \in Awaiting => op[t].reply # "error"
    BY <2>1, ReadyFacts
  <2>3. c.lid # lease[t].lid
    <3>1. OrphansAreStale(t)
      BY DEF OverlaysFollow
    <3> QED BY <2>2, <3>1, LateIsForNobody, StudentKnown
  <2> QED BY <1>1, <2>1, <2>2, <2>3, EffectLeaves
<1> QED BY <1>2, <1>3, OutsideReady

LEMMA TimedOutReady ==
  ASSUME BoardsAreReady, NEW s \in Students, TimedOut(s)
  PROVE  BoardsAreReady'
<1>1. /\ lease' = lease /\ OnlyAnswers /\ board' = board /\ op'[s].reply = "error"
      /\ op[s].reply # "error" /\ \A t \in Students \ {s} : op'[t] = op[t]
  BY DEF TimedOut, Answered, OpBecomes, OnlyAnswers, Outside
<1>2. \A t \in Students : ShouldBeReady(t)' => ShouldBeReady(t)
  BY <1>1 DEF ShouldBeReady
<1> QED BY <1>1, <1>2, OutsideReady

LEMMA StepReady ==
  ASSUME Groundwork, OverlaysFollow, BoardsAreReady, Next,
         {"crash", "board restart"} \cap Environment = {}
  PROVE  BoardsAreReady'
<1>1. OwnershipInvariant
  BY DEF Groundwork
<1>2. ~Crashed /\ \A b \in Boards : ~Restarted(b)
  BY DEF Crashed, Restarted
<1>3. Groundwork'
  BY GroundworkStep
<1> QED
  BY <1>1, <1>2, <1>3, StepKinds, StudentStepReady, ServedReady, TimedOutReady,
     BackgroundReady, ServedLateReady

LEMMA StutterReady ==
  ASSUME BoardsAreReady, UNCHANGED vars
  PROVE  BoardsAreReady'
<1>1. UNCHANGED <<lease, op, board>>
  BY DEF vars, database, tasks, world
<1> QED BY <1>1 DEF BoardsAreReady, BoardIsReady

LEMMA InitialReady ==
  Init => BoardsAreReady
<1> SUFFICES ASSUME Init, NEW s \in Students PROVE BoardIsReady(s)
  BY DEF BoardsAreReady
<1>1. lease[s].state = "UNASSIGNED" /\ lease[s].art = NoArtifact /\ op[s].pc = "free"
  BY DEF Init, FreeOp
<1> QED BY <1>1 DEF BoardIsReady

LEMMA OverlayStep ==
  Groundwork /\ OverlayInvariant /\ [Next]_vars => OverlayInvariant'
<1> SUFFICES ASSUME Groundwork, OverlayInvariant, [Next]_vars
             PROVE  OverlayInvariant'
  OBVIOUS
<1>1. CASE UNCHANGED vars
  BY <1>1, StutterKeeps, StutterFollows, StutterReady DEF OverlayInvariant, BoardsAreReady
<1>2. CASE Next
  <2>1. ArtifactsAreOwn'
    BY <1>2, GroundworkStep DEF Groundwork
  <2>2. "crash" \notin Environment => OverlaysFollow'
    BY <1>2, StepFollows DEF OverlayInvariant
  <2>3. {"crash", "board restart"} \cap Environment = {} => BoardsAreReady'
    BY <1>2, StepReady DEF OverlayInvariant, BoardsAreReady
  <2> QED BY <2>1, <2>2, <2>3 DEF OverlayInvariant, BoardsAreReady
<1> QED BY <1>1, <1>2

(* What the rows and calls of lease_manager.py say of the overlays that    *)
(* worker/app/state.py has loaded is true in every reachable state, as far *)
(* as restarts of Central and of the boards leave it: OverlayInvariant     *)
(* says of each part on which of them it depends.                          *)
THEOREM OverlayHolds == Spec => []OverlayInvariant
<1>1. Init => OverlayInvariant
  BY InitialArtifacts, InitialOverlays, InitialReady DEF OverlayInvariant, BoardsAreReady
<1>2. Groundwork /\ OverlayInvariant /\ [Next]_vars => OverlayInvariant'
  BY OverlayStep
<1> QED BY <1>1, <1>2, GroundworkHolds, PTL DEF Spec

(* As long as neither Central nor a board restarts, a READY lease with an  *)
(* artifact means that the board holds this lease and this artifact with   *)
(* the overlay loaded: no timeout, late call or FPGA error makes the row   *)
(* say more than the board can do (lease_manager.py, worker_registry.py).  *)
THEOREM ReadyLeasesAreReal ==
  ASSUME {"crash", "board restart"} \cap Environment = {}
  PROVE  Spec => []ReadyIsReal
<1>1. ASSUME Groundwork, OverlayInvariant, NEW s \in Students, lease[s].state = "READY",
             lease[s].art # NoArtifact
      PROVE  board[lease[s].worker] = [lid |-> lease[s].lid, art |-> lease[s].art,
                                       ready |-> TRUE]
  <2>1. BoardIsReady(s) /\ OverlayFollowsRows(s)
    BY <1>1 DEF OverlayInvariant, OverlaysFollow
  <2>2. /\ board[lease[s].worker].lid = lease[s].lid /\ board[lease[s].worker].ready
        /\ board[lease[s].worker].art = lease[s].art
    BY <1>1, <2>1 DEF BoardIsReady, OverlayFollowsRows
  <2>3. lease[s].worker \in Boards
    BY <1>1, StudentKnown DEF Active, ActiveStates
  <2>4. board[lease[s].worker] \in Board
    BY <1>1, <2>3 DEF Groundwork, OwnershipInvariant, TypeOK
  <2> QED BY <2>2, <2>4 DEF Board
<1>2. Groundwork /\ OverlayInvariant => ReadyIsReal
  BY <1>1 DEF ReadyIsReal
<1> QED BY <1>2, GroundworkHolds, OverlayHolds, PTL
=============================================================================
