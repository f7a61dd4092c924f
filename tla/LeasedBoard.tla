----------------------------- MODULE LeasedBoard -----------------------------
(***************************************************************************)
(* What a board promises to Central: it belongs to one lease until it is   *)
(* free again, it becomes ready only by a deployment for that lease, and a *)
(* failure never changes whom it belongs to.                               *)
(***************************************************************************)
CONSTANT Nothing         \* no lease, no artifact

VARIABLES lid,           \* the lease that holds the board
          art,           \* the artifact deployed for it
          ready          \* whether it may predict

board == <<lid, art, ready>>

BoardInit == lid = Nothing /\ art = Nothing /\ ready = FALSE

\* A deployment ends well, for the holder or on a free board.
Deployed ==
  /\ lid' # Nothing /\ art' # Nothing /\ ready' = TRUE
  /\ lid \in {Nothing, lid'}

\* A deployment has begun or something has failed.
Unready == ready' = FALSE /\ UNCHANGED <<lid, art>>

\* Released by its holder, or restarted.
Freed == lid' = Nothing /\ art' = Nothing /\ ready' = FALSE

BoardNext == Deployed \/ Unready \/ Freed

BoardSpec == BoardInit /\ [][BoardNext]_board
=============================================================================
