------------------------------ MODULE BoardPool ------------------------------
(***************************************************************************)
(* What Central promises about boards: a board serves one student at a     *)
(* time, a student has at most one board, and a board never passes from    *)
(* one student to another without having been free.                        *)
(***************************************************************************)
CONSTANTS Students, Boards, None

VARIABLE owner   \* the student each board serves, or None

PoolInit == owner = [b \in Boards |-> None]

\* A student without a board gets a free one.
Grant(b, s) ==
  /\ owner[b] = None
  /\ \A c \in Boards : owner[c] # s
  /\ owner' = [owner EXCEPT ![b] = s]

\* Some boards are taken away: released, lost, or given up after a failure.
TakeAway(B) ==
  /\ B # {}
  /\ owner' = [b \in Boards |-> IF b \in B THEN None ELSE owner[b]]

PoolNext == \/ \E b \in Boards, s \in Students : Grant(b, s)
            \/ \E B \in SUBSET Boards : TakeAway(B)

PoolSpec == PoolInit /\ [][PoolNext]_owner
=============================================================================
