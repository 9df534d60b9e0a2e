----------------------------- MODULE BlockPool -----------------------------
(***************************************************************************)
(* What alloc and free promise to bmap and itrunc: a pool of blocks. A     *)
(* block is taken out of it once before it is put back, a request is       *)
(* refused only when the pool is empty, and blocks get lost only when the  *)
(* disk fails.                                                             *)
(***************************************************************************)
EXTENDS FiniteSets

CONSTANTS Proc, Block

VARIABLES
  pool,     \* the free blocks
  held,     \* the blocks that files and calls under way have
  refused,  \* who has been told that there is no space
  spoiled   \* a read of the free list has failed

poolvars == <<pool, held, refused, spoiled>>

PoolInit == pool \cup held = Block /\ pool \cap held = {} /\ refused = {} /\ spoiled = FALSE

Take ==
  \E b \in held' \ held :
    held' = held \cup {b} /\ b \in pool /\ pool' = pool \ {b} /\ UNCHANGED <<refused, spoiled>>
Give ==
  \E b \in held \ held' :
    held' = held \ {b} /\ pool' = pool \cup {b} /\ UNCHANGED <<refused, spoiled>>
Refuse(p) == refused' = refused \cup {p} /\ pool = {} /\ UNCHANGED <<pool, held, spoiled>>
Excuse(p) == refused' = refused \ {p} /\ UNCHANGED <<pool, held, spoiled>>

(* The rest of the free list, and the block taken, are lost.               *)
Lose == spoiled' /\ pool' = {} /\ held' \subseteq held /\ refused \subseteq refused'

PoolNext ==
  \/ Take \/ Give
  \/ \E p \in Proc : Refuse(p) \/ Excuse(p)
  \/ Lose

PoolSpec == PoolInit /\ [][PoolNext]_poolvars
=============================================================================
