---------------------------- MODULE MCFreeBlocks ----------------------------
(***************************************************************************)
(* Constants of the free blocks for TLC: processes and files are alike, and *)
(* the list at the start is the one that mkfs makes.                       *)
(***************************************************************************)
EXTENDS FreeBlocks, TLC

CONSTANTS p1, p2, f1, f2

(* bfree of mkfs for block 0 and then for 1, 2, ... n.                     *)
bfree[n \in 0..NBLOCK] ==
  IF n = 0 THEN [list |-> Put(Empty, None), fblk |-> [b \in Block |-> Empty]]
  ELSE LET m == bfree[n - 1]
       IN IF m.list.nfree < NICFREE THEN [m EXCEPT !.list = Put(m.list, n)]
          ELSE [list |-> Put(Empty, n), fblk |-> [m.fblk EXCEPT ![n] = m.list]]

ASSUME MadeIsMkfs == bfree[NBLOCK] = [list |-> Made, fblk |-> MadeBlocks]

Alike == Permutations(Proc) \cup Permutations(File)
=============================================================================
