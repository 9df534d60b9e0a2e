--------------------------- MODULE MCBufferCache ---------------------------
(***************************************************************************)
(* Constants of the buffer cache for TLC.                                  *)
(***************************************************************************)
EXTENDS BufferCache

CONSTANTS k1, k2, k3, hp, ht, v0, v1

(* Every block on the disk; or k3 on a device of its own (a tape, or a     *)
(* second disk, as Tape says).                                             *)
OneDev == [k \in Block |-> hp]
TwoDevs == [k \in Block |-> IF k = k3 THEN ht ELSE hp]

(* readi() reads ahead the next block of the file: any block may follow    *)
(* any other over time; the first two blocks of a file of three are read;  *)
(* and readers of different blocks read ahead the same one.                *)
AllPairs == {kr \in Block \X (Block \cup {NoBlock}) : kr[1] # kr[2]}
FilePairs == {<<k1, k2>>, <<k2, k3>>}
CrossPairs == {<<k1, k3>>, <<k2, k3>>, <<k3, k1>>}

(* Processes are interchangeable, and so are values and, with OneDev and   *)
(* AllPairs, blocks.                                                       *)
SymProc == Permutations(Proc)
SymProcValue == Permutations(Proc) \cup Permutations(Value)
SymProcBlock == Permutations(Proc) \cup Permutations(Block)
=============================================================================
