----------------------------- MODULE BlockStore -----------------------------
(***************************************************************************)
(* What the buffer cache promises to the rest of the kernel (uts/vax/io/   *)
(* bio.c, the comment at its head): every block has one value, the one     *)
(* last given to bwrite, bdwrite or bawrite; at most one process has the   *)
(* block at a time; and bread returns its value. Nothing is said of        *)
(* buffers, of the disk, of flags or of who waits for whom.                *)
(***************************************************************************)
CONSTANTS Proc, Block, Value, NoView

VARIABLES
  value,   \* the contents of each block
  owner,   \* the process that has the block: an empty set or one process
  view     \* what bread returned to each process that still uses it

storevars == <<value, owner, view>>

StoreInit ==
  /\ value \in [Block -> Value]
  /\ owner = [k \in Block |-> {}]
  /\ view = [p \in Proc |-> NoView]

Acquire(p, k) ==
  /\ owner[k] = {}
  /\ owner' = [owner EXCEPT ![k] = {p}]
  /\ UNCHANGED <<value, view>>

Read(p, k) ==
  /\ owner[k] = {p}
  /\ view' = [view EXCEPT ![p] = value[k]]
  /\ UNCHANGED <<value, owner>>

(* The owner replaces the contents, and keeps the block (bwrite, until the *)
(* disk has it) or gives it up.                                            *)
Write(p, k, v) ==
  /\ owner[k] = {p}
  /\ value' = [value EXCEPT ![k] = v]
  /\ owner' \in {owner, [owner EXCEPT ![k] = {}]}
  /\ view' = [view EXCEPT ![p] = NoView]

Release(p, k) ==
  /\ owner[k] = {p}
  /\ owner' = [owner EXCEPT ![k] = {}]
  /\ view' = [view EXCEPT ![p] = NoView]
  /\ UNCHANGED value

StoreNext ==
  \E p \in Proc, k \in Block :
    \/ Acquire(p, k) \/ Read(p, k) \/ Release(p, k)
    \/ \E v \in Value : Write(p, k, v)

StoreSpec == StoreInit /\ [][StoreNext]_storevars
=============================================================================
