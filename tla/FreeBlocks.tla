----------------------------- MODULE FreeBlocks -----------------------------
(***************************************************************************)
(* The free blocks of a file system: alloc and free (os/alloc.c) with the  *)
(* list in the superblock and the chain of blocks it goes on in, as bmap   *)
(* (os/subr.c) calls them for a block of a file that has none yet and      *)
(* itrunc (os/iget.c) for the blocks of a file, and the part of update     *)
(* that writes the superblock.                                             *)
(*                                                                         *)
(* The kernel is not preemptive: an action is what a process does between  *)
(* two points at which it may sleep: for s_flock, in bread, getblk and     *)
(* bwrite, or in delay. Which blocks the buffer cache keeps does not       *)
(* matter here: a block has the contents last written to it.               *)
(***************************************************************************)
EXTENDS Integers, Sequences, FiniteSets

CONSTANTS
  Proc,      \* processes
  File,      \* files
  NBLOCK,    \* blocks between the i-list and the end of the device
  NICFREE,   \* free blocks that the superblock, or a block of the chain, has room for
  NADDR,     \* direct blocks of a file
  MaxErrors, \* bound: reads that fail
  NoFile     \* no file

ASSUME SizeAssumption ==
  NBLOCK \in Nat \ {0} /\ NICFREE \in Nat /\ NICFREE > 1 /\ NADDR \in Nat \ {0} /\ MaxErrors \in Nat
ASSUME ProcAssumption == IsFiniteSet(Proc) /\ NoFile \notin File

VARIABLES
  fp,      \* the superblock in core: list (s_nfree and s_free), flock, fmod, tfree
  super,   \* the list of the superblock on the disk
  fblk,    \* the list in each block that free has written (df_nfree and df_free)
  addr,    \* the blocks of each file (i_addr)
  pc,      \* where each process is
  asleep,  \* who sleeps on s_flock
  u,       \* of each process: the file it has locked, the block in its hands
  saving,  \* update has found the superblock modified and waits for a buffer
  errors   \* reads that have failed

vars == <<fp, super, fblk, addr, pc, asleep, u, saving, errors>>

Block == 1..NBLOCK
None == 0
Slot == 0..NICFREE-1
(* Places from nfree on are not read: the model keeps None there.          *)
List == [nfree : 0..NICFREE, free : [Slot -> 0..NBLOCK]]
Empty == [nfree |-> 0, free |-> [i \in Slot |-> None]]
PC == {"idle", "alloc", "chain", "take", "nospace", "trunc", "free", "link", "linked"}

-----------------------------------------------------------------------------
(* s_free[s_nfree++] = b, and s_free[--s_nfree].                           *)
Put(l, b) == [nfree |-> l.nfree + 1, free |-> [l.free EXCEPT ![l.nfree] = b]]
Top(l) == l.free[l.nfree - 1]
\* mutant: the count is not decremented
PoppedNot(l) == l
Popped(l) == [nfree |-> l.nfree - 1, free |-> [l.free EXCEPT ![l.nfree - 1] = None]]

(* The lists that begin with the list l: a list goes on in the block that  *)
(* its place 0 names.                                                      *)
Depth == 0..NBLOCK \div NICFREE
Lists(l) ==
  LET list[d \in Depth] ==
        IF d = 0 THEN l
        ELSE LET before == list[d - 1]
             IN IF before.nfree = 0 \/ before.free[0] = None THEN Empty ELSE fblk[before.free[0]]
  IN list
FreeOf(l) ==
  LET lists == Lists(l)
  IN (UNION {{lists[d].free[i] : i \in 0..lists[d].nfree-1} : d \in Depth}) \ {None}

(* What bfree of mkfs makes of blocks 0, 1, ... NBLOCK: a block whose      *)
(* number is a multiple of NICFREE finds the list full and gets it, and    *)
(* the list goes on with that block; place 0 of the first one is block 0.  *)
MadeFrom(b, n) == [nfree |-> n, free |-> [i \in Slot |-> IF i < n THEN b + i ELSE None]]
Last == NBLOCK % NICFREE
Made == MadeFrom(NBLOCK - Last, Last + 1)
MadeBlocks == [b \in Block |-> IF b % NICFREE = 0 THEN MadeFrom(b - NICFREE, NICFREE) ELSE Empty]

Init ==
  /\ fp = [list |-> Made, flock |-> FALSE, fmod |-> FALSE, tfree |-> NBLOCK]
  /\ super = Made
  /\ fblk = MadeBlocks
  /\ addr = [f \in File |-> <<>>]
  /\ pc = [p \in Proc |-> "idle"]
  /\ asleep = [p \in Proc |-> FALSE]
  /\ u = [p \in Proc |-> [file |-> NoFile, bno |-> None]]
  /\ saving = FALSE
  /\ errors = 0

-----------------------------------------------------------------------------
At(p, l) == pc[p] = l /\ ~asleep[p]
Goto(p, l) == pc' = [pc EXCEPT ![p] = l]
Hold(p, b) == u' = [u EXCEPT ![p].bno = b]
Unlocked(f) == \A p \in Proc : u[p].file # f

(* The loop on s_flock of alloc and free.                                  *)
AwaitFlock(p) ==
  /\ At(p, "alloc") \/ At(p, "free")
  /\ fp.flock
  /\ asleep' = [asleep EXCEPT ![p] = TRUE]
  /\ UNCHANGED <<fp, super, fblk, addr, pc, u, saving, errors>>

(* wakeup(&fp->s_flock).                                                   *)
WakeAll == asleep' = [p \in Proc |-> FALSE]

(* bmap, for a block of the file that has none; plock has been called.     *)
Grow(p, f) ==
  /\ At(p, "idle") /\ Unlocked(f) /\ Len(addr[f]) < NADDR
  /\ u' = [u EXCEPT ![p].file = f]
  /\ Goto(p, "alloc")
  /\ UNCHANGED <<fp, super, fblk, addr, asleep, saving, errors>>

(* nospace: the counts are cleared before the delay.                       *)
NoSpace(p, s) ==
  /\ fp' = [s EXCEPT !.list = Empty, !.tfree = 0]
  /\ Goto(p, "nospace") /\ Hold(p, None)

(* alloc takes the last entry; the one at place 0 is the next block of the *)
(* chain, which it locks the list to read, or ends the list.               *)
\* mutant: the list is not locked for the read of the chain
AllocUnlocked(p) ==
  /\ At(p, "alloc") /\ ~fp.flock
  /\ IF fp.list.nfree = 0 THEN NoSpace(p, fp)
     ELSE IF Top(fp.list) = None THEN NoSpace(p, fp)
     ELSE LET rest == Popped(fp.list)
          IN /\ fp' = [fp EXCEPT !.list = rest]
             /\ Goto(p, IF rest.nfree = 0 THEN "chain" ELSE "take")
             /\ Hold(p, Top(fp.list))
  /\ UNCHANGED <<super, fblk, addr, asleep, saving, errors>>
Alloc(p) ==
  /\ At(p, "alloc") /\ ~fp.flock
  /\ IF fp.list.nfree = 0 THEN NoSpace(p, fp)
     ELSE IF Top(fp.list) = None THEN NoSpace(p, fp)
     ELSE LET rest == Popped(fp.list)
          IN /\ fp' = [fp EXCEPT !.list = rest, !.flock = rest.nfree = 0]
             /\ Goto(p, IF rest.nfree = 0 THEN "chain" ELSE "take")
             /\ Hold(p, Top(fp.list))
  /\ UNCHANGED <<super, fblk, addr, asleep, saving, errors>>

(* The read of the block of the chain returns.                             *)
AllocChain(p, fails) ==
  LET s == [fp EXCEPT !.flock = FALSE, !.list = IF fails THEN @ ELSE fblk[u[p].bno]]
  IN /\ At(p, "chain")
     /\ IF fails THEN errors < MaxErrors /\ errors' = errors + 1 ELSE UNCHANGED errors
     /\ IF s.list.nfree = 0 THEN NoSpace(p, s) ELSE fp' = s /\ Goto(p, "take") /\ UNCHANGED u
     /\ WakeAll
     /\ UNCHANGED <<super, fblk, addr, saving>>

(* getblk has a buffer for the block: alloc clears it, bmap stores it in   *)
(* the inode and starts the delayed write.                                 *)
\* mutant: s_tfree is not decremented
AllocTakeUncounted(p) ==
  /\ At(p, "take")
  /\ fp' = [fp EXCEPT !.fmod = TRUE]
  /\ fblk' = [fblk EXCEPT ![u[p].bno] = Empty]
  /\ addr' = [addr EXCEPT ![u[p].file] = Append(@, u[p].bno)]
  /\ u' = [u EXCEPT ![p] = [file |-> NoFile, bno |-> None]]
  /\ Goto(p, "idle")
  /\ UNCHANGED <<super, asleep, saving, errors>>
AllocTake(p) ==
  /\ At(p, "take")
  /\ fp' = [fp EXCEPT !.tfree = IF @ > 0 THEN @ - 1 ELSE 0, !.fmod = TRUE]
  /\ fblk' = [fblk EXCEPT ![u[p].bno] = Empty]
  /\ addr' = [addr EXCEPT ![u[p].file] = Append(@, u[p].bno)]
  /\ u' = [u EXCEPT ![p] = [file |-> NoFile, bno |-> None]]
  /\ Goto(p, "idle")
  /\ UNCHANGED <<super, asleep, saving, errors>>

(* delay(5*HZ) is over: ENOSPC.                                            *)
AllocFails(p) ==
  /\ At(p, "nospace")
  /\ u' = [u EXCEPT ![p].file = NoFile]
  /\ Goto(p, "idle")
  /\ UNCHANGED <<fp, super, fblk, addr, asleep, saving, errors>>

-----------------------------------------------------------------------------
(* itrunc, with the inode locked: free for each block, the last one first. *)
Truncate(p, f) ==
  /\ At(p, "idle") /\ Unlocked(f) /\ addr[f] # <<>>
  /\ u' = [u EXCEPT ![p].file = f]
  /\ Goto(p, "trunc")
  /\ UNCHANGED <<fp, super, fblk, addr, asleep, saving, errors>>

TruncNext(p) ==
  LET f == u[p].file
      last == addr[f][Len(addr[f])]
  IN /\ At(p, "trunc") /\ addr[f] # <<>>
     /\ addr' = [addr EXCEPT ![f] = SubSeq(@, 1, Len(@) - 1)]
     /\ fp' = [fp EXCEPT !.fmod = TRUE]
     /\ Hold(p, last)
     /\ Goto(p, "free")
     /\ UNCHANGED <<super, fblk, asleep, saving, errors>>

TruncEnd(p) ==
  /\ At(p, "trunc") /\ addr[u[p].file] = <<>>
  /\ u' = [u EXCEPT ![p].file = NoFile]
  /\ Goto(p, "idle")
  /\ UNCHANGED <<fp, super, fblk, addr, asleep, saving, errors>>

(* The end of free: the block is put on the list s.                        *)
\* mutant: s_fmod is set at the start of free only
FreedUnmarked(p, s) ==
  /\ fp' = [s EXCEPT !.list = Put(s.list, u[p].bno), !.tfree = @ + 1]
  /\ Hold(p, None)
  /\ Goto(p, "trunc")
Freed(p, s) ==
  /\ fp' = [s EXCEPT !.list = Put(s.list, u[p].bno), !.tfree = @ + 1, !.fmod = TRUE]
  /\ Hold(p, None)
  /\ Goto(p, "trunc")

(* free, with the list unlocked: it puts the block on the list if there is *)
(* room, or locks the list to move it into the block.                      *)
\* mutant: off by one in the test for room
FreeBlockByOne(p) ==
  LET s == [fp EXCEPT !.list = IF @.nfree = 0 THEN Put(Empty, None) ELSE @]
  IN /\ At(p, "free") /\ ~fp.flock
     /\ IF s.list.nfree <= NICFREE THEN Freed(p, s)
        ELSE fp' = [s EXCEPT !.flock = TRUE] /\ Goto(p, "link") /\ UNCHANGED u
     /\ UNCHANGED <<super, fblk, addr, asleep, saving, errors>>
\* mutant: the list is not locked while it moves to the block
FreeBlockUnlocked(p) ==
  LET s == [fp EXCEPT !.list = IF @.nfree = 0 THEN Put(Empty, None) ELSE @]
  IN /\ At(p, "free") /\ ~fp.flock
     /\ IF s.list.nfree < NICFREE THEN Freed(p, s)
        ELSE fp' = s /\ Goto(p, "link") /\ UNCHANGED u
     /\ UNCHANGED <<super, fblk, addr, asleep, saving, errors>>
FreeBlock(p) ==
  LET s == [fp EXCEPT !.list = IF @.nfree = 0 THEN Put(Empty, None) ELSE @]
  IN /\ At(p, "free") /\ ~fp.flock
     /\ IF s.list.nfree < NICFREE THEN Freed(p, s)
        ELSE fp' = [s EXCEPT !.flock = TRUE] /\ Goto(p, "link") /\ UNCHANGED u
     /\ UNCHANGED <<super, fblk, addr, asleep, saving, errors>>

(* getblk has a buffer for the block: the list goes into it.               *)
FreeLink(p) ==
  /\ At(p, "link")
  /\ fblk' = [fblk EXCEPT ![u[p].bno] = fp.list]
  /\ fp' = [fp EXCEPT !.list = Empty]
  /\ Goto(p, "linked")
  /\ UNCHANGED <<super, addr, asleep, u, saving, errors>>

(* bwrite is over.                                                         *)
\* mutant: nobody is woken
FreeLinkedSilent(p) ==
  /\ At(p, "linked")
  /\ Freed(p, [fp EXCEPT !.flock = FALSE])
  /\ UNCHANGED <<super, fblk, addr, asleep, saving, errors>>
FreeLinked(p) ==
  /\ At(p, "linked")
  /\ Freed(p, [fp EXCEPT !.flock = FALSE])
  /\ WakeAll
  /\ UNCHANGED <<super, fblk, addr, saving, errors>>

-----------------------------------------------------------------------------
(* update finds the superblock modified and its list unlocked, and waits   *)
(* for a buffer (updlock: one update at a time).                           *)
UpdateTest ==
  /\ ~saving /\ fp.fmod /\ ~fp.flock
  /\ saving' = TRUE
  /\ UNCHANGED <<fp, super, fblk, addr, pc, asleep, u, errors>>

UpdateCopy ==
  /\ saving
  /\ super' = fp.list
  /\ fp' = [fp EXCEPT !.fmod = FALSE]
  /\ saving' = FALSE
  /\ UNCHANGED <<fblk, addr, pc, asleep, u, errors>>

Kernel(p) ==
  \/ AwaitFlock(p) \/ Alloc(p) \/ AllocTake(p) \/ AllocFails(p)
  \/ TruncNext(p) \/ TruncEnd(p) \/ FreeBlock(p) \/ FreeLink(p) \/ FreeLinked(p)
  \/ \E fails \in BOOLEAN : AllocChain(p, fails)

Next ==
  \/ \E p \in Proc : Kernel(p) \/ \E f \in File : Grow(p, f) \/ Truncate(p, f)
  \/ UpdateTest \/ UpdateCopy

Spec == Init /\ [][Next]_vars

-----------------------------------------------------------------------------
(* While one process moves the list into a block, or reads the next one,   *)
(* the list is the one in its block.                                       *)
Moving == {p \in Proc : pc[p] \in {"chain", "linked"}}
Current == IF Moving = {} THEN fp.list ELSE fblk[u[CHOOSE p \in Moving : TRUE].bno]

InFile(f) == {addr[f][i] : i \in 1..Len(addr[f])}
InHand == {u[p].bno : p \in Proc} \ {None}
Held == (UNION {InFile(f) : f \in File}) \cup InHand

TypeOK ==
  /\ fp \in [list : List, flock : BOOLEAN, fmod : BOOLEAN, tfree : Nat]
  /\ super \in List
  /\ fblk \in [Block -> List]
  /\ addr \in [File -> Seq(Block)]
  /\ pc \in [Proc -> PC] /\ asleep \in [Proc -> BOOLEAN]
  /\ u \in [Proc -> [file : File \cup {NoFile}, bno : 0..NBLOCK]]
  /\ saving \in BOOLEAN /\ errors \in Nat

(* No block is twice in files or in the hands of a call: alloc never gives *)
(* out a block that it has given out and that has not been freed, though   *)
(* it sleeps with s_flock set and, for the buffer, without it.             *)
NoBlockTwice ==
  /\ \A f, g \in File : \A i \in 1..Len(addr[f]), j \in 1..Len(addr[g]) :
       addr[f][i] = addr[g][j] => f = g /\ i = j
  /\ \A p, q \in Proc : u[p].bno = u[q].bno /\ u[p].bno # None => p = q
  /\ \A p \in Proc, f \in File : u[p].bno \notin InFile(f)

(* Every block is in one place of the free list, in one file or in the     *)
(* hands of one call; unless a read has failed, none is lost.              *)
OnePlace ==
  LET lists == Lists(Current)
      places == {x \in Depth \X Slot : x[2] < lists[x[1]].nfree /\ lists[x[1]].free[x[2]] # None}
      free == FreeOf(Current)
  IN /\ Cardinality(places) = Cardinality(free)
     /\ free \cap Held = {}
     /\ errors = 0 => free \cup Held = Block

(* s_flock: one process at a time changes the chain, and whoever sleeps    *)
(* will be woken by it.                                                    *)
SleeperWaits ==
  /\ Cardinality({p \in Proc : pc[p] \in {"chain", "link", "linked"}}) = IF fp.flock THEN 1 ELSE 0
  /\ \A p \in Proc : asleep[p] => fp.flock

(* s_tfree never promises more than there is: the free blocks and those    *)
(* that alloc has taken and not yet subtracted.                            *)
Counted == fp.tfree <= Cardinality(FreeOf(Current)) + Cardinality({p \in Proc : pc[p] \in {"chain", "take"}})

(* With s_fmod clear and no call at work on the list, the superblock on    *)
(* the disk has the free blocks that the one in core has, although update  *)
(* looks at s_flock before it waits for a buffer and copies after it.      *)
SavedWhenClean ==
  ~fp.fmod /\ errors = 0 /\ (\A p \in Proc : pc[p] \in {"idle", "nospace", "trunc"}) => FreeOf(super) = FreeOf(fp.list)

(* alloc and free implement BlockPool: a block is taken from what is free, *)
(* ENOSPC means that nothing is, and blocks are lost by failed reads only. *)
Pool == INSTANCE BlockPool WITH
  pool <- FreeOf(Current), held <- Held, refused <- {p \in Proc : pc[p] = "nospace"}, spoiled <- errors > 0
PoolPromise == Pool!PoolSpec
=============================================================================
