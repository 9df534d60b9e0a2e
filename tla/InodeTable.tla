----------------------------- MODULE InodeTable -----------------------------
(***************************************************************************)
(* The in-core inodes of one file system: iget, iput, iupdat and maknode   *)
(* (os/iget.c), plock and prele (os/pipe.c), ialloc, ifree and the inode   *)
(* part of update (os/alloc.c), under the system calls that use them:      *)
(* open, creat, close, link, unlink, pipe, read and write, sync. Names     *)
(* have one component, in the root directory.                              *)
(*                                                                         *)
(* The kernel is not preemptive: cpu names the process that is inside it.  *)
(* A process leaves it when it waits for a lock (asleep) or for a block of *)
(* the disk (the labels of Diskwait); any other process may then run. How  *)
(* long the disk takes is not modelled: a process that waits for a block   *)
(* may go on at any time.                                                  *)
(***************************************************************************)
EXTENDS Integers, Sequences, FiniteSets, FiniteSetsExt

CONSTANTS
  Proc,      \* processes
  NoProc,    \* no process is inside the kernel
  NINODE,    \* v.v_inode, the entries of the inode table
  NINUM,     \* the inodes on the disk are 1..NINUM
  INOPB,     \* inodes per block
  NICINOD,   \* free inode numbers the superblock remembers
  Name,      \* names in the root directory
  MaxFiles,  \* open files a process may have
  MaxFaults, \* bound: reads of a block of inodes that fail
  Calls      \* the system calls the processes make

Slot == 1..NINODE
Ino == 1..NINUM
ROOTINO == 1
SILOCK == NINODE + 1    \* the channel &fp->s_ilock; the channel of an inode is its slot
Mode == {"none", "file", "fifo", "dir"}   \* i_mode & IFMT; "none" is i_mode == 0
SysCall == {"open", "creat", "close", "link", "unlink", "pipe", "rdwr", "sync"}

ASSUME SizeAssumption ==
  /\ NINODE \in Nat \ {0} /\ NINUM \in Nat \ {0} /\ INOPB \in Nat \ {0}
  /\ NICINOD \in Nat \ {0, 1} /\ MaxFiles \in Nat /\ MaxFaults \in Nat
ASSUME ProcAssumption == IsFiniteSet(Proc) /\ NoProc \notin Proc
ASSUME CallsAssumption == Calls \subseteq SysCall

VARIABLES
  inode,    \* inode[]: number, count, lock, want, dirty (IUPD|IACC|ICHG), mode, nlink
  dinode,   \* the inodes on the disk, as the buffer cache shows them
  dir,      \* the entries of the root directory: an inode number, or 0
  super,    \* s_ninode, s_inode and s_ilock of the superblock
  updlock,  \* only one update() at a time
  cpu,      \* the process inside the kernel, or NoProc
  asleep,   \* the channel each process sleeps on, 0 if none
  pc,       \* where each process is
  ret,      \* where each process returns to, innermost call first
  u,        \* the registers of each process
  file,     \* how many open files of each process refer to each slot
  faults    \* reads of a block of inodes that have failed

disk == <<dinode, dir, faults>>
sched == <<cpu, asleep, pc, ret>>
vars == <<inode, dinode, dir, super, updlock, cpu, asleep, pc, ret, u, file, faults>>

Diskwait == {"iread", "itrunc", "iupdat", "iscan", "search", "wentry", "lentry", "uentry", "rdwr", "trunc"}
PC == Diskwait \cup
  {"idle", "end", "namei", "lookup", "child", "iget", "plock", "iput", "ifree", "idrop",
   "ialloc", "ialloop", "ialgot", "ialstale", "ialput", "iscanned", "opened", "grant", "granted", "maknode", "wdir", "made",
   "link1", "link2", "linked", "linkout", "unlink1", "unlink2", "unlink3", "pipe", "close1", "rdwr1",
   "update", "update1"}

Inode == [number : Ino \cup {0}, count : Int, lock : BOOLEAN, want : BOOLEAN, dirty : BOOLEAN,
          mode : Mode, nlink : Int]
Frame == [name : Name \cup {"none"}, to : Name \cup {"none"}, flag : 0..2, ino : Ino \cup {0},
          cur : Slot \cup {0}, dp : Slot \cup {0}, ip : Slot \cup {0}, scan : Nat, err : BOOLEAN]
NoCall == [name |-> "none", to |-> "none", flag |-> 0, ino |-> 0, cur |-> 0, dp |-> 0, ip |-> 0,
           scan |-> 0, err |-> FALSE]

TypeOK ==
  /\ inode \in [Slot -> Inode]
  /\ dinode \in [Ino -> [mode : Mode, nlink : Int]]
  /\ dir \in [Name -> Ino \cup {0}]
  /\ super \in [n : 0..NICINOD, list : [0..NICINOD-1 -> Ino \cup {0}], lock : BOOLEAN]
  /\ updlock \in BOOLEAN
  /\ cpu \in Proc \cup {NoProc}
  /\ asleep \in [Proc -> 0..SILOCK]
  /\ pc \in [Proc -> PC]
  /\ ret \in [Proc -> Seq(PC)]
  /\ u \in [Proc -> Frame]
  /\ file \in [Proc -> [Slot -> Nat]]
  /\ faults \in 0..MaxFaults

(* main() has taken the root inode for rootdir and unlocked it (the second  *)
(* reference, u.u_cdir, is never given up either and is not counted); the rest *)
(* of the table is empty, and so are the directory and the list of the     *)
(* superblock (mkfs leaves s_ninode 0).                                    *)
Init ==
  /\ inode = [s \in Slot |-> [number |-> IF s = 1 THEN ROOTINO ELSE 0, count |-> IF s = 1 THEN 1 ELSE 0,
                              lock |-> FALSE, want |-> FALSE, dirty |-> FALSE,
                              mode |-> IF s = 1 THEN "dir" ELSE "none", nlink |-> IF s = 1 THEN 2 ELSE 0]]
  /\ dinode = [i \in Ino |-> IF i = ROOTINO THEN [mode |-> "dir", nlink |-> 2]
                                           ELSE [mode |-> "none", nlink |-> 0]]
  /\ dir = [n \in Name |-> 0]
  /\ super = [n |-> 0, list |-> [k \in 0..NICINOD-1 |-> 0], lock |-> FALSE]
  /\ updlock = FALSE
  /\ cpu = NoProc
  /\ asleep = [p \in Proc |-> 0]
  /\ pc = [p \in Proc |-> "idle"]
  /\ ret = [p \in Proc |-> <<>>]
  /\ u = [p \in Proc |-> NoCall]
  /\ file = [p \in Proc |-> [s \in Slot |-> 0]]
  /\ faults = 0

-----------------------------------------------------------------------------
(* Control: p is at label l and has the processor, or can get it.          *)
At(p, l) == cpu \in {p, NoProc} /\ asleep[p] = 0 /\ pc[p] = l

(* p goes on at l, having called (r on top of rs) or returned.             *)
Enter(p, l, rs) ==
  /\ pc' = [pc EXCEPT ![p] = l]
  /\ ret' = [ret EXCEPT ![p] = rs]
  /\ cpu' = IF l \in Diskwait \cup {"idle"} THEN NoProc ELSE p
Goto(p, l) == Enter(p, l, ret[p])
Call(p, l, r) == Enter(p, l, <<r>> \o ret[p])
Return(p) == Enter(p, Head(ret[p]), Tail(ret[p]))

Sleep(p, chan) ==
  /\ asleep' = [asleep EXCEPT ![p] = chan]
  /\ cpu' = NoProc
  /\ UNCHANGED <<pc, ret>>
Wakeup(chan) == asleep' = [q \in Proc |-> IF asleep[q] = chan THEN 0 ELSE asleep[q]]

(* i_flag |= IWANT; sleep(ip, PINOD)                                       *)
AwaitLock(p, s) == inode' = [inode EXCEPT ![s].want = TRUE] /\ Sleep(p, s)

(* prele(ip): what it leaves of an entry, and whom it wakes.               *)
Released(e) == [e EXCEPT !.lock = FALSE, !.want = FALSE]
WakeLockers(s) == IF inode[s].want THEN Wakeup(s) ELSE UNCHANGED asleep
prele(s) == inode' = [inode EXCEPT ![s] = Released(@)] /\ WakeLockers(s)

Set(p, r) == u' = [u EXCEPT ![p] = r]

(* bread() of a block of the i-list: it may fail                           *)
Bread(fails) == (fails => faults < MaxFaults) /\ faults' = faults + (IF fails THEN 1 ELSE 0)

-----------------------------------------------------------------------------
(* iget(dev, ino) with ino in u.ino; the result is left in u.cur.          *)
Holding(i) == {s \in Slot : inode[s].number = i}
Unused == {s \in Slot : inode[s].count = 0}

IgetWait(p) ==   \* found, and locked: sleep and look again
  /\ At(p, "iget")
  /\ \E s \in Holding(u[p].ino) : inode[s].lock /\ AwaitLock(p, s)
  /\ UNCHANGED <<disk, super, updlock, u, file>>

IgetFound(p) ==
  /\ At(p, "iget")
  /\ \E s \in Holding(u[p].ino) :
       /\ ~inode[s].lock
       /\ inode' = [inode EXCEPT ![s] = [@ EXCEPT !.count = inode[s].count + 1, !.lock = TRUE]]
       /\ Set(p, [u[p] EXCEPT !.cur = s])
  /\ Return(p)
  /\ UNCHANGED <<disk, super, updlock, asleep, file>>

IgetFull(p) ==   \* inode table overflow: ENFILE
  /\ At(p, "iget")
  /\ Holding(u[p].ino) = {} /\ Unused = {}
  /\ Set(p, [u[p] EXCEPT !.cur = 0, !.err = TRUE])
  /\ Return(p)
  /\ UNCHANGED <<inode, disk, super, updlock, asleep, file>>

IgetReadLocked(p) ==   \* mutant: a locked entry is passed over
  /\ At(p, "iget")
  /\ \A s \in Holding(u[p].ino) : inode[s].lock
  /\ Unused # {}
  /\ LET s == Min(Unused) IN
       /\ inode' = [inode EXCEPT ![s] = [@ EXCEPT !.number = u[p].ino, !.count = 1, !.lock = TRUE,
                                                  !.want = FALSE, !.dirty = FALSE]]
       /\ Set(p, [u[p] EXCEPT !.cur = s])
  /\ Goto(p, "iread")
  /\ UNCHANGED <<disk, super, updlock, asleep, file>>

IgetRead(p) ==   \* the first free entry; mode and nlink are its last owner's until the read ends
  /\ At(p, "iget")
  /\ Holding(u[p].ino) = {} /\ Unused # {}
  /\ LET s == Min(Unused) IN
       /\ inode' = [inode EXCEPT ![s] = [@ EXCEPT !.number = u[p].ino, !.count = 1, !.lock = TRUE,
                                                  !.want = FALSE, !.dirty = FALSE]]
       /\ Set(p, [u[p] EXCEPT !.cur = s])
  /\ Goto(p, "iread")
  /\ UNCHANGED <<disk, super, updlock, asleep, file>>

IreadNoPut(p) ==   \* mutant: a failed read returns without iput()
  /\ At(p, "iread")
  /\ \E fails \in BOOLEAN :
       /\ Bread(fails)
       /\ IF fails \/ u[p].err
          THEN Set(p, [u[p] EXCEPT !.err = TRUE, !.cur = 0]) /\ UNCHANGED inode
          ELSE /\ LET s == u[p].cur
                      d == dinode[inode[s].number] IN
                  inode' = [inode EXCEPT ![s] = [@ EXCEPT !.mode = d.mode, !.nlink = d.nlink]]
               /\ UNCHANGED u
       /\ Return(p)
  /\ UNCHANGED <<dinode, dir, super, updlock, asleep, file>>

IreadQuiet(p) ==   \* mutant: a failed read gives the entry up without prele()
  /\ At(p, "iread")
  /\ \E fails \in BOOLEAN :
       /\ Bread(fails)
       /\ LET s == u[p].cur
              d == dinode[inode[s].number] IN
          IF fails \/ u[p].err
          THEN /\ Set(p, [u[p] EXCEPT !.err = TRUE, !.cur = 0])
               /\ inode' = [inode EXCEPT ![s] = [Released(@) EXCEPT !.number = 0, !.count = 0]]
          ELSE inode' = [inode EXCEPT ![s] = [@ EXCEPT !.mode = d.mode, !.nlink = d.nlink]] /\ UNCHANGED u
       /\ Return(p)
  /\ UNCHANGED <<dinode, dir, super, updlock, asleep, file>>

(* iread(): the test is of u.u_error, which an earlier failure may have set *)
Iread(p) ==
  /\ At(p, "iread")
  /\ \E fails \in BOOLEAN :
       /\ Bread(fails)
       /\ IF fails \/ u[p].err
          THEN /\ Set(p, [u[p] EXCEPT !.err = TRUE])
               /\ Goto(p, "iput")
               /\ UNCHANGED inode
          ELSE /\ LET s == u[p].cur
                      d == dinode[inode[s].number] IN
                  inode' = [inode EXCEPT ![s] = [@ EXCEPT !.mode = d.mode, !.nlink = d.nlink]]
               /\ Return(p)
               /\ UNCHANGED u
  /\ UNCHANGED <<dinode, dir, super, updlock, asleep, file>>

-----------------------------------------------------------------------------
(* plock(ip), iput(ip) and iupdat(ip), with ip in u.cur; iput clears it.   *)
Plock(p) ==
  /\ At(p, "plock")
  /\ LET s == u[p].cur IN
       IF inode[s].lock THEN AwaitLock(p, s)
       ELSE inode' = [inode EXCEPT ![s].lock = TRUE] /\ Return(p) /\ UNCHANGED asleep
  /\ UNCHANGED <<disk, super, updlock, u, file>>

(* iput() of an entry with other references                                *)
IputShared(p) ==
  /\ At(p, "iput")
  /\ LET s == u[p].cur IN
       /\ inode[s].count # 1
       /\ inode' = [inode EXCEPT ![s] = [Released(@) EXCEPT !.count = inode[s].count - 1]]
       /\ WakeLockers(s)
  /\ Set(p, [u[p] EXCEPT !.cur = 0])
  /\ Return(p)
  /\ UNCHANGED <<disk, super, updlock, file>>

(* the last reference: free the file if it has no links, write the inode   *)
(* if it changed, give the entry up                                        *)
IputLast(p) ==
  /\ At(p, "iput")
  /\ LET s == u[p].cur
         e == inode[s] IN
       /\ e.count = 1
       /\ inode' = [inode EXCEPT ![s].lock = TRUE]
       /\ IF e.nlink <= 0 THEN Goto(p, IF e.mode = "file" THEN "itrunc" ELSE "ifree")
          ELSE IF e.dirty THEN Call(p, "iupdat", "idrop")
          ELSE Goto(p, "idrop")
  /\ UNCHANGED <<disk, super, updlock, asleep, u, file>>

(* mutant: the list is not tested for room                                 *)
ifreeNoRoomTest(sb, i) ==
  IF sb.lock THEN sb
  ELSE LET k == IF sb.n = 0 /\ i > sb.list[0] THEN 1 ELSE sb.n IN
       [sb EXCEPT !.list[k] = i, !.n = k + 1]

(* ifree(dev, ino): what the superblock remembers of it                    *)
ifree(sb, i) ==
  IF sb.lock THEN sb
  ELSE IF sb.n = NICINOD
  THEN IF i < sb.list[0] THEN [sb EXCEPT !.list[0] = i] ELSE sb
  ELSE LET k == IF sb.n = 0 /\ i > sb.list[0] THEN 1 ELSE sb.n IN
       [sb EXCEPT !.list[k] = i, !.n = k + 1]

Ifree(p) ==
  /\ At(p, "itrunc") \/ At(p, "ifree")
  /\ LET s == u[p].cur IN
       /\ super' = ifree(super, inode[s].number)
       /\ inode' = [inode EXCEPT ![s] = [@ EXCEPT !.mode = "none", !.dirty = TRUE]]
  /\ Call(p, "iupdat", "idrop")
  /\ UNCHANGED <<disk, updlock, asleep, u, file>>

IdropNoRelease(p) ==   \* mutant: i_flag = 0 without prele()
  /\ At(p, "idrop")
  /\ inode' = [inode EXCEPT ![u[p].cur] = [Released(@) EXCEPT !.dirty = FALSE, !.number = 0, !.count = 0]]
  /\ Set(p, [u[p] EXCEPT !.cur = 0])
  /\ Return(p)
  /\ UNCHANGED <<disk, super, updlock, asleep, file>>

Idrop(p) ==
  /\ At(p, "idrop")
  /\ LET s == u[p].cur IN
       /\ inode' = [inode EXCEPT ![s] = [Released(@) EXCEPT !.dirty = FALSE, !.number = 0, !.count = 0]]
       /\ WakeLockers(s)
  /\ Set(p, [u[p] EXCEPT !.cur = 0])
  /\ Return(p)
  /\ UNCHANGED <<disk, super, updlock, file>>

Iupdat(p) ==   \* the block is there: copy the inode into it, or fail
  /\ At(p, "iupdat")
  /\ LET s == u[p].cur IN
       \E fails \in BOOLEAN :
         /\ Bread(fails)
         /\ IF fails
            THEN Set(p, [u[p] EXCEPT !.err = TRUE]) /\ UNCHANGED <<inode, dinode>>
            ELSE /\ dinode' = [dinode EXCEPT ![inode[s].number] = [mode |-> inode[s].mode, nlink |-> inode[s].nlink]]
                 /\ inode' = [inode EXCEPT ![s].dirty = FALSE]
                 /\ UNCHANGED u
  /\ Return(p)
  /\ UNCHANGED <<dir, super, updlock, asleep, file>>

-----------------------------------------------------------------------------
(* ialloc(dev): the result is left in u.cur.                               *)
Ialloc(p) ==
  /\ At(p, "ialloc")
  /\ IF super.lock THEN Sleep(p, SILOCK) ELSE Goto(p, "ialloop") /\ UNCHANGED asleep
  /\ UNCHANGED <<inode, disk, super, updlock, u, file>>

IallocTakeKeeps(p) ==   \* mutant: without --s_ninode
  /\ At(p, "ialloop")
  /\ super.n > 0 /\ super.list[super.n - 1] # 0
  /\ Set(p, [u[p] EXCEPT !.ino = super.list[super.n - 1]])
  /\ Call(p, "iget", "ialgot")
  /\ UNCHANGED <<inode, disk, super, updlock, asleep, file>>

(* loop: take a number from the list and look at the inode                 *)
IallocTake(p) ==
  /\ At(p, "ialloop")
  /\ super.n > 0 /\ super.list[super.n - 1] # 0
  /\ super' = [super EXCEPT !.n = @ - 1]
  /\ Set(p, [u[p] EXCEPT !.ino = super.list[super.n - 1]])
  /\ Call(p, "iget", "ialgot")
  /\ UNCHANGED <<inode, disk, updlock, asleep, file>>

IallocGot(p) ==
  /\ At(p, "ialgot")
  /\ LET s == u[p].cur IN
       \/ s = 0 /\ Return(p) /\ UNCHANGED inode
       \/ s # 0 /\ inode[s].mode = "none" /\ inode' = [inode EXCEPT ![s].nlink = 0] /\ Return(p)
       \/ s # 0 /\ inode[s].mode # "none" /\ Call(p, "iupdat", "ialstale") /\ UNCHANGED inode
  /\ UNCHANGED <<disk, super, updlock, asleep, u, file>>

IallocStale(p) ==   \* inode was allocated after all: look some more
  /\ At(p, "ialstale")
  /\ Call(p, "iput", "ialloop")
  /\ UNCHANGED <<inode, disk, super, updlock, asleep, u, file>>

(* the list is used up: lock it and search the i-list from s_inode[0] on,  *)
(* a block at a time, for inodes that are free on the disk                 *)
FirstOfBlock(i) == (i \div INOPB) * INOPB + 1
BlockOf(i) == {j \in Ino : (j - 1) \div INOPB = (i - 1) \div INOPB}

IallocSearch(p) ==
  /\ At(p, "ialloop")
  /\ ~(super.n > 0 /\ super.list[super.n - 1] # 0)
  /\ super' = [super EXCEPT !.lock = TRUE, !.n = NICINOD]
  /\ LET i == FirstOfBlock(super.list[0]) IN
       /\ Set(p, [u[p] EXCEPT !.scan = i])
       /\ Goto(p, IF i \in Ino THEN "iscan" ELSE "iscanned")
  /\ UNCHANGED <<inode, disk, updlock, asleep, file>>

(* The numbers in free, the lowest first, are put in from s_inode[s_ninode - 1] *)
(* down to s_inode[0].                                                     *)
Remember(sb, free) ==
  LET Place(j) == sb.n - 1 - Cardinality({i \in free : i < j}) IN
  [sb EXCEPT !.n = IF Cardinality(free) < @ THEN @ - Cardinality(free) ELSE 0,
             !.list = [k \in DOMAIN @ |-> IF \E j \in free : Place(j) = k
                                         THEN CHOOSE j \in free : Place(j) = k ELSE @[k]]]

Iscan(p) ==   \* once u.u_error is set every further block counts as unreadable
  /\ At(p, "iscan")
  /\ \E fails \in BOOLEAN :
       LET bad == fails \/ u[p].err
           i == u[p].scan
           free == {j \in BlockOf(i) : dinode[j].mode = "none"}
           sb == IF bad THEN super ELSE Remember(super, free) IN
       /\ Bread(fails)
       /\ super' = sb
       /\ Set(p, [u[p] EXCEPT !.scan = i + INOPB, !.err = bad])
       /\ Goto(p, IF (bad \/ sb.n > 0) /\ i + INOPB \in Ino THEN "iscan" ELSE "iscanned")
  /\ UNCHANGED <<inode, dinode, dir, updlock, asleep, file>>

IscanEnd(p) ==
  /\ At(p, "iscanned")
  /\ Wakeup(SILOCK)
  /\ LET list == IF super.n > 0 THEN [super.list EXCEPT ![super.n - 1] = 0, ![0] = 0] ELSE super.list IN
       super' = [n |-> NICINOD, list |-> list, lock |-> FALSE]
  /\ IF super.n # NICINOD THEN Goto(p, "ialloop") /\ UNCHANGED u
     ELSE Set(p, [u[p] EXCEPT !.cur = 0, !.err = TRUE]) /\ Return(p)   \* out of inodes: ENOSPC
  /\ UNCHANGED <<inode, disk, updlock, file>>

-----------------------------------------------------------------------------
(* namei(func, flag) of a name in the root directory. It leaves the inode  *)
(* in u.cur (0 if none); with flag 2, or with flag 1 and no such name, the *)
(* directory stays locked in u.dp.                                         *)
Namei(p) ==
  /\ At(p, "namei")
  /\ Set(p, [u[p] EXCEPT !.ino = ROOTINO])
  /\ Call(p, "iget", "lookup")
  /\ UNCHANGED <<inode, disk, super, updlock, asleep, file>>

Lookup(p) ==   \* then wait for the block of the directory
  /\ At(p, "lookup")
  /\ Set(p, [u[p] EXCEPT !.dp = u[p].cur, !.cur = 0])
  /\ Goto(p, "search")
  /\ UNCHANGED <<inode, disk, super, updlock, asleep, file>>

Search(p) ==
  /\ At(p, "search")
  /\ LET i == dir[u[p].name]
         found == [u[p] EXCEPT !.ino = i] IN
       \/ i = 0 /\ u[p].flag = 1 /\ Return(p) /\ UNCHANGED u
       \/ i = 0 /\ u[p].flag # 1 /\ Set(p, [u[p] EXCEPT !.err = TRUE, !.cur = u[p].dp, !.dp = 0])
                /\ Goto(p, "iput")
       \/ i # 0 /\ u[p].flag = 2 /\ Set(p, found) /\ Return(p)
       \/ i # 0 /\ u[p].flag # 2 /\ Set(p, [found EXCEPT !.cur = u[p].dp, !.dp = 0])
                /\ Call(p, "iput", "child")
  /\ UNCHANGED <<inode, disk, super, updlock, asleep, file>>

Child(p) == /\ At(p, "child") /\ Goto(p, "iget")
            /\ UNCHANGED <<inode, disk, super, updlock, asleep, u, file>>

-----------------------------------------------------------------------------
(* The system calls. Begin enters one; End leaves it.                      *)
Files(p) == MapThenSumSet(LAMBDA s : file[p][s], Slot)
Begin(p, call, frame, l, r) ==
  /\ call \in Calls /\ At(p, "idle")
  /\ Set(p, frame)
  /\ Call(p, l, r)
  /\ UNCHANGED <<inode, disk, super, asleep>>

End(p) ==
  /\ At(p, "end")
  /\ Set(p, NoCall)
  /\ Goto(p, "idle")
  /\ UNCHANGED <<inode, disk, super, updlock, asleep, file>>

(* Drop(p, s, l): iput(s), then go on at l. s leaves the register.         *)
Drop(p, s, frame, l) == Set(p, [frame EXCEPT !.cur = s]) /\ Call(p, "iput", l)
DropIp(p, l) == Drop(p, u[p].ip, [u[p] EXCEPT !.ip = 0], l)
DropDp(p, l) == Drop(p, u[p].dp, [u[p] EXCEPT !.dp = 0], l)

Open(p) ==
  /\ Files(p) < MaxFiles
  /\ \E n \in Name : Begin(p, "open", [NoCall EXCEPT !.name = n], "namei", "opened")
  /\ UNCHANGED <<updlock, file>>
Creat(p) ==
  /\ Files(p) < MaxFiles
  /\ \E n \in Name : Begin(p, "creat", [NoCall EXCEPT !.name = n, !.flag = 1], "namei", "opened")
  /\ UNCHANGED <<updlock, file>>

Opened(p) ==   \* copen() after namei()
  /\ At(p, "opened")
  /\ LET s == u[p].cur IN
       \/ s = 0 /\ u[p].dp = 0 /\ Goto(p, "end") /\ UNCHANGED u
       \/ s = 0 /\ u[p].dp # 0 /\ Call(p, "ialloc", "maknode") /\ UNCHANGED u
       \/ s # 0 /\ Set(p, [u[p] EXCEPT !.ip = s, !.cur = 0]) /\ Goto(p, "grant")
  /\ UNCHANGED <<inode, disk, super, updlock, asleep, file>>

Deny(p) ==    \* u.u_error, no permission, or no entry in the file table
  /\ At(p, "grant")
  /\ DropIp(p, "end")
  /\ UNCHANGED <<inode, disk, super, updlock, asleep, file>>

Truncates(p) == u[p].flag = 1 /\ inode[u[p].ip].mode = "file"
Trunc(p) ==   \* itrunc(ip) of an existing file
  /\ At(p, "grant") /\ ~u[p].err /\ Truncates(p)
  /\ Goto(p, "trunc")
  /\ UNCHANGED <<inode, disk, super, updlock, asleep, u, file>>
Truncated(p) ==
  /\ At(p, "trunc")
  /\ inode' = [inode EXCEPT ![u[p].ip].dirty = TRUE]
  /\ Goto(p, "granted")
  /\ UNCHANGED <<disk, super, updlock, asleep, u, file>>

Grant(p) ==   \* prele(ip): the file is open
  /\ At(p, "granted") \/ (At(p, "grant") /\ ~u[p].err /\ ~Truncates(p))
  /\ prele(u[p].ip)
  /\ file' = [file EXCEPT ![p][u[p].ip] = @ + 1]
  /\ Set(p, [u[p] EXCEPT !.ip = 0])
  /\ Goto(p, "end")
  /\ UNCHANGED <<disk, super, updlock>>

MaknodeLate(p) ==   \* mutant: the entry is written before the inode
  /\ At(p, "maknode")
  /\ LET s == u[p].cur IN
       \/ s = 0 /\ DropDp(p, "end") /\ UNCHANGED inode
       \/ /\ s # 0
          /\ inode' = [inode EXCEPT ![s] = [@ EXCEPT !.mode = "file", !.nlink = 1, !.dirty = TRUE]]
          /\ Set(p, [u[p] EXCEPT !.ip = s, !.flag = 0])
          /\ Goto(p, "wdir")
  /\ UNCHANGED <<disk, super, updlock, asleep, file>>

MaknodeNoLink(p) ==   \* mutant: without i_nlink = 1
  /\ At(p, "maknode")
  /\ LET s == u[p].cur IN
       \/ s = 0 /\ DropDp(p, "end") /\ UNCHANGED inode
       \/ /\ s # 0
          /\ inode' = [inode EXCEPT ![s] = [@ EXCEPT !.mode = "file", !.dirty = TRUE]]
          /\ Set(p, [u[p] EXCEPT !.ip = s, !.flag = 0])
          /\ Call(p, "iupdat", "wdir")
  /\ UNCHANGED <<disk, super, updlock, asleep, file>>

Maknode(p) ==
  /\ At(p, "maknode")
  /\ LET s == u[p].cur IN
       \/ s = 0 /\ DropDp(p, "end") /\ UNCHANGED inode
       \/ /\ s # 0
          /\ inode' = [inode EXCEPT ![s] = [@ EXCEPT !.mode = "file", !.nlink = 1, !.dirty = TRUE]]
          /\ Set(p, [u[p] EXCEPT !.ip = s, !.flag = 0])
          /\ Call(p, "iupdat", "wdir")
  /\ UNCHANGED <<disk, super, updlock, asleep, file>>

Wdir(p) ==   \* u.cur held the new inode; once u.u_error is set writei does nothing
  /\ At(p, "wdir")
  /\ IF u[p].err THEN DropDp(p, "grant")
     ELSE Set(p, [u[p] EXCEPT !.cur = 0]) /\ Goto(p, "wentry")
  /\ UNCHANGED <<inode, disk, super, updlock, asleep, file>>

(* writei(pdir) of u.u_dent, with u.u_error 0: the entry is written, the directory changed   *)
WriteEntry(p, i) ==
  /\ dir' = [dir EXCEPT ![u[p].name] = i]
  /\ UNCHANGED <<dinode, faults, super, updlock, asleep, file>>
Changed(s) == [inode EXCEPT ![s].dirty = TRUE]

WdirEnd(p) ==
  /\ At(p, "wentry")
  /\ WriteEntry(p, inode[u[p].ip].number)
  /\ inode' = Changed(u[p].dp)
  /\ DropDp(p, "grant")

Link(p) ==
  /\ \E n \in Name, m \in Name :
       Begin(p, "link", [NoCall EXCEPT !.name = n, !.to = m], "namei", "link1")
  /\ UNCHANGED <<updlock, file>>

Link1NoPut(p) ==   \* mutant: too many links, without iput()
  /\ At(p, "link1")
  /\ LET s == u[p].cur IN
       \/ Goto(p, "end") /\ UNCHANGED <<inode, asleep, u>>
       \/ /\ s # 0
          /\ prele(s)
          /\ Set(p, [u[p] EXCEPT !.ip = s, !.cur = 0, !.flag = 1, !.name = u[p].to])
          /\ Call(p, "namei", "link2")
  /\ UNCHANGED <<disk, super, updlock, file>>

Link1(p) ==   \* unlock to avoid possibly hanging the namei
  /\ At(p, "link1")
  /\ LET s == u[p].cur IN
       \/ s = 0 /\ Goto(p, "end") /\ UNCHANGED <<inode, asleep, u>>
       \/ s # 0 /\ Call(p, "iput", "end") /\ UNCHANGED <<inode, asleep, u>>   \* too many links
       \/ /\ s # 0
          /\ prele(s)
          /\ Set(p, [u[p] EXCEPT !.ip = s, !.cur = 0, !.flag = 1, !.name = u[p].to])
          /\ Call(p, "namei", "link2")
  /\ UNCHANGED <<disk, super, updlock, file>>

Link2(p) ==
  /\ At(p, "link2")
  /\ \/ u[p].cur # 0 /\ Call(p, "iput", "linkout")
     \/ u[p].cur = 0 /\ Goto(p, IF u[p].dp = 0 THEN "linkout" ELSE "lentry")
  /\ UNCHANGED <<inode, disk, super, updlock, asleep, u, file>>

LinkEntry(p) ==
  /\ At(p, "lentry")
  /\ WriteEntry(p, inode[u[p].ip].number)
  /\ inode' = Changed(u[p].dp)
  /\ DropDp(p, "linked")

Linked(p) ==
  /\ At(p, "linked")
  /\ inode' = IF u[p].err THEN inode
              ELSE [inode EXCEPT ![u[p].ip] = [@ EXCEPT !.nlink = inode[u[p].ip].nlink + 1, !.dirty = TRUE]]
  /\ Goto(p, "linkout")
  /\ UNCHANGED <<disk, super, updlock, asleep, u, file>>

LinkOut(p) ==   \* iput(ip), although ip was unlocked
  /\ At(p, "linkout")
  /\ DropIp(p, "end")
  /\ UNCHANGED <<inode, disk, super, updlock, asleep, file>>

Unlink(p) ==
  /\ \E n \in Name : Begin(p, "unlink", [NoCall EXCEPT !.name = n, !.flag = 2], "namei", "unlink1")
  /\ UNCHANGED <<updlock, file>>

Unlink1(p) ==   \* ip = iget(), with the directory locked
  /\ At(p, "unlink1")
  /\ IF u[p].dp = 0 THEN Goto(p, "end") ELSE Call(p, "iget", "unlink2")
  /\ UNCHANGED <<inode, disk, super, updlock, asleep, u, file>>

Unlink2(p) ==
  /\ At(p, "unlink2")
  /\ LET s == u[p].cur IN
       \/ s = 0 /\ Goto(p, "unlink3") /\ UNCHANGED u
       \/ s # 0 /\ Set(p, [u[p] EXCEPT !.ip = s, !.cur = 0]) /\ Goto(p, "uentry")
  /\ UNCHANGED <<inode, disk, super, updlock, asleep, file>>

UnlinkEntryQuiet(p) ==   \* mutant: without i_flag |= ICHG
  /\ At(p, "uentry")
  /\ WriteEntry(p, 0)
  /\ inode' = [Changed(u[p].dp) EXCEPT ![u[p].ip].nlink = @ - 1]
  /\ DropIp(p, "unlink3")

UnlinkEntry(p) ==
  /\ At(p, "uentry")
  /\ WriteEntry(p, 0)
  /\ inode' = [Changed(u[p].dp) EXCEPT ![u[p].ip] = [@ EXCEPT !.nlink = inode[u[p].ip].nlink - 1, !.dirty = TRUE]]
  /\ DropIp(p, "unlink3")

UnlinkEnd(p) ==
  /\ At(p, "unlink3")
  /\ DropDp(p, "end")
  /\ UNCHANGED <<inode, disk, super, updlock, asleep, file>>

Pipe(p) ==
  /\ Files(p) + 1 < MaxFiles
  /\ Begin(p, "pipe", NoCall, "ialloc", "pipe")
  /\ UNCHANGED <<updlock, file>>

PipeMadeOne(p) ==   \* mutant: the second file is not counted
  /\ At(p, "pipe")
  /\ LET s == u[p].cur IN
       /\ s # 0
       /\ inode' = [inode EXCEPT ![s] = [@ EXCEPT !.mode = "fifo", !.lock = FALSE, !.want = FALSE, !.dirty = TRUE]]
       /\ file' = [file EXCEPT ![p][s] = @ + 2]
  /\ Call(p, "iupdat", "end")
  /\ UNCHANGED <<disk, super, updlock, asleep, u>>

PipeMade(p) ==   \* i_count and i_flag are stored, not added to
  /\ At(p, "pipe")
  /\ LET s == u[p].cur IN
       /\ s # 0
       /\ inode' = [inode EXCEPT ![s] = [@ EXCEPT !.count = 2, !.mode = "fifo", !.lock = FALSE,
                                                  !.want = FALSE, !.dirty = TRUE]]
       /\ file' = [file EXCEPT ![p][s] = @ + 2]
  /\ Call(p, "iupdat", "end")
  /\ UNCHANGED <<disk, super, updlock, asleep, u>>
PipeFails(p) ==   \* no inode, or no entries in the file table
  /\ At(p, "pipe")
  /\ IF u[p].cur = 0 THEN Goto(p, "end") ELSE Call(p, "iput", "end")
  /\ UNCHANGED <<inode, disk, super, updlock, asleep, u, file>>

Close(p) ==   \* closef()
  /\ \E s \in Slot : file[p][s] > 0 /\ Begin(p, "close", [NoCall EXCEPT !.cur = s], "plock", "close1")
  /\ UNCHANGED <<updlock, file>>
Close1(p) ==
  /\ At(p, "close1")
  /\ file' = [file EXCEPT ![p][u[p].cur] = @ - 1]
  /\ Call(p, "iput", "end")
  /\ UNCHANGED <<inode, disk, super, updlock, asleep, u>>

Rdwr(p) ==
  /\ \E s \in Slot : file[p][s] > 0 /\ Begin(p, "rdwr", [NoCall EXCEPT !.cur = s], "plock", "rdwr1")
  /\ UNCHANGED <<updlock, file>>
Rdwr1(p) == /\ At(p, "rdwr1") /\ Goto(p, "rdwr")
            /\ UNCHANGED <<inode, disk, super, updlock, asleep, u, file>>
RdwrEnd(p) ==
  /\ At(p, "rdwr")
  /\ LET s == u[p].cur IN
       /\ \E moved \in BOOLEAN :   \* a request of 0 bytes changes nothing
            inode' = [inode EXCEPT ![s] = [Released(@) EXCEPT !.dirty = inode[s].dirty \/ moved]]
       /\ WakeLockers(s)
  /\ Goto(p, "end")
  /\ UNCHANGED <<disk, super, updlock, u, file>>

Sync(p) ==
  /\ ~updlock /\ updlock' = TRUE
  /\ Begin(p, "sync", [NoCall EXCEPT !.scan = 1], "update", "end")
  /\ UNCHANGED file

UpdateLocked(p) ==   \* mutant: locked inodes are not left out
  /\ At(p, "update")
  /\ LET todo == {s \in Slot : s >= u[p].scan /\ inode[s].count # 0 /\ inode[s].dirty}
         s == Min(todo) IN
       IF todo # {}
       THEN /\ inode' = [inode EXCEPT ![s] = [@ EXCEPT !.count = inode[s].count + 1, !.lock = TRUE]]
            /\ Set(p, [u[p] EXCEPT !.cur = s, !.scan = s + 1])
            /\ Call(p, "iupdat", "update1")
            /\ UNCHANGED updlock
       ELSE updlock' = FALSE /\ Return(p) /\ UNCHANGED <<inode, u>>
  /\ UNCHANGED <<disk, super, asleep, file>>

UpdateUncounted(p) ==   \* mutant: without i_count++
  /\ At(p, "update")
  /\ LET todo == {s \in Slot : s >= u[p].scan /\ ~inode[s].lock /\ inode[s].count # 0 /\ inode[s].dirty}
         s == Min(todo) IN
       IF todo # {}
       THEN /\ inode' = [inode EXCEPT ![s].lock = TRUE]
            /\ Set(p, [u[p] EXCEPT !.cur = s, !.scan = s + 1])
            /\ Call(p, "iupdat", "update1")
            /\ UNCHANGED updlock
       ELSE updlock' = FALSE /\ Return(p) /\ UNCHANGED <<inode, u>>
  /\ UNCHANGED <<disk, super, asleep, file>>

(* update(): the changed inodes that are in use and not locked, in order   *)
Update(p) ==
  /\ At(p, "update")
  /\ LET todo == {s \in Slot : s >= u[p].scan /\ ~inode[s].lock /\ inode[s].count # 0 /\ inode[s].dirty}
         s == Min(todo) IN
       IF todo # {}
       THEN /\ inode' = [inode EXCEPT ![s] = [@ EXCEPT !.count = inode[s].count + 1, !.lock = TRUE]]
            /\ Set(p, [u[p] EXCEPT !.cur = s, !.scan = s + 1])
            /\ Call(p, "iupdat", "update1")
            /\ UNCHANGED updlock
       ELSE updlock' = FALSE /\ Return(p) /\ UNCHANGED <<inode, u>>
  /\ UNCHANGED <<disk, super, asleep, file>>
Update1(p) ==
  /\ At(p, "update1")
  /\ Call(p, "iput", "update")
  /\ UNCHANGED <<inode, disk, super, updlock, asleep, u, file>>

-----------------------------------------------------------------------------
Inodes(p) == IgetWait(p) \/ IgetFound(p) \/ IgetFull(p) \/ IgetRead(p) \/ Iread(p) \/ Plock(p)
             \/ IputShared(p) \/ IputLast(p) \/ Ifree(p) \/ Idrop(p) \/ Iupdat(p)
Allocation(p) == Ialloc(p) \/ IallocTake(p) \/ IallocGot(p) \/ IallocStale(p) \/ IallocSearch(p)
                 \/ Iscan(p) \/ IscanEnd(p)
Names(p) == Namei(p) \/ Lookup(p) \/ Search(p) \/ Child(p)
Opening(p) == Opened(p) \/ Trunc(p) \/ Truncated(p) \/ Grant(p) \/ Deny(p) \/ Maknode(p) \/ Wdir(p) \/ WdirEnd(p)
Linking(p) == Link1(p) \/ Link2(p) \/ LinkEntry(p) \/ Linked(p) \/ LinkOut(p)
              \/ Unlink1(p) \/ Unlink2(p) \/ UnlinkEntry(p) \/ UnlinkEnd(p)
Using(p) == PipeMade(p) \/ PipeFails(p) \/ Close1(p) \/ Rdwr1(p) \/ RdwrEnd(p) \/ Update(p) \/ Update1(p)

Enters(p) == Open(p) \/ Creat(p) \/ Link(p) \/ Unlink(p) \/ Pipe(p) \/ Close(p) \/ Rdwr(p) \/ Sync(p)
Kernel(p) == Inodes(p) \/ Allocation(p) \/ Names(p) \/ Opening(p) \/ Linking(p) \/ Using(p) \/ End(p)
Next == \E p \in Proc : Enters(p) \/ Kernel(p)

Spec == Init /\ [][Next]_vars

(* A process that can run is run in the end; and one that is woken for a   *)
(* lock gets it in the end: it runs at PINOD, before any process that is   *)
(* in user mode.                                                           *)
Advance(p) == Kernel(p) /\ asleep'[p] = 0
FairSpec == Spec /\ \A p \in Proc : SF_vars(Kernel(p)) /\ SF_vars(Advance(p))

-----------------------------------------------------------------------------
(* Properties. *)

(* The locks a process counts on. link() has unlocked ip; the argument of  *)
(* iput is about to be released without a sleep.                           *)
Locks(p, s) ==
  \/ u[p].dp = s
  \/ u[p].ip = s /\ u[p].to = "none"
  \/ u[p].cur = s /\ pc[p] \notin {"plock", "iput", "end"} /\ ~(pc[p] = "iupdat" /\ ret[p] = <<"end">>)

(* The references of a process to an entry: its open files, and its        *)
(* registers that are not copies of an open file or of ip.                 *)
OwnReference(p) ==
  /\ pc[p] \notin {"plock", "close1", "rdwr1", "rdwr", "wdir", "end"}
  /\ ~(pc[p] = "iupdat" /\ Head(ret[p]) \in {"end", "wdir"})
References(p, s) ==
  file[p][s] + (IF u[p].dp = s THEN 1 ELSE 0) + (IF u[p].ip = s THEN 1 ELSE 0)
  + (IF u[p].cur = s /\ OwnReference(p) THEN 1 ELSE 0)

(* An inode is in the table at most once (inode.h: "there is a unique      *)
(* inode allocated for each active file"), although iget sleeps between    *)
(* its searches.                                                           *)
UniqueInode == \A s, t \in Slot : inode[s].number = inode[t].number /\ inode[s].number # 0 => s = t

(* A locked inode has exactly one process that counts on the lock, and no  *)
(* process counts on the lock of an unlocked one.                          *)
OneLocker ==
  \A s \in Slot :
    /\ \A p, q \in Proc : Locks(p, s) /\ Locks(q, s) => p = q
    /\ (\E p \in Proc : Locks(p, s)) => inode[s].lock
    /\ inode[s].lock => \E p \in Proc : Locks(p, s) \/ (u[p].cur = s /\ pc[p] = "iput")

(* i_count is the number of references, counted here as the pairs of a     *)
(* process and one of its references, and one for rootdir: an entry is not *)
(* given up while someone uses it, and is given up when no one does.       *)
RefCount ==
  \A s \in Slot :
    inode[s].count = (IF s = 1 THEN 1 ELSE 0) + Cardinality(UNION {{p} \X (1..References(p, s)) : p \in Proc})

(* A process that sleeps on an inode has left its IWANT there and the lock *)
(* is held, so the release will wake it; likewise for the inode list.      *)
NoLostWakeup ==
  \A p \in Proc :
    /\ asleep[p] \in Slot => inode[asleep[p]].lock /\ inode[asleep[p]].want
    /\ asleep[p] = SILOCK => super.lock

(* On the disk, a directory entry never names a free inode.                *)
EntryAllocated == \A n \in Name : dir[n] # 0 => dinode[dir[n]].mode # "none"

(* When no system call is under way: the link count of every file is the   *)
(* number of its entries, a file with neither entries nor users is free on *)
(* the disk, and the disk has every inode that is not marked changed.      *)
Links(i) == Cardinality({n \in Name : dir[n] = i})
FilesConsistent ==
  (\A p \in Proc : pc[p] = "idle") =>
    \A i \in Ino \ {ROOTINO} :
      /\ \A s \in Holding(i) :
           /\ inode[s].nlink = Links(i)
           /\ ~inode[s].dirty => dinode[i] = [mode |-> inode[s].mode, nlink |-> inode[s].nlink]
      /\ Holding(i) = {} => dinode[i].nlink = Links(i) /\ (dinode[i].mode = "none" <=> Links(i) = 0)

(* Freed on the disk only if no directory entry is left.                   *)
FreedUnlinked ==
  [][\A i \in Ino : dinode[i].mode # "none" /\ dinode'[i].mode = "none" => Links(i) = 0]_vars

(* Every system call returns.                                              *)
CallsEnd == \A p \in Proc : pc[p] # "idle" ~> pc[p] = "idle"
=============================================================================
