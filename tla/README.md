# A verification of UNIX System III for the VAX

The repository holds the sources of UNIX System III: the kernel for the VAX and for the PDP-11
(`usr/src/uts`), some three hundred commands (`usr/src/cmd`), the libraries (`usr/src/lib`), the
stand-alone programs (`usr/src/stand`) and the games. This directory holds TLA+ models of parts of
the VAX kernel (`usr/src/uts/vax`) and of the packet driver of uucp, their TLC configurations, and
proofs about them that the TLA+ proof system checks. Paths below are relative to `usr/src/uts/vax` unless they start with `usr/`.

`PROJECT.json` lists the components, the runs, the source lines of every definition, the hazards and
the theorems.

## How the kernel runs

One processor. A process that is inside the kernel keeps it until it calls `sleep()` (`os/slp.c`):
the kernel is not preemptive, so between two sleeps a process is interleaved only with interrupts,
and `spl6()` ... `spl0()` keeps those away too. A process sleeps on an address, the *channel*;
`wakeup()` makes all sleepers of a channel runnable, and each of them tests again what it waited
for. Everything below follows from this: shared state is consistent at every sleep, and whatever was
read before a sleep, or at spl0 before an interrupt, may be stale after it.

## Inventory

| Component | Source | State | Operations | What makes it hard |
|---|---|---|---|---|
| Block buffer cache | `io/bio.c`, `head/sys/buf.h` | buffers with flags, hash chains, available list with its count, B_WANTED flags | getblk, geteblk, bread, breada, bwrite, bdwrite, bawrite, brelse, iowait, iodone, bflush, binval | interrupts between a test and its use; rescans after sleeps; delayed writes; buffers released behind the writer's back; read-ahead that holds one buffer and waits for another |
| Raw and swap I/O | `io/bio.c` (swap, physio, physck) | the headers swbuf1, swbuf2 and one per raw device | swap, physio | two headers shared by all processes; B_WANTED handed over by hand |
| Disk drivers | `io/hp.c`, `io/ht.c` | per-unit queue sorted by cylinder, active flags | strategy, start, intr | the queue is re-ordered; retries |
| Sleep, wakeup, scheduling | `os/slp.c`, `os/sig.c` | run queue, p_stat, p_wchan, p_flag, runin, runout | sleep, wakeup, setrq, setrun, swtch, sched, swapin, swapout, psignal, issig | wakeups from interrupts; signals that end a sleep; processes swapped out |
| Callouts | `os/clock.c`, `head/sys/callo.h` | callout[] with relative times | timeout, clock, delay | the list is relative and is consumed by an interrupt; a timeout that comes before the sleep it is to end |
| Memory and swap maps | `os/malloc.c`, `head/sys/map.h` | sorted map of free extents; the page free list | malloc, mfree, meminit, memall, mfree of pages | merging at both ends; a map that is full |
| File-system free lists | `os/alloc.c` | superblock with 50 free blocks and 100 free inodes, s_flock, s_ilock | alloc, free, ialloc, ifree, update, getfs | locks held over disk reads; chained free list; bad blocks; a cache of inode numbers that goes stale |
| Inodes | `os/iget.c`, `os/subr.c` (bmap), `os/nami.c` | inode table: i_flag (ILOCK, IWANT, IUPD...), i_count | iget, iput, iupdat, itrunc, maknode, plock, prele, bmap, namei | lock and reference count across sleeps; a table entry reused while a caller sleeps |
| Read, write, pipes | `os/rdwri.c`, `os/pipe.c`, `os/fio.c` | file table, FIFO pointers, reader and writer counts, wait flags | readi, writei, pipe, openp, closep, openf, closef, falloc, ufalloc | readers and writers that wait for each other; counts that reach zero while someone sleeps |
| Processes | `os/sys1.c`, `os/sys4.c`, `os/sig.c`, `os/text.c` | process table, text table, signals | fork, exec, exit, wait, kill, ptrace, xalloc, xfree, xswap | zombies, orphans, shared text whose last user is swapped out |
| Characters | `io/clist.c`, `io/tty.c`, `io/tt0.c` and the terminal drivers | cfreelist of cblocks, queues | getc, putc, getcb, putcb, canon, ttwrite | interrupt-side and process-side of one queue; high and low water marks |
| VAX machine layer | `ml/*`, `os/machdep.c`, `os/trap.c`, `io/uba.c`, `io/mba.c` | page tables, UNIBUS maps | traps, copyin, context switch | assembly code; hardware |
| Other drivers | rest of `io/`, `pwb/`, `up/` | per device | open, close, read, write, intr | hardware |
| PDP-11 kernel | `usr/src/uts/pdp11` | as above | as above | the same algorithms for another machine |
| uucp packet driver | `usr/src/cmd/uucp/pk0.c`, `pk1.c` | `struct pack` at each end: states, messages to send, output and input windows, pool of buffers | pkopen, pkwrite, pkread, pkclose, pkgetpack | lost and damaged packets; 8 sequence numbers; alarms that race with answers; everything arrives inside whatever call is waiting |
| uucp above it | `usr/src/cmd/uucp` | lock files, work files | ulockf, cntrl, cico | lock files that outlive their owner; crashes |
| init, cron, errdemon, lpr | `usr/src/cmd` | small tables, spool files | daemons | children and signals |
| Compilers, assemblers, loaders, text tools, libraries, games | rest of `usr/src` | private to one process | sequential programs | no concurrency; data transformations |

What each must guarantee: the cache, that a buffer has one holder, a block one buffer, no delayed
write is lost and no sleeper is forgotten; the maps and free lists, that nothing is given out twice
and nothing is lost; the callouts, that each function is called at its tick and once; inodes, that a
lock has one holder and an entry in use is not reused; pipes, that bytes arrive once and in order and
that nobody waits for a peer that is gone; processes, that every exit is reported once to one parent.

## Plan

Done, in this order:

1. `BufferCache`, abstract specification `BlockStore`, `BufferCacheProof`.
2. `InodeTable`, `InodeTableProof`, `InodeControlProof` and `InodeCallsProof`: the in-core inodes and
   the calls that lock them.
3. `Pipe`, abstract specification `PipeQueue`, `PipeProof`: FIFOs.
4. `FreeBlocks`, abstract specification `BlockPool`, `FreeBlocksProof` and `FreeBlocksPool`: the
   chained free list.
5. `PacketDriver`, abstract specification `PacketStream`, `PacketDriverProof`: the packet protocol of uucp.

Left, in this order:

6. An abstract file system over `InodeTable`: names and files that live while they are named.
7. `Callout`: the relative list of clock.c against absolute times, and `delay()`.
8. `ResourceMap`: malloc and mfree over a map of extents, against a set of free units; `PageAlloc`.
9. `SleepWakeup` and `Scheduler`: sleep, wakeup, psignal, swapping; `RawIO` over it.
10. `Text` and `ProcLife`: fork, exec, exit, wait. The lock files of uucp.

The hazards of the parts that are left, which no property covers yet:

- `timeout` looks at the end of its table only at the place where it inserts: an earlier insertion into
  a full table moves the last entry over the end (`os/clock.c:165`); `delay` asks for a wakeup and
  then sleeps, and a tick in between wakes nobody (`os/clock.c:190`).
- `mfree` adds an entry to a map whose size it does not know (`os/malloc.c:67`).
- `swap` picks one of two headers and then waits for that one only (`io/bio.c:403`).
- `sched` sleeps on `runout` only if it saw no process to swap in; `setrun` must wake it exactly when
  one that is swapped out becomes runnable (`os/slp.c:186`).
- `xfree` drops the lock of a text and then decides from `x_count` and `ILOCK` whether to give the
  inode back, while `xalloc` may be between two sleeps (`os/text.c:139`).
- `bmap` holds the buffer of an indirect block while `alloc` calls getblk: with more processes than
  buffers all buffers can be held by processes that wait for one (`os/subr.c:92`).
- A failed asynchronous write loses its data, and the process that wrote it is gone (`io/bio.c:177`);
  no code promises anything about it.
- A lock file of uucp is taken over when it is old; two programs can both decide so
  (`usr/src/cmd/uucp/ulockf.c:47`).

Where the code does not do what a comment says of it, met while modelling and left out of what the
runs ask:

- After the last close of a block device (`bflush`, then `binval`: `os/fio.c:97-99`) a block can be
  read again while its last write still waits in the driver's queue, because `bflush` starts the
  writes and does not wait, although its comment says "make sure all write-behind blocks ... are
  flushed out" (`io/bio.c:459`).
- When a read-ahead fails between getblk's scan (`io/bio.c:247`) and its spl6, getblk takes the
  released buffer as a hit, and bread returns it with neither a transfer nor an error, although it
  promises to "read in (if necessary) the block" (`io/bio.c:42`).
- namei gives a directory up before it takes the file, so a process can hold an inode that was freed
  meanwhile; ialloc looks at the mode of an inode and not at its references, and returns it as a new
  one. pipe then stores `i_flag` (`os/pipe.c:44`), the IWANT of whoever waits for it is lost, and that
  process sleeps for ever; it also stores 2 in `i_count` (`os/pipe.c:42`), which forgets the reference
  of that process, so `RefCount` is checked with names and with pipes, each without the other. The
  lost IWANT needs no names: ifree of a larger number into an empty list leaves `s_inode[0]` on the list
  (`os/alloc.c:234`) though ialloc has given that number out, and when it is freed too it is there twice;
  of two calls of pipe that take it, one sleeps in iget for the inode the other has.
- iput after a failed read trusts the fields of the previous file of the entry: if that one was
  deleted, the file whose inode could not be read is freed although it has names (`os/iget.c:92`).

## The buffer cache

`BufferCache.tla` is `io/bio.c` without swap and physio. `flags`, `blk` and `data` are the fields of
each header; a hash chain is the set of buffers with the block (`Match`), since the order of a chain
is never observable while a block is in one valid buffer (`UniqueBlock`); `freelist`, `freecount` and
`flWanted` are `bfreelist`; `ioq` is the set of transfers the driver has; `disk` what is on the disk.
`pc`, `cur`, `prim` and `u` say where each process is in bio.c and with which buffers.

An action is a stretch of code that runs at spl6 or that an interrupt cannot split observably. The
places where an interrupt can be told are steps of their own: between the scan of the hash chain and
spl6 (`GetblkFound`, then `GetblkHit` or `GetblkBusy`), and between `d_strategy` and the last line of
an asynchronous `bwrite` (`AgeMark`, `AsyncError`). `Running(p)` says that no other process is inside
the kernel. `DiskInterrupt` may end any transfer at any time, since `hpstrategy` sorts its queue, with
an error if `DiskErrors` allows it. Callers outside bio.c are free to call anything when they have no
buffer, and to give a buffer back in any way (`Brelse`, `Bwrite`, `Bawrite`, `Bdwrite`); one call at a
time, so callers that hold two buffers (bmap) are not modelled. `Umount` is the last close of a block
device: bflush, binval; it is taken only when no one else uses the device.

`BlockStore.tla` is what the cache promises: a block has one value, one process at a time, and bread
returns the value. `Coherent` maps the cache to it.

| Run | Question | Bounds |
|---|---|---|
| `cache_errors` | types and the structural invariants, with every routine, failing transfers, last closes and a tape | 2 processes, 2 buffers, 2 blocks on 2 devices |
| `cache_readahead` | `SleepersWake`: nobody sleeps for ever | breada of crossing pairs, delayed writes |
| `cache_coherent` | `Coherent` with read-ahead, eviction and every kind of write, transfers that succeed | 2 processes, 2 buffers, 2 values, a file of 3 blocks of which 2 are read and written and the third only read ahead |

All hold.

Two or three blocks in two buffers, which geteblk takes too, force eviction and reuse, and two processes and the interrupt are the
actors of every race in the source; the thresholds 4 (`bawrite`) and 1 (`breada`) are the constants
`AsyncFree` and `RaFree`, set to 0 or 1 so that both sides of each test are reached with two buffers.

Fairness (`FairSpec`): every transfer ends (the drivers retry a bounded number of times and then
report an error); a runnable process is run in the end, and a caller ends its use of a buffer. The
last two are strong fairness, because a process that waits for the processor is not continuously
enabled while others run in the kernel; `swtch` takes the process with the best priority and the
clock lets the priority of a waiting process overtake that of one that runs.

### What is proved

`BufferCacheProof.tla` proves, for any number of processes, buffers, blocks and devices, with
failing transfers and last closes, `TypeOK`, `FreeIffNotBusy`, `OneHolder`, `UniqueBlock` and
`NoLostWakeup`. None of them is inductive alone. `IInv` adds: at most one process is in the kernel;
the registers name what the code expects (`CurOK`, `CallOK`, `PrimOK`); no two processes own one
buffer and what a process owns is busy and not asynchronous (`Exclusive`, `OwnedOK`); what is in the
driver is busy and not done, a delayed write has a block, contents and B_DONE (`BusyOK`); what
getblk returned is in no transfer (`HeldIdle`); and what iowait waits for is under way (`WaitedFor`).
One lemma per action; the steps that share an effect (take a buffer from the list, start a transfer,
flush, write, release) share the lemma for that effect. The assumptions are those on the constants.

`CacheCoherent` proves that the cache implements `BlockStore` (`Coherent`) when no transfer fails and
no device is closed (`Quiet`; a failed write loses what was written, and binval gives up buffers whose
write is under way, so neither can be left out). Its invariant `CInv` stands on `IInv`: no buffer is
stale or in error; a buffer with B_DONE and no delayed write is what is on the disk (`Agree`); and
whoever has a buffer that getblk found for a block still has that block (`Placed`). A buffer speaks
for its block when it is done or being written, and what a block is by its buffer (`Says`) changes
only in bwrite, bdwrite and bawrite; with one buffer for each block (`UniqueBlock`) that is the value
of the store, whichever buffer goes. Every step takes, reads, writes or gives up a block in the store,
or is not seen there: eviction, the transfers and their order, read-ahead, sleeping and waking.

Only model-checked: `SleepersWake`, because liveness is out of the prover's reach.

Not modelled: the hash function, b_resid and b_error (the error is a flag), the counters of sysinfo,
the panics on a bad device number.

## The inode table

`InodeTable.tla` is one file system seen from `os/iget.c`: the table `inode[]` with locks, wants and
reference counts, the inodes on the disk (`dinode`, as the buffer cache shows them), the entries of
the root directory (`dir`), the list of free inode numbers of the superblock (`super`), and the
system calls that use them: open, creat, close (`os/sys2.c`, `os/fio.c`), link, unlink (`sys2.c`,
`sys4.c`), pipe (`os/pipe.c`), read and write as holders of the lock, and sync (`update` in
`os/alloc.c`). A call is a sequence of labels; `ret` is the stack of return labels, since iget, iput,
iupdat, ialloc and namei are called from several places, and `u` holds the locals (`cur` is the inode
a routine returns or works on, `dp` the directory `u.u_pdir`, `ip` the caller's own inode, `err`
u.u_error). `At(p, l)` says that p is at l and that no other process is inside the kernel. A step runs
from one label to the next; a label of `Diskwait` stands for a sleep on a block, where others may
run. A step may be as short as a call, because nothing interleaves between two labels unless the
first one is a wait: interrupts do not touch inodes.

What is left to chance: `Deny` for permissions and full file tables, `Link1` for MAXLINK, an error in
any read of a block of the i-list (`Bread`, at most `MaxFaults`). What is left out: directories other
than the root, mounted and read-only file systems, the blocks of a file, shared texts, the offsets
and data of reads and writes, and the copy of the superblock.

| Run | Question | Bounds |
|---|---|---|
| `inode_calls` | types, `UniqueInode`, `OneLocker`, `RefCount`, `NoLostWakeup`, `EntryAllocated`, `FilesConsistent`, `FreedUnlinked` | 2 processes, 3 entries, 3 inodes in 2 blocks, 1 name; open, creat, close, unlink, sync |
| `inode_errors` | `RefCount`, `NoLostWakeup` when reads of the i-list fail | 2 inodes, 2 names; the same calls; 2 faults |
| `inode_pipe` | `RefCount` with pipes | 3 inodes, both ends of a pipe per process |
| `inode_return` | `RefCount` with link, and `CallsEnd`: every call returns | 2 entries for 3 inodes, 1 name; creat, link, unlink |

All hold. The runs leave out exactly the calls and faults that break a property (the last two of the
divergences listed above): `FreedUnlinked` is not asked when reads fail, nor `NoLostWakeup` of pipe
together with names. link drops the lock for its second namei, as its own comment admits
(`os/sys2.c:260-262`): it can then enter the number of a freed inode, and its last iput takes a lock
from another process. So `OneLocker`, `EntryAllocated` and `FilesConsistent` are not asked of link.

Two processes are enough for every race in the code, in which one sleeps while another does one or
several whole calls; the third actor, sync, is a call of either. Three inodes (the root and two
files) over two blocks make ialloc's search cross a block and let a file be deleted and its entry and
number be used again; one name is enough for that, since a file that is unlinked while it is open lives on
beside the next one of its name. `NICINOD` is 2 instead of 100, so that the list overflows and runs out.

Fairness (`FairSpec`): a process that can run runs in the end, and one that is woken for a lock gets it
in the end (`Advance`: it takes infinitely often a step that is not another sleep, if it could). The
code: a process woken at PINOD has a better priority than any in user mode, and a system call ends
with `qswtch` when such a process waits (`os/trap.c:103-112`); within one call a process takes and
gives up a lock a bounded number of times.

### What is proved

`InodeTableProof.tla` proves `UniqueInode` for any number of processes, entries, inodes and names, any
mix of calls and any failing reads. The inductive invariant `Inv` is `UniqueInode` with the shape of
the table (`Table`: an entry for every slot, with the fields of the structure, whatever they hold; it
does not need the types of the fields, and so nothing about the control). Every step but one leaves
the number of an entry alone or makes it 0 (`Keeps`, with one lemma for the ways the code changes
fields); `IgetRead` is the exception, and there the search for the number and the claim of the entry
are one step, because the code returns to `loop` after every sleep.

`InodeCallsProof.tla` proves `TypeOK` and `RefCount` for every set of calls that has pipe or the calls
by name but not both (`PipesApart`), `OneLocker` for those of them without link, and `NoLostWakeup` for
every set without pipe, again for any number of processes, entries, inodes, names and failing reads.
The premises are those of the code: pipe stores `i_count` and `i_flag` of an inode that others may refer
to or wait for, and link gives up a lock it does not have (see the divergences above). TLC finds
`OneLocker` violated with link and two names, `RefCount` with pipe and creat, and `NoLostWakeup` with
pipe alone; `TypeOK` has the premise because it is proved with `RefCount`.

None of the four is inductive, because what a process holds depends on where it is and on who called
the routine it is in. `InodeControlProof.tla` states that as `Controlled`: `Config(l, r, f)` lists, for
each label l, the stacks r of callers that can be there and what the registers f then hold. From that,
`Weight` is the number of references of the registers to an entry and `Holds` says which locks the
process counts on. A lemma for every step within a call says that it leads from one `Config` to
another with the same references and locks (`Shift`).

The inductive invariant is `Facts`: the types, `Controlled`, `RefCount`, `NoLostWakeup` (with pipe, its
part about the free list: `Awaits`), and

- `Numbered` and `LockUsed`: an entry in use has an inode, and a locked one is in use, so that iget
  never finds a locked entry to reuse;
- `LastKept`: from the test in iput that i_count is 1 to the end of iput, over the waits for itrunc
  and iupdat, the count stays 1 and the lock is held. Without it, another process could take the entry
  between the test and the reset;
- `CopyKept`: close, read and write use the reference of an open file while they wait in plock;
- `RootKept`: the first entry is the root, with the reference of rootdir.

`RefCount` equates i_count with a cardinality over all processes: the lemmas on `Total` show that a
step of p changes it by the change of p's own references, for any finite `Proc`. For `OneLocker` the
invariant is `Locked` beside `Facts`: every entry a register refers to is locked, by one process, and
every lock has its process. `Goes(p)` is what the lemma of each action shows: the count of every entry
changes as p's references do, p leaves a locked entry alone that it has no reference to, and p
keeps a lock, takes a free one or gives up its own. `EffectKeeps` and `LockKeeps` derive the invariant from
it once, for all actions. `Facts` and `Locked` have been checked by TLC with the constants of
`inode_calls`, `inode_errors` and `inode_return`.

With pipe, `Facts` needs `Fresh`: an inode that has no mode, and one that ialloc has fetched and pipe has
not yet made a FIFO, has one reference and is locked; and an open file has a mode. That is why pipe may
store 2 in i_count there: the reference it overwrites is its own, and whoever was given the same number
still waits in iget and has none. Without names the only way to an inode is ialloc, so iget finds one
that is in use only with a mode, and ialloc gives such a one back. `NextFresh` shows it of every step,
and TLC has checked `Fresh`, `RefCount` and `OneLocker` with pipe, close, read and write, and sync.

The assumptions are those on the constants; `Proc` is finite because the counts are.

`InodeTableProof.tla` also proves `EntryAllocated`, `FilesConsistent` and `FreedUnlinked`: the order in
which the code writes inodes and entries is right. Their premises are those under which the runs
check them: no call is pipe or link, and no read of the i-list fails (`MaxFaults = 0`); link and a
failed iread break them (see the divergences above). The inductive invariant `Filed` stands on `Facts`,
`Locked` and `UniqueInode`:

- a file that is in the table and has been read has the link count its name gives it, or the one that
  maknode has put there before wdir makes the entry (`Kept`), and the disk has it unless it is marked
  changed; a file that is only on the disk has its link count there and is free exactly when it has no
  name (`Stored`). A file that iread is about to read counts as one on the disk;
- `Relies` says what a call that waited may still count on. From namei to the entry the directory is
  locked: what creat did not find is still not there, what unlink found still is (`Searched`); from
  maknode to wdir the new file has no name, and its inode is on the disk before its entry is (`Made`);
  from the test of i_nlink in iput to the free inode on the disk the file has no name, and it is written
  as free (`Ended`); and once u.u_error is set, a call does not go on to write (`Rooted`, `Failed`);
- no file has two names (`OneName`; only link would give it another), the root has none.

`FiledStep` reduces a step of p to what p itself holds (`Shows`): another process has what it relies on
locked, so nothing that p changes is among it (`HeldElse`, `OthersRely`). Steps that leave files alone
need only show where they lead (`Calm`, `Leads`). `FreedUnlinked` follows from `EntryAllocated` after
the step, because no step writes both an inode and an entry (`DiskOrEntry`). TLC has
checked `Filed` with two names, four entries and three inodes.

Only model-checked: `CallsEnd`, which needs fairness.

## FIFOs

`Pipe.tla` is one FIFO: openp and closep (`os/pipe.c`), the half-open of copen and the last close of
closef, and the FIFO branches of readi and writei (`os/rdwri.c`). `ip` is the inode with its size,
pointers, counts and flags (`i_frptr` ... `i_fflag`, ILOCK and IWANT); `faddr` the blocks it has;
`cache` and `disk` the bytes of each block in its buffer, with B_DELWRI, and on the disk; `asleep` the
channel each process sleeps on; `u` what a call has done so far (`usave` is the rest of a long write,
`moved` what this part of it has put in). `faults` counts what failed, and `broken` says that bytes
were lost with it since the last close. A byte is the number of its write, modulo twice the size of the
FIFO, so that the bytes of one round differ from those of the next.

An action is what a process does between two points at which it may sleep; `ReadBlock` and `WriteBlock`
are one turn of the loops, which bread, getblk and bmap may break. readi clears B_DELWRI of a block it
has read to its end, and writei takes a block that nothing of is left in without reading it: what is
on the disk, or in a buffer taken for it, is then `Junk`, and `Evict` may come at any time, so a read of
`Junk` is what a wrong test there would show. A process may get a signal in any sleep at PPIPE
(`Interrupt`). Which of those who wait for the lock gets it is left to chance.

Three things fail. A copy from or to the user may ("copy", in `ReadBlock` and `WriteBlock`); alloc may
find no block ("space", `WriteNoSpace`), which is also what it says when it cannot read its chain; and a
transfer of a block may ("disk"), wherever one is made, which is when the block is not in the cache:

- `ReadFails`: bread of readi sets `u_error`, which ends the loop, and brelse makes the buffer stale.
  A driver that leaves `b_resid` makes `n` zero (`os/rdwri.c:93`), and the bytes stay in the FIFO. One
  that does not lets readi copy out what is in the buffer and take `n` from `i_size`.
- `WriteFails`: writei does not look at `u_error` after bread (`os/rdwri.c:199`). It copies into the
  buffer, adds `n` to `i_size` and sets `i_fwptr`, and then the buffer is made stale: the FIFO has `n`
  bytes that nobody wrote.
- `EvictFails`: the delayed write of a buffer fails; the buffer is stale and no call is told.

Left out: two files that share one table entry (dup, fork), SIGPIPE, and a limit on file sizes
(`u_limit`) below that of a FIFO, with which bmap refuses a write.

`PipeQueue.tla` is what a FIFO promises: a bounded queue of bytes, a write of no more than PIPSIZ in
one piece, bytes in order and once. `QueuePromise` maps the FIFO to it: the queue is what lies between
the pointers in whatever buffer or block has it, without the part that a write under way has put there.

| Run | Question | Bounds |
|---|---|---|
| `pipe_data` | types, `QueuePromise` | a reader and a writer, 2 blocks of 2 bytes, counts 3 and 5 (more than the FIFO holds), one fault: a failed copy, a failed transfer or a full disk |
| `pipe_calls` | `EndsCounted`, `LockHeld`, `NoLostWakeup`, `SleepersServed` | 3 processes that open for reading, for writing, for both and with O_NDELAY, 1 block of 2 bytes, counts 1 and 3, signals, no faults |

Both hold. Two blocks are what the tests of lines 100 and 196 of rdwri.c distinguish (the block at
hand and the rest); counts of 3 and 5 bytes make every write cross a block and one of them come in
parts. After a failed copy, or a failed transfer that loses bytes, the size no longer says what is
there (`os/rdwri.c:97`, `:209`): nothing is promised of the bytes until the FIFO is closed (`spoiled`),
while the lock, the counts and the sizes must stay right. A full disk, and a bread of readi that fails
with `b_resid` set, lose nothing, and the queue must stay in order after them. One fault in a behaviour
of `pipe_data` is enough to reach each of them at every point; two in all (`MaxFaults`) are more states than
a run of minutes can visit, and the proofs are for any number. `pipe_calls` has no faults for the same
reason: with them, the counts of the ends, the lock and the wait flags rest on the proofs, and
`SleepersServed` is not checked. A system in which nobody calls anything may stop, so deadlock is not
checked.

Fairness (`FairSpec`): a process that is in the kernel and does not sleep runs. It is weak fairness of
`Kernel(p)`, written with its enabling condition, because nothing that others do takes it away: a
process that finds the lock taken sleeps for it.

### What is proved

`PipeProof.tla` proves, for any number of processes, blocks, bytes of a block, counts and faults,
`TypeOK`, `EndsCounted`, `LockHeld` and `NoLostWakeup`. The inductive invariant `IInv` adds to them:
what is left of a write fits into the FIFO (`Fits`, without which the size is not bounded), where a
process of each label may sleep (`Places`), that there is one process in readi or writei exactly when
the inode is locked, by name instead of by cardinality (`Locked`, `Wanted`), and what each sleeper
waits for with its flag (`Waiting`). `EndsCounted` is about cardinalities of sets that one action
changes by one process: a few lemmas about them come first, then one lemma per group of actions that
leave the same parts alone.

`QueueCorrect` proves `QueuePromise`: every step of the FIFO is a step of `PipeQueue` or a stutter. Its
invariant `QInv` says where the bytes are. While none were lost (`broken`), there is an offset `f` of
the FIFO, the front, at which the reader's block and pointer stand, and the writer's stand `i_size`
bytes round from it (`Begins`, `Ends`); every byte between is in its buffer with its number, or in the
block on the disk when the buffer may go (`Held`, `Laid`). `Asks` relates what is left of a write to
what was asked, so that a write that can fit enters in one piece. An offset `o` is `Rel(f, o)` bytes
behind the front; the sums modulo PIPSIZ that the proof needs are lemmas about `Rel` and `After`, and
those about the numbers of the bytes, which wrap at `Rounds`, lemmas about `Number` and `Line`. `Takes`
and `Puts` are the turns of the loops of readi and writei; that a turn keeps `Laid` is where the two
tests of lines 100 and 196 of rdwri.c, which decide whether a block may be thrown away or taken unread,
count. The turns that read or write the last byte of a block, of the FIFO and of the request are
separate cases. Of the transfers that fail, those that lose bytes spoil the queue, and a read broken off
with `b_resid` set leaves block, pointer and numbers as they were (`ReadFailsKeeps`).

Only model-checked: `SleepersServed`, which is liveness.

## Free blocks

`FreeBlocks.tla` is alloc, free and the part of update that writes the superblock (`os/alloc.c`), as
bmap (`os/subr.c`) and itrunc (`os/iget.c`) call them for the direct blocks of files. `fp` is the
superblock in core, `super` the list in the one on the disk; `fblk` the list in each block that free
has written, as the cache shows it; `addr` the blocks of each file. The chain is a list of lists, and
`Current` the one it begins with: while a process moves the list into a block, or reads the next one,
with s_flock set, it is the one in that block. Places from s_nfree on, which the code leaves as they
are and never reads, are kept empty. Init is what mkfs makes (`usr/src/cmd/mkfs.c`, `bfree`), in closed form: a
chain block at every multiple of NICFREE. `MCFreeBlocks` has `bfree` as the code has it, one block
after the other, and TLC compares the two (`MadeIsMkfs`); the closed form is what a proof can use.

`BlockPool.tla` is a pool of blocks: taken once, put back, refused only when it is empty, lost only
when a read fails. `PoolPromise` maps the list to it.

| Run | Question | Bounds |
|---|---|---|
| `free_blocks` | types, `NoBlockTwice`, `OnePlace`, `SleeperWaits`, `Counted`, `SavedWhenClean`, `PoolPromise` | 2 processes, 2 files of up to 3 blocks, 4 blocks, lists of 2, 1 failing read |

All hold. Four blocks in lists of two make a chain of three lists, one of which every call can empty or
fill; two processes are those that meet at s_flock, update being the third actor. What the model
shows beside: `s_tfree` may fall short of the free blocks for good (a call that holds the last block
sleeps in getblk while another one runs out and clears it, `os/alloc.c:59`, `:65`), so `Counted` bounds
it from above only; and update tests `s_flock` before getblk and copies after it, so it can write a
list that is half moved: `SavedWhenClean` holds because whoever moves it sets `s_fmod` afterwards.

Left out: block numbers out of range (badblock), indirect blocks, a failing write of a chain block (free
does not look at it), and more than one file system.

### What is proved

All seven properties of the run are proved, for any number of processes, files and blocks and lists of
any length above one: `FreeBlocksProof.tla` has `TypeOK` (the list never runs over its end),
`NoBlockTwice` and `SleeperWaits`, and the inductive invariant `IInv`; `FreeBlocksPool.tla` has
`OnePlace`, `Counted`, `SavedWhenClean` and `PoolPromise`, which are about what the list contains.

That alloc gives out nothing twice is not inductive alone: it needs the free list. `FreeOf` walks the
chain recursively; the inductive invariant says instead that there is a set S of chain blocks (`Chain`)
such that every list goes on in a block of S (`Linked`), every block of S is at place 0 of a list
(`Rooted`), no block is in two places (`Distinct`), none of them is held (`Apart`), the list in a chain
block is full (`Full`: otherwise alloc would take a list with nothing in it for the end of the device),
block 0 is at place 0 only (`NoneFirst`), and there is an order of S in which each list names the next
and the last one names none (`Ordered`). Each operation on the list is a lemma about `Chain` without
processes: taking an entry (`PopEntry`), taking the last one and going on with the next list (`PopLast`),
putting one back (`PushEntry`), moving the list into the block freed (`PushLast`). The rest of the
invariant says who may be at work on the list (`Locked`) and what such a call has in its hands
(`Hands`), which is why alloc may look at the list again after it slept.

`FreeOf` follows the chain for `Depth` steps, as the recursive function `Lists`. Two functions that
follow it are equal (`FollowsOnce`, by the least place where they differ), the i-th list of the order is
the i-th one they meet (`ListsAre`), and full lists without a block twice leave room for no more than
`Depth` of them (`DepthBound`, which counts S and its entries); so `FreeOf` has exactly the entries of
the lists of S, each at one place (`PoolIs`). From that follows what each operation does to the pool
(`PoolPop`, `PoolPopLast`, `PoolPut`, `PoolCons`, `PoolEmpty`, `PoolMade`), and then that every step of
the kernel does one of five things to it (`NextDoes`: `Took`, `Gave`, `Denied`, `Lost`, `Kept`) or, for
update, nothing (`Still`). `OnePlace`, `Counted` and `PoolPromise` need no more than `IInv` and
`NextDoes`: nothing is lost because taking and giving back move one block between the pool and those
held; `s_tfree` is right because it goes down only with the block already gone from the list, and to 0
only with the list. `SavedWhenClean` has an invariant of its own, `Clean`, which holds also while
calls wait for s_flock: the step in which alloc finds no space changes the list and does not set
s_fmod, but then the list had no block before it either.

The proofs assume only that NICFREE is above one (it is 50), without which free could never put a block
on a list, and that there are finitely many processes, which the counts of `Counted` need.

## The packet driver of uucp

`PacketDriver.tla` is `usr/src/cmd/uucp/pk0.c` and `pk1.c` as user processes run them, at both ends of a
line. `pk[e]` is `struct pack`: `state`, `msg` and `rmsg` are sets of the bits of p_state, p_msg and
p_rmsg; `os`, `ob` and `is` the buffers of the two windows, `pool` the length of p_ipool; `connodata`
is the counter Connodata, and `out` what pkoutput sends within a step. `prog[e]` says where the
program is. The functions of the driver are operators from one struct to the next (`pkcntl`, `pkdata`,
`pkaccept`, `pksack`, `pkoutput`); a packet is handled inside pkgetpack, in whatever call waits
(`Receive`). A packet carries the number of its pkwrite. pkaccept's loop over the input buffers is
given by its result: which buffers stay, which go back to the pool and what is asked for.

The line loses packets and damages headers and data, or cuts data off; it does not reorder. The alarm
(`Timeout`) goes off on an empty line only; `MaxLine` bounds what retransmission puts on a line.
With `Prompt` it does not go off while the other end is about to send.

`PacketStream.tla` is a stream of packets each way, in order, once, with the writer at most a window
ahead of what pkread has returned.

| Run | Question | Bounds |
|---|---|---|
| `packet_faults` | types, `OutputWindow`, `InputBuffers`, `PendingOutsideWindow`, `StreamPromise`, and `Finishes`: each end stops | windows of 3 over 8 numbers, as in the code; 3 faults of any kind |
| `packet_delivers` | `Delivers`: all that is written is read | the same, 4 faults that only damage data, prompt alarms |

Both hold. The constants are those of the code (MOD 8, WINDOWS 3, GETRIES 5, CONNODATA 10, PKMAXSTMSG
40); three faults are as many as an end has input buffers, one more than it takes for each way of
losing one to combine with a retransmission, and fewer than GETRIES, so that `Delivers` is not about
lines that are dead.

Fairness (`FairSpec`): each end is a process that runs, and its alarm goes off; weak fairness of
`Program(e)`, with its enabling condition written out.

What the model shows beside: the loss of one INITA after the other one's has arrived keeps pkopen from
ever succeeding, because the repeated INITB goes out first (`pkoutput` sends the lowest bit, and the
alarm adds INITB again); a lost packet of data comes again only if the writer's alarm beats the
reader's RR; after a repeated INITC the two ends answer INITB and INITC to each other until Connodata
ends it; a buffer is lost when data does not follow its header (`pk1.c:193`), and the fourth packet
then uses the contents of address 0 as a buffer (`pk1.c:183-188`), where the model stops (`wild`). So
`Delivers` is asked of damage that the checksum shows, and `InputBuffers` counts the buffers lost.
The pool also runs out without a fault: while pkwrite waits for its window, pkdata fills buffers that
only pkaccept empties, and pkwrite does not call it; two ends that write to each other at the same time,
or a writer whose alarms send the same packets again, get there. `InputBuffers` therefore speaks of the
other waits (`Writing`). The proof found this: with the calls of `packet_faults`, where one end writes
and the other reads, the stronger claim holds.

### What is proved

`PacketDriverProof.tla` proves every safety property of the module, for any number MOD of sequence
numbers, any window with 2 * WINDOWS <= MOD (8 and 3 in the code), any calls (`Script`) of each end, any
faults and any limits: `TypeOK`, `OutputWindow`, `InputBuffers`, `PendingOutsideWindow`, and that the
driver implements the stream, `Spec => StreamPromise`. It assumes only `WindowAssumption`,
`BoundAssumption` and `ScriptAssumption`; neither of the bounds MaxLine and MaxFaults is used but as a
number.

None of these is inductive. A number modulo 8 says nothing alone; what makes the protocol right is which
packet of the stream each number stands for. The inductive invariant `Inv` says so with the counts
themselves: with w the packets one end wrote and r those the other has read, `Dir` says of a direction
that

- `OutOK`: the sender holds exactly the packets w - p_xcount + 1 to w, each at its number modulo MOD,
  with p_ps, p_rpr and p_pscopy at the ends of that run, and all before it are read;
- `InOK`: p_pr is r modulo MOD, what is accepted is r + 1 to r + p_rcount, what is filed and undamaged
  is a packet that was written and is newer than r - WINDOWS, and nothing filed is in the window;
- `DataOK`: every packet of data on the line is one that was written and sent, newer than r - WINDOWS,
  and no packet before it on the line, and none filed, is a window or more ahead of it;
- `AckOK`: every acknowledgement on the line acknowledges no more than was read, and they do not go back.

The last two parts are what a test does not see: because the line keeps its order, an old packet is never
so old that its number is taken for a new one (two numbers less than MOD apart differ, `ModApart`), and
an old acknowledgement is never behind p_ps, where pksack would walk the wrong way around. `Both` is the
two directions with the types; each function of the driver is a lemma about it: pkoutput (`OutputIs`,
`BothOutput`), pksack (`SackIs`, `BothSack`), pkdata (`FreeBelow`, `FileDir`), pkaccept (`AcceptIs`,
`AcceptDir`), pkread's release of buffers (`ReadDir`), pkcntl (`CntlBoth`) and what pkgetpack makes of a
packet (`HandleBoth`). `EndOK` is the rest: the pool and the slots together lack at most as many
buffers as there were faults, and what an end has read is 1, 2, 3 and so on. Every action then is one
lemma (`PkopenInv` to `LoseInv`), and the step of the stream it makes another (`WriteStep`, `ReadStep`).

Only model-checked: `Finishes` and `Delivers`, which need fairness.

## Not modelled

Components without a module are listed with the reason in `PROJECT.json`. In short: compilers,
assemblers, loaders, text tools, libraries and games are sequential programs over private data, without
a small state or anything concurrent; they are nearly all of the lines of the repository. Drivers and
the machine layer are decided by hardware that is not in the repository. The PDP-11 kernel is the same
program for another machine. Processes, scheduling, callouts, memory maps and terminals are the rest
of the plan.
