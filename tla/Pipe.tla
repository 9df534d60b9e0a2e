-------------------------------- MODULE Pipe --------------------------------
(***************************************************************************)
(* One FIFO: openp and closep (os/pipe.c) with the half-open of copen and  *)
(* the last close of closef (os/sys2.c, os/fio.c), and the FIFO branches   *)
(* of readi and writei (os/rdwri.c), down to the buffers of its blocks.    *)
(* What pipe(2) makes is the same FIFO, open at both ends from the start.  *)
(*                                                                         *)
(* The kernel is not preemptive: an action is what a process does between  *)
(* two points at which it may sleep: for the lock, for a reader, a writer, *)
(* bytes or room, or in bmap, bread and getblk, once per block moved.      *)
(***************************************************************************)
EXTENDS Integers, Sequences, FiniteSets, FiniteSetsExt

CONSTANTS
  Proc,       \* processes
  NFADDR,     \* blocks of a FIFO
  BSIZE,      \* bytes of a block
  Modes,      \* how each process may open it: sets of [rd, wr, ndelay]
  Counts,     \* the byte counts of read and write
  Signalled,  \* processes that may get a signal
  FaultKinds, \* "copy": copyin or copyout fails; "space": alloc finds no block; "disk": a transfer fails
  MaxFaults,  \* bound: how many of these in all
  Junk        \* what nobody wrote

PIPSIZ == NFADDR * BSIZE
Blk == 0..NFADDR-1
(* Bytes are numbered as they are written, from 0 when the FIFO is empty:   *)
(* a byte is its number, twice round the FIFO.                             *)
Rounds == 2 * PIPSIZ
Byte == 0..(Rounds-1) \cup {Junk}
Mode == [rd : BOOLEAN, wr : BOOLEAN, ndelay : BOOLEAN]
NoMode == [rd |-> FALSE, wr |-> FALSE, ndelay |-> FALSE]

ASSUME SizeAssumption ==
  /\ NFADDR \in Nat \ {0} /\ BSIZE \in Nat \ {0} /\ MaxFaults \in Nat
  /\ Counts \subseteq Nat \ {0} /\ FaultKinds \subseteq {"copy", "space", "disk"}
ASSUME ProcAssumption ==
  /\ IsFiniteSet(Proc) /\ Signalled \subseteq Proc
  /\ Modes \in [Proc -> SUBSET {m \in Mode : m.rd \/ m.wr}]

VARIABLES
  ip,       \* the inode: size, frptr, fwptr, frcnt, fwcnt, fir and fiw (IFIR, IFIW), lock, want
  faddr,    \* the blocks it has (i_faddr)
  cache,    \* the buffer of each block: whether there is one, B_DELWRI, its bytes
  disk,     \* the bytes of each block on the disk
  serial,   \* the number of the next byte
  pc,       \* where each process is
  asleep,   \* what each process sleeps on: "no", "lock", "frcnt", "fwcnt"
  u,        \* of each process: mode, asked (the count of the call), count, usave, moved, offset
  faults,   \* what has failed, of each kind
  broken    \* a copy or a transfer has failed since the last close, and bytes with it

blocks == <<faddr, cache, disk, serial>>
vars == <<ip, faddr, cache, disk, serial, pc, asleep, u, faults, broken>>

PC == {"idle", "openr", "openw", "open", "rlock", "read", "wlock", "write", "wagain", "clock"}
Channel == {"no", "lock", "frcnt", "fwcnt"}
Inode == [size : 0..PIPSIZ, frptr : 0..PIPSIZ-1, fwptr : 0..PIPSIZ-1, frcnt : Int, fwcnt : Int,
          fir : BOOLEAN, fiw : BOOLEAN, lock : BOOLEAN, want : BOOLEAN]
Call == [mode : Mode, asked : Nat, count : Nat, usave : Nat, moved : 0..PIPSIZ, offset : 0..PIPSIZ-1]
Bytes == [0..BSIZE-1 -> Byte]
Buffer == [in : BOOLEAN, dirty : BOOLEAN, bytes : Bytes]
Closed == [size |-> 0, frptr |-> 0, fwptr |-> 0, frcnt |-> 0, fwcnt |-> 0,
           fir |-> FALSE, fiw |-> FALSE, lock |-> FALSE, want |-> FALSE]
NoCall == [mode |-> NoMode, asked |-> 0, count |-> 0, usave |-> 0, moved |-> 0, offset |-> 0]
Blank == [i \in 0..BSIZE-1 |-> Junk]
NoBuffer == [in |-> FALSE, dirty |-> FALSE, bytes |-> Blank]

Init ==
  /\ ip = Closed
  /\ faddr = {}
  /\ cache = [b \in Blk |-> NoBuffer]
  /\ disk = [b \in Blk |-> Blank]
  /\ serial = 0
  /\ pc = [p \in Proc |-> "idle"]
  /\ asleep = [p \in Proc |-> "no"]
  /\ u = [p \in Proc |-> NoCall]
  /\ faults = [copy |-> 0, space |-> 0, disk |-> 0]
  /\ broken = FALSE

-----------------------------------------------------------------------------
At(p, l) == pc[p] = l /\ asleep[p] = "no"
Goto(p, l) == pc' = [pc EXCEPT ![p] = l]

(* Processes woken on the channels of a set; and p asleep on chan.         *)
\* mutant: wakeup stops at the first process it finds
WokenFirst(chans) ==
  LET first == CHOOSE q \in Proc : asleep[q] \in chans
  IN [q \in Proc |-> IF asleep[q] \in chans /\ q = first THEN "no" ELSE asleep[q]]
Woken(chans) == [q \in Proc |-> IF asleep[q] \in chans THEN "no" ELSE asleep[q]]
Wakeup(chans) == asleep' = Woken(chans)
WakeAndSleep(chans, p, chan) == asleep' = [Woken(chans) EXCEPT ![p] = chan]
Sleep(p, chan) == WakeAndSleep({}, p, chan)

(* A process that is in no call keeps the mode of its file.                *)
Fresh(p) == [NoCall EXCEPT !.mode = u[p].mode]

(* prele(ip): the inode without its lock, and the channel it wakes.        *)
Released(i) == [i EXCEPT !.lock = FALSE, !.want = FALSE]
Wanters(i) == IF i.want THEN {"lock"} ELSE {}

Fault(kind) ==
  /\ kind \in FaultKinds
  /\ faults.copy + faults.space + faults.disk < MaxFaults
  /\ faults' = [faults EXCEPT ![kind] = @ + 1]

(* plock(ip), when the inode is locked.                                    *)
AwaitLock(p) ==
  /\ At(p, "rlock") \/ At(p, "wlock") \/ At(p, "clock")
  /\ ip.lock
  /\ ip' = [ip EXCEPT !.want = TRUE]
  /\ Sleep(p, "lock")
  /\ UNCHANGED <<blocks, pc, u, faults, broken>>

(* A buffer that nobody uses is taken for another block.                   *)
Evict(b) ==
  /\ cache[b].in
  /\ disk' = [disk EXCEPT ![b] = IF cache[b].dirty THEN cache[b].bytes ELSE @]
  /\ cache' = [cache EXCEPT ![b] = NoBuffer]
  /\ UNCHANGED <<ip, faddr, serial, pc, asleep, u, faults, broken>>

(* Its delayed write fails: brelse makes the buffer stale, and no call is   *)
(* told.                                                                   *)
EvictFails(b) ==
  /\ cache[b].in /\ cache[b].dirty
  /\ Fault("disk") /\ broken' = TRUE
  /\ cache' = [cache EXCEPT ![b] = NoBuffer]
  /\ UNCHANGED <<ip, faddr, disk, serial, pc, asleep, u>>

-----------------------------------------------------------------------------
(* openp: count, wake the other side, and wait for it.                     *)
Counted(i, m) == [i EXCEPT !.frcnt = @ + (IF m.rd THEN 1 ELSE 0), !.fwcnt = @ + (IF m.wr THEN 1 ELSE 0)]
Arrivals(i, m) ==
  (IF m.rd /\ i.frcnt = 0 THEN {"frcnt"} ELSE {}) \cup (IF m.wr /\ i.fwcnt = 0 THEN {"fwcnt"} ELSE {})
NoWriterYet(i, m) == m.rd /\ i.fwcnt = 0 /\ ~m.ndelay /\ i.size = 0
NoReaderYet(i, m) == m.wr /\ i.frcnt = 0

Open(p, m) ==
  /\ At(p, "idle")
  /\ ~(m.wr /\ m.ndelay /\ ip.frcnt = 0 /\ ~m.rd)   \* else ENXIO
  /\ ip' = Counted(ip, m)
  /\ u' = [u EXCEPT ![p].mode = m]
  /\ \/ /\ NoWriterYet(ip', m)
        /\ WakeAndSleep(Arrivals(ip, m), p, "fwcnt") /\ Goto(p, "openr")
     \/ /\ ~NoWriterYet(ip', m) /\ NoReaderYet(ip', m)
        /\ WakeAndSleep(Arrivals(ip, m), p, "frcnt") /\ Goto(p, "openw")
     \/ /\ ~NoWriterYet(ip', m) /\ ~NoReaderYet(ip', m)
        /\ Wakeup(Arrivals(ip, m)) /\ Goto(p, "open")
  /\ UNCHANGED <<blocks, faults, broken>>

OpenWoken(p) ==
  LET waits == IF pc[p] = "openr" THEN NoWriterYet(ip, u[p].mode) ELSE NoReaderYet(ip, u[p].mode)
  IN /\ At(p, "openr") \/ At(p, "openw")
     /\ IF waits THEN Sleep(p, IF pc[p] = "openr" THEN "fwcnt" ELSE "frcnt") /\ UNCHANGED pc
        ELSE Goto(p, "open") /\ UNCHANGED asleep
     /\ UNCHANGED <<ip, blocks, u, faults, broken>>

(* A signal breaks a sleep at PPIPE: a read or write returns EINTR, an     *)
(* open ("catch half-opens") goes on to closef.                            *)
\* mutant: copen does not catch half-opens
InterruptForgets(p) ==
  /\ p \in Signalled /\ asleep[p] \in {"frcnt", "fwcnt"}
  /\ Goto(p, IF pc[p] \in {"openr", "openw"} THEN "idle" ELSE "open")
  /\ asleep' = [asleep EXCEPT ![p] = "no"] /\ u' = [u EXCEPT ![p] = Fresh(p)]
  /\ UNCHANGED <<ip, blocks, faults, broken>>
Interrupt(p) ==
  /\ p \in Signalled
  /\ asleep[p] \in {"frcnt", "fwcnt"}
  /\ Goto(p, IF pc[p] \in {"openr", "openw"} THEN "clock" ELSE "open")
  /\ asleep' = [asleep EXCEPT ![p] = "no"]
  /\ u' = [u EXCEPT ![p] = Fresh(p)]
  /\ UNCHANGED <<ip, blocks, faults, broken>>

-----------------------------------------------------------------------------
(* rdwr: the call begins and goes to plock.                                *)
CallRead(p, n) ==
  /\ At(p, "open") /\ u[p].mode.rd
  /\ u' = [u EXCEPT ![p] = [Fresh(p) EXCEPT !.count = n]]
  /\ Goto(p, "rlock")
  /\ UNCHANGED <<ip, blocks, asleep, faults, broken>>

CallWrite(p, n) ==
  /\ At(p, "open") /\ u[p].mode.wr
  /\ u' = [u EXCEPT ![p] = [Fresh(p) EXCEPT !.asked = n, !.count = n]]
  /\ Goto(p, "wlock")
  /\ UNCHANGED <<ip, blocks, asleep, faults, broken>>

CallClose(p) ==
  /\ At(p, "open")
  /\ Goto(p, "clock")
  /\ UNCHANGED <<ip, blocks, asleep, u, faults, broken>>

(* The call is over: nothing is left of it in the user area.               *)
Return(p) == u' = [u EXCEPT ![p] = Fresh(p)] /\ Goto(p, "open")

(* readi, IFIFO: nothing to read and no writer, or O_NDELAY: return 0;     *)
(* else leave IFIR, give up the lock and sleep; or begin to read.          *)
ReadTest(p) ==
  /\ At(p, "rlock") /\ ~ip.lock
  /\ IF ip.size > 0
     THEN /\ ip' = [ip EXCEPT !.lock = TRUE]
          /\ u' = [u EXCEPT ![p].offset = ip.frptr]
          /\ Goto(p, "read") /\ UNCHANGED asleep
     ELSE IF ip.fwcnt = 0 \/ u[p].mode.ndelay
     THEN Return(p) /\ UNCHANGED <<ip, asleep>>
     ELSE /\ ip' = [ip EXCEPT !.fir = TRUE]
          /\ Sleep(p, "frcnt") /\ UNCHANGED <<pc, u>>
  /\ UNCHANGED <<blocks, faults, broken>>

(* What bread(dev, bn) returns.                                            *)
Contents(b) == IF cache[b].in THEN cache[b].bytes ELSE disk[b]

(* The offset, and the next one on the way round.                          *)
Wrap(o) == IF o >= PIPSIZ THEN 0 ELSE o

(* Bytes with n of them from place on replaced. Junk stands for bytes that  *)
(* have been read, and for what the disk has of a block with a delayed     *)
(* write: nobody may read them again.                                      *)
Overwritten(bytes, on, n, new) == [k \in 0..BSIZE-1 |-> IF k \in on..on + n - 1 THEN new[k - on + 1] ELSE bytes[k]]

(* The end of readi: the pointer goes back to 0 with the last byte, and    *)
(* writers that wait are woken, with the lock given up.                    *)
ReadDone(i, offset) ==
  [Released(i) EXCEPT !.frptr = IF i.size > 0 THEN offset ELSE 0,
                      !.fwptr = IF i.size > 0 THEN @ ELSE 0,
                      !.fiw = FALSE]
\* mutant: writers are woken by the read that empties the FIFO only
WakeWritersWhenEmpty(i) == IF i.fiw /\ i.size = 0 THEN {"fwcnt"} ELSE {}
WakeWriters(i) == IF i.fiw THEN {"fwcnt"} ELSE {}

(* One block of the loop of readi. The delayed write of a block read to    *)
(* its end is given up, unless the writer may have come round to it; a     *)
(* copy that fails takes its bytes off the size and leaves the offset.     *)
ReadBlock(p, fails) ==
  LET on == u[p].offset % BSIZE
      b == u[p].offset \div BSIZE
      n == Min({BSIZE - on, u[p].count, ip.size})
      offset == IF fails THEN u[p].offset ELSE Wrap(u[p].offset + n)
      size == ip.size - n
      i == [ip EXCEPT !.size = size]
      count == IF fails THEN u[p].count ELSE u[p].count - n
      drop == on + n = BSIZE /\ size < PIPSIZ - BSIZE
      over == fails \/ count = 0 \/ size = 0
  IN /\ At(p, "read") /\ b \in faddr
     /\ cache' = [cache EXCEPT ![b] =
          [in |-> TRUE, dirty |-> cache[b].dirty /\ ~drop,
           bytes |-> IF fails THEN Contents(b) ELSE Overwritten(Contents(b), on, n, [k \in 1..n |-> Junk])]]
     /\ IF over
        THEN ip' = ReadDone(i, offset) /\ Return(p) /\ Wakeup(WakeWriters(i) \cup Wanters(i))
        ELSE /\ ip' = i
             /\ u' = [u EXCEPT ![p].offset = offset, ![p].count = count]
             /\ UNCHANGED <<pc, asleep>>
     /\ IF fails THEN Fault("copy") /\ broken' = TRUE ELSE UNCHANGED <<faults, broken>>
     /\ serial' = IF size = 0 THEN 0 ELSE serial
     /\ UNCHANGED <<faddr, disk>>

(* bread fails: u_error ends the loop, and brelse makes the buffer stale.  *)
(* A driver that leaves b_resid makes n zero, and the bytes stay; else what *)
(* is in the buffer is copied out as if it were theirs, and they are gone. *)
ReadFails(p) ==
  LET on == u[p].offset % BSIZE
      b == u[p].offset \div BSIZE
  IN /\ At(p, "read") /\ b \in faddr /\ ~cache[b].in
     /\ Fault("disk")
     /\ \E n \in {0, Min({BSIZE - on, u[p].count, ip.size})}, copied \in BOOLEAN :
          LET i == [ip EXCEPT !.size = @ - n]
          IN /\ ip' = ReadDone(i, IF copied THEN Wrap(u[p].offset + n) ELSE u[p].offset)
             /\ Wakeup(WakeWriters(i) \cup Wanters(i)) /\ Return(p)
             /\ broken' = (broken \/ n # 0)
             /\ serial' = IF i.size = 0 THEN 0 ELSE serial
     /\ UNCHANGED <<faddr, cache, disk>>

(* bmap finds no block (a failed write left the size without one): the     *)
(* read ends.                                                              *)
ReadHole(p) ==
  /\ At(p, "read") /\ u[p].offset \div BSIZE \notin faddr
  /\ ip' = ReadDone(ip, u[p].offset)
  /\ Wakeup(WakeWriters(ip) \cup Wanters(ip)) /\ Return(p)
  /\ UNCHANGED <<blocks, faults, broken>>

(* writei, IFIFO, at floop (with the lock already taken when it comes back *)
(* for the rest of a long write): wait until the whole write fits, or, if  *)
(* it never will, until some of it does.                                   *)
\* mutant: off by one
TooMuchByOne(p) == u[p].count + ip.size > PIPSIZ + 1
TooMuch(p) == u[p].count + ip.size > PIPSIZ
InParts(p) == u[p].count > PIPSIZ /\ ip.size < PIPSIZ
NoRoom(p) == TooMuch(p) /\ ~InParts(p)

WriteTest(p) ==
  /\ (At(p, "wlock") /\ ~ip.lock) \/ At(p, "wagain")
  /\ IF ip.frcnt = 0 \/ (NoRoom(p) /\ u[p].mode.ndelay)
     THEN ip' = Released(ip) /\ Wakeup(Wanters(ip)) /\ Return(p)   \* EPIPE, or a short count
     ELSE IF NoRoom(p)
     THEN /\ ip' = [Released(ip) EXCEPT !.fiw = TRUE]
          /\ WakeAndSleep(Wanters(ip), p, "fwcnt") /\ Goto(p, "wlock")
          /\ u' = [u EXCEPT ![p].usave = 0]
     ELSE /\ ip' = [ip EXCEPT !.lock = TRUE]
          /\ LET n == IF TooMuch(p) THEN PIPSIZ - ip.size ELSE u[p].count
             IN u' = [u EXCEPT ![p].count = n, ![p].usave = u[p].count - n, ![p].moved = 0,
                               ![p].offset = ip.fwptr]
          /\ Goto(p, "write") /\ UNCHANGED asleep
  /\ UNCHANGED <<blocks, faults, broken>>

(* The end of writei: readers that wait are woken; the rest of a long      *)
(* write goes back to floop with the lock.                                 *)
\* mutant: the rest of a long write goes back to floop without the lock
WriteDoneUnlocked(p, i, offset, err) ==
  LET done == [i EXCEPT !.fwptr = offset, !.fir = FALSE]
      readers == IF i.fir THEN {"frcnt"} ELSE {}
  IN /\ ip' = Released(done)
     /\ Wakeup(readers \cup Wanters(i))
     /\ IF ~err /\ u[p].usave > 0
        THEN /\ u' = [u EXCEPT ![p].count = u[p].usave, ![p].usave = 0, ![p].moved = 0, ![p].offset = 0]
             /\ Goto(p, "wagain")
        ELSE Return(p)
WriteDone(p, i, offset, err) ==
  LET done == [i EXCEPT !.fwptr = offset, !.fir = FALSE]
      readers == IF i.fir THEN {"frcnt"} ELSE {}
  IN IF ~err /\ u[p].usave > 0
     THEN /\ ip' = done
          /\ u' = [u EXCEPT ![p].count = u[p].usave, ![p].usave = 0, ![p].moved = 0, ![p].offset = 0]
          /\ Goto(p, "wagain") /\ Wakeup(readers)
     ELSE ip' = Released(done) /\ Return(p) /\ Wakeup(readers \cup Wanters(i))

(* One block of the loop of writei: bmap, which may allocate the block     *)
(* (alloc clears it), getblk or bread, the copy, and bdwrite. Getblk alone *)
(* leaves what happens to be in the buffer of a block that is not cached.  *)
\* mutant: any block written from its start is taken without a read
NoReadAtStart(on, n) == on = 0
NoRead(on, n) == n = BSIZE \/ (on = 0 /\ ip.size < PIPSIZ - BSIZE)
WriteBlock(p, fails) ==
  LET on == u[p].offset % BSIZE
      b == u[p].offset \div BSIZE
      n == Min({BSIZE - on, u[p].count})
      fresh == b \notin faddr
      old == IF fresh \/ (NoRead(on, n) /\ ~cache[b].in) THEN Blank ELSE Contents(b)
      new == Overwritten(old, on, n, [k \in 1..n |-> (serial + k - 1) % Rounds])
      i == [ip EXCEPT !.size = @ + n]
      offset == Wrap(u[p].offset + n)
  IN /\ At(p, "write")
     /\ faddr' = faddr \cup {b}
     /\ IF fails
        THEN /\ cache' = [cache EXCEPT ![b] =
                  IF fresh THEN [in |-> TRUE, dirty |-> TRUE, bytes |-> Blank]
                  ELSE IF NoRead(on, n) THEN cache[b]
                  ELSE [in |-> TRUE, dirty |-> cache[b].dirty, bytes |-> Contents(b)]]
             /\ WriteDone(p, i, u[p].offset, TRUE)
             /\ Fault("copy") /\ broken' = TRUE
        ELSE /\ cache' = [cache EXCEPT ![b] = [in |-> TRUE, dirty |-> TRUE, bytes |-> new]]
             /\ IF u[p].count = n THEN WriteDone(p, i, offset, FALSE)
                ELSE /\ ip' = i
                     /\ u' = [u EXCEPT ![p].offset = offset, ![p].count = @ - n, ![p].moved = @ + n]
                     /\ UNCHANGED <<pc, asleep>>
             /\ UNCHANGED <<faults, broken>>
     /\ serial' = IF fails THEN serial ELSE (serial + n) % Rounds
     /\ disk' = [disk EXCEPT ![b] = IF fails THEN @ ELSE Blank]

(* bread fails, but nothing asks whether it did: the bytes are copied into *)
(* its buffer, and i_size and i_fwptr count them, but brelse makes the      *)
(* buffer stale.                                                           *)
WriteFails(p) ==
  LET on == u[p].offset % BSIZE
      b == u[p].offset \div BSIZE
      n == Min({BSIZE - on, u[p].count})
  IN /\ At(p, "write") /\ b \in faddr /\ ~NoRead(on, n) /\ ~cache[b].in
     /\ Fault("disk") /\ broken' = TRUE
     /\ \E copied \in BOOLEAN :
          WriteDone(p, [ip EXCEPT !.size = @ + n],
                    IF copied THEN Wrap(u[p].offset + n) ELSE u[p].offset, TRUE)
     /\ UNCHANGED blocks

(* bmap fails: alloc found no space. What is written is written.           *)
WriteNoSpace(p) ==
  /\ At(p, "write") /\ u[p].offset \div BSIZE \notin faddr
  /\ Fault("space")
  /\ WriteDone(p, ip, u[p].offset, TRUE)
  /\ UNCHANGED <<blocks, broken>>

-----------------------------------------------------------------------------
(* closef, with the lock: closep, and iput, which unlocks.                 *)
Leaving(i, m) == [i EXCEPT !.frcnt = @ - (IF m.rd THEN 1 ELSE 0), !.fwcnt = @ - (IF m.wr THEN 1 ELSE 0)]
Close(p) ==
  LET m == u[p].mode
      i == Leaving(ip, m)
      wakew == m.rd /\ i.frcnt = 0 /\ ip.fiw
      waker == m.wr /\ i.fwcnt = 0 /\ ip.fir
      last == i.frcnt = 0 /\ i.fwcnt = 0
  IN /\ At(p, "clock") /\ ~ip.lock
     /\ ip' = [i EXCEPT !.fiw = @ /\ ~wakew, !.fir = @ /\ ~waker,
                        !.size = IF last THEN 0 ELSE @,
                        !.frptr = IF last THEN 0 ELSE @, !.fwptr = IF last THEN 0 ELSE @]
     /\ Wakeup((IF wakew THEN {"fwcnt"} ELSE {}) \cup (IF waker THEN {"frcnt"} ELSE {}))
     /\ u' = [u EXCEPT ![p] = NoCall]
     /\ Goto(p, "idle")
     /\ IF last THEN /\ faddr' = {} /\ serial' = 0 /\ broken' = FALSE
                     /\ cache' = [b \in Blk |-> NoBuffer] /\ disk' = [b \in Blk |-> Blank]
        ELSE UNCHANGED <<blocks, broken>>
     /\ UNCHANGED faults

-----------------------------------------------------------------------------
(* What a process does once it is in a system call, and what it may call.  *)
Kernel(p) ==
  \/ AwaitLock(p) \/ OpenWoken(p) \/ ReadTest(p) \/ ReadHole(p) \/ WriteTest(p) \/ WriteNoSpace(p) \/ Close(p)
  \/ ReadFails(p) \/ WriteFails(p)
  \/ \E fails \in BOOLEAN : ReadBlock(p, fails) \/ WriteBlock(p, fails)

Next ==
  \/ \E p \in Proc :
       \/ Kernel(p) \/ CallClose(p) \/ Interrupt(p)
       \/ \E m \in Modes[p] : Open(p, m)
       \/ \E n \in Counts : CallRead(p, n) \/ CallWrite(p, n)
  \/ \E b \in Blk : Evict(b) \/ EvictFails(b)

Spec == Init /\ [][Next]_vars
(* A process that is in the kernel and not asleep runs: weak fairness of    *)
(* Kernel(p), with its enabling condition written out for TLC.             *)
Running(p) == asleep[p] = "no" /\ pc[p] \notin {"idle", "open"}
Fair(p) == []<>~Running(p) \/ []<><<Kernel(p)>>_vars
FairSpec == Spec /\ \A p \in Proc : Fair(p)

-----------------------------------------------------------------------------
Holder == {p \in Proc : pc[p] \in {"read", "write", "wagain"}}
UsesIt == {p \in Proc : pc[p] # "idle"}

(* Types, and the size that readi and writei keep within the blocks of the *)
(* FIFO whatever parts a long write goes in and whatever copies, transfers *)
(* and allocations fail.                                                   *)
TypeOK ==
  /\ ip \in Inode
  /\ faddr \subseteq Blk
  /\ cache \in [Blk -> Buffer]
  /\ disk \in [Blk -> Bytes]
  /\ serial \in 0..Rounds-1
  /\ pc \in [Proc -> PC] /\ asleep \in [Proc -> Channel]
  /\ u \in [Proc -> Call]
  /\ broken \in BOOLEAN

(* i_frcnt and i_fwcnt (openp, closep) count those who have an end open or *)
(* wait for the other one, whatever opens are broken off by a signal and   *)
(* closed as half-opens: the tests for EPIPE, for end of file and for the  *)
(* last close rest on them.                                                *)
EndsCounted ==
  /\ ip.frcnt = Cardinality({p \in UsesIt : u[p].mode.rd})
  /\ ip.fwcnt = Cardinality({p \in UsesIt : u[p].mode.wr})

(* plock, prele: one process is inside readi or writei with the lock, and  *)
(* IWANT is set while somebody waits for it; writei goes back to floop     *)
(* with the lock and readi and writei give it up to sleep.                 *)
LockHeld ==
  /\ Cardinality(Holder) = IF ip.lock THEN 1 ELSE 0
  /\ ip.want <=> \E p \in Proc : asleep[p] = "lock"

(* Nobody sleeps for what is there: a reader waits while the FIFO is empty *)
(* (or locked by the writer that will wake it) and IFIR asks for a wakeup, *)
(* a writer while there is no room, each while the other end is open.      *)
(* IFIR and IFIW are set in one call and tested in three others.           *)
NoLostWakeup ==
  \A p \in Proc :
    /\ asleep[p] = "lock" => ip.lock
    /\ asleep[p] = "frcnt" /\ pc[p] = "rlock" => ip.fir /\ (ip.size = 0 \/ ip.lock) /\ ip.fwcnt > 0
    /\ asleep[p] = "fwcnt" /\ pc[p] = "wlock" => ip.fiw /\ (NoRoom(p) \/ ip.lock) /\ ip.frcnt > 0
    /\ asleep[p] = "frcnt" /\ pc[p] = "openw" => ip.frcnt = 0
    /\ asleep[p] = "fwcnt" /\ pc[p] = "openr" => ip.fwcnt = 0

(* The bytes of the FIFO, those of a write under way excepted.             *)
Visible == ip.size - (IF \E p \in Proc : pc[p] = "write" THEN u[CHOOSE p \in Proc : pc[p] = "write"].moved ELSE 0)
Front == IF \E p \in Proc : pc[p] = "read" THEN u[CHOOSE p \in Proc : pc[p] = "read"].offset ELSE ip.frptr
Stored == [k \in 1..Visible |-> LET o == (Front + k - 1) % PIPSIZ IN Contents(o \div BSIZE)[o % BSIZE]]

Queue == INSTANCE PipeQueue WITH
  Size <- PIPSIZ, queue <- Stored, Numbers <- Rounds, users <- UsesIt, asked <- [p \in Proc |-> u[p].asked],
  shortages <- faults.space, spoiled <- broken
(* readi and writei, with their delayed writes, dropped B_DELWRI, wrapped  *)
(* pointers and long writes in parts, implement the queue of PipeQueue,    *)
(* also after a bread that fails with b_resid set, which loses nothing.     *)
QueuePromise == Queue!QueueSpec

(* A reader with bytes to read or without writers wakes up, and so does a  *)
(* writer with room or without readers.                                    *)
SleepersServed ==
  \A p \in Proc :
    /\ asleep[p] = "frcnt" /\ pc[p] = "rlock" /\ (ip.size > 0 \/ ip.fwcnt = 0) ~> asleep[p] # "frcnt"
    /\ asleep[p] = "fwcnt" /\ pc[p] = "wlock" /\ (~NoRoom(p) \/ ip.frcnt = 0) ~> asleep[p] # "fwcnt"
=============================================================================
