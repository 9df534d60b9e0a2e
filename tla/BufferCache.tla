---------------------------- MODULE BufferCache ----------------------------
(***************************************************************************)
(* The block buffer cache of the VAX kernel, uts/vax/io/bio.c: getblk,     *)
(* geteblk, bread, breada, bwrite, bdwrite, bawrite, brelse, iowait,       *)
(* iodone, bflush and binval over one pool of buffers.                     *)
(*                                                                         *)
(* The kernel is not preemptive: a process that is inside it runs until it *)
(* sleeps, so two processes never interleave between two sleeps (Running). *)
(* A disk interrupt (Iodone) may come between any two actions; an action   *)
(* is therefore a stretch of code that runs at spl6, or in which an        *)
(* interrupt is indistinguishable from one that comes just before or after.*)
(***************************************************************************)
EXTENDS Naturals, Sequences, FiniteSets, SequencesExt

CONSTANTS
  Proc,        \* processes
  NBuf,        \* v.v_buf, the number of buffers in the pool
  Block,       \* disk blocks, a (dev, blkno) pair each
  Dev,         \* block devices
  DevOf,       \* the device of each block
  Tape,        \* the devices whose d_tab has B_TAPE
  RaPairs,     \* the (blkno, rablkno) pairs readi() passes to breada
  Value,       \* contents of a block
  Junk,        \* contents of a buffer no transfer has filled, or a failed one
  NoBlock,     \* b_dev == NODEV; rablkno == 0
  AsyncFree,   \* bawrite is asynchronous when more buffers are free (4)
  RaFree,      \* breada reads ahead when more buffers are free (1)
  DiskErrors,  \* {FALSE}, or {FALSE, TRUE} when a transfer may fail
  Calls        \* the routines the processes call

Buf == 1..NBuf
NoBuf == 0
Flag == {"READ", "DONE", "ERROR", "BUSY", "WANTED", "AGE", "ASYNC", "DELWRI", "STALE"}
Routine == {"bread", "breada", "ra", "getblk", "geteblk", "bwrite", "bdwrite",
            "bawrite", "sync", "umount"}

ASSUME NBufAssumption == NBuf \in Nat \ {0}
ASSUME BlockAssumption == NoBlock \notin Block /\ DevOf \in [Block -> Dev] /\ Tape \subseteq Dev
ASSUME RaAssumption == RaPairs \subseteq Block \X (Block \cup {NoBlock})
ASSUME ValueAssumption == Junk \notin Value
ASSUME ThresholdAssumption == AsyncFree \in Nat /\ RaFree \in Nat
ASSUME CallsAssumption == Calls \subseteq Routine /\ DiskErrors \subseteq BOOLEAN

VARIABLES
  flags,      \* b_flags of each buffer
  blk,        \* b_dev and b_blkno of each buffer
  data,       \* the BSIZE bytes of each buffer
  freelist,   \* the available list: head is bfreelist.av_forw
  freecount,  \* bfreelist.b_bcount
  flWanted,   \* B_WANTED in bfreelist.b_flags
  ioq,        \* buffers handed to d_strategy and not yet iodone
  disk,       \* the contents of each block on its device
  pc,         \* where each process is
  cur,        \* bp of the routine a process is in; in "use", the buffer it got
  prim,       \* bp of breada while it works on the read-ahead block
  u           \* the routine a process called, its arguments, u.u_error

bufvars == <<flags, blk, data, freelist, freecount, flWanted, ioq, disk>>
vars == <<flags, blk, data, freelist, freecount, flWanted, ioq, disk, pc, cur, prim, u>>

(* "search", "woken": at loop: of getblk or geteblk, running or made       *)
(* runnable by a wakeup. "claim": getblk found bp, before spl6. "got":     *)
(* getblk has returned. "bufwait", "freewait", "iosleep": asleep. "use":   *)
(* the caller has its buffer. The rest name a place in one routine.        *)
InKernel == {"search", "claim", "got", "readahead", "aged", "asyncerr", "flush", "inval"}
Asleep == {"bufwait", "freewait", "iosleep"}
PC == InKernel \cup Asleep \cup {"idle", "woken", "iowait", "use"}

Frame == [call : Routine \cup {"none"}, want : Block \cup {NoBlock},
          first : Block \cup {NoBlock}, ra : Block \cup {NoBlock}, err : BOOLEAN]
NoCall == [call |-> "none", want |-> NoBlock, first |-> NoBlock, ra |-> NoBlock, err |-> FALSE]

TypeOK ==
  /\ flags \in [Buf -> SUBSET Flag]
  /\ blk \in [Buf -> Block \cup {NoBlock}]
  /\ data \in [Buf -> Value \cup {Junk}]
  /\ freelist \in Seq(Buf)
  /\ freecount \in Nat
  /\ flWanted \in BOOLEAN
  /\ ioq \subseteq Buf
  /\ disk \in [Block -> Value]
  /\ pc \in [Proc -> PC]
  /\ cur \in [Proc -> Buf \cup {NoBuf}]
  /\ prim \in [Proc -> Buf \cup {NoBuf}]
  /\ u \in [Proc -> Frame]

(* binit() releases the buffers in order, none of them has a block.        *)
Init ==
  /\ flags = [b \in Buf |-> {}]
  /\ blk = [b \in Buf |-> NoBlock]
  /\ data = [b \in Buf |-> Junk]
  /\ freelist = [i \in 1..NBuf |-> i]
  /\ freecount = NBuf
  /\ flWanted = FALSE
  /\ ioq = {}
  /\ disk \in [Block -> Value]
  /\ pc = [p \in Proc |-> "idle"]
  /\ cur = [p \in Proc |-> NoBuf]
  /\ prim = [p \in Proc |-> NoBuf]
  /\ u = [p \in Proc |-> NoCall]

-----------------------------------------------------------------------------
(* Helpers                                                                 *)

Running(p) == \A q \in Proc \ {p} : pc[q] \notin InKernel

(* The buffers of k's hash chain that hold k and are not B_STALE.          *)
Match(k) == {b \in Buf : blk[b] = k /\ "STALE" \notin flags[b]}
incore(k) == Match(k) # {}

(* Wrong: a woken sleeper of getblk takes the buffer without a new scan.   *)
WakeupTakes(bs, list) ==
  [q \in Proc |->
     IF pc[q] = "iosleep" /\ cur[q] \in bs THEN "iowait"
     ELSE IF pc[q] = "bufwait" /\ cur[q] \in bs THEN "got"
     ELSE IF pc[q] = "freewait" /\ list THEN "woken" ELSE pc[q]]

(* wakeup() on the buffers in bs and, if list, on the free list: the new   *)
(* pc of every process. A sleeper of iowait tests B_DONE again, a sleeper  *)
(* of getblk or geteblk goes back to loop.                                 *)
Wakeup(bs, list) ==
  [q \in Proc |->
     IF pc[q] = "iosleep" /\ cur[q] \in bs THEN "iowait"
     ELSE IF \/ pc[q] = "bufwait" /\ cur[q] \in bs
             \/ pc[q] = "freewait" /\ list
          THEN "woken" ELSE pc[q]]

(* brelse(b) when b_flags is F: a buffer whose transfer failed loses its   *)
(* block and its delayed write, and is the next one to be reused.          *)
ReleasedFlags(F) ==
  (IF "ERROR" \in F THEN (F \cup {"STALE"}) \ {"ERROR", "DELWRI"} ELSE F)
    \ {"WANTED", "BUSY", "ASYNC", "AGE"}

brelse(b, F) ==
  /\ flags' = [flags EXCEPT ![b] = ReleasedFlags(F)]
  /\ freelist' = IF "AGE" \in F \/ "ERROR" \in F THEN <<b>> \o freelist ELSE Append(freelist, b)
  /\ freecount' = freecount + 1
  /\ flWanted' = FALSE

(* Wrong: brelse that forgets those who wait for any buffer.               *)
ReleaseWakesOne(b, F) == Wakeup(IF "WANTED" \in F THEN {b} ELSE {}, FALSE)

ReleaseWakes(b, F) == Wakeup(IF "WANTED" \in F THEN {b} ELSE {}, flWanted)

(* notavail(): the buffer at position i leaves the available list.         *)
notavail(i) ==
  /\ freelist' = RemoveAt(freelist, i)
  /\ freecount' = freecount - 1

(* What bwrite() makes of b_flags before it calls d_strategy.              *)
WriteFlags(F) == F \ {"READ", "DONE", "ERROR", "DELWRI", "AGE"}

(* Wrong: the buffer that is written stays on the available list.          *)
FlushAsyncListed(i) ==
  LET b == freelist[i]
  IN /\ flags' = [flags EXCEPT ![b] = WriteFlags(@ \cup {"BUSY", "ASYNC"})]
     /\ ioq' = ioq \cup {b}
     /\ UNCHANGED <<freelist, freecount>>

(* A free buffer with a delayed write is written out asynchronously.       *)
FlushAsync(i) ==
  LET b == freelist[i]
  IN /\ notavail(i)
     /\ flags' = [flags EXCEPT ![b] = WriteFlags(@ \cup {"BUSY", "ASYNC"})]
     /\ ioq' = ioq \cup {b}

-----------------------------------------------------------------------------
(* getblk and geteblk                                                      *)

AtLoop(p) == pc[p] \in {"search", "woken"} /\ Running(p)
(* Wrong: after a wakeup, getblk goes to the available list directly.      *)
NoMatchNoRescan(p) == u[p].call = "geteblk" \/ ~incore(u[p].want) \/ pc[p] = "woken"

NoMatch(p) == u[p].call = "geteblk" \/ ~incore(u[p].want)

(* The scan of the hash chain, at spl0, finds the block.                   *)
GetblkFound(p) ==
  /\ AtLoop(p) /\ u[p].call # "geteblk"
  /\ \E b \in Match(u[p].want) : cur' = [cur EXCEPT ![p] = b]
  /\ pc' = [pc EXCEPT ![p] = "claim"]
  /\ UNCHANGED <<bufvars, prim, u>>

(* At spl6 the buffer that was found is busy: wait for it, scan again.     *)
GetblkBusy(p) ==
  /\ pc[p] = "claim" /\ "BUSY" \in flags[cur[p]]
  /\ flags' = [flags EXCEPT ![cur[p]] = @ \cup {"WANTED"}]
  /\ pc' = [pc EXCEPT ![p] = "bufwait"]
  /\ UNCHANGED <<blk, data, freelist, freecount, flWanted, ioq, disk, cur, prim, u>>

(* At spl6 it is not: take it as it is. B_STALE is not looked at again.    *)
GetblkHit(p) ==
  /\ pc[p] = "claim" /\ "BUSY" \notin flags[cur[p]]
  /\ \E i \in 1..Len(freelist) : freelist[i] = cur[p] /\ notavail(i)
  /\ flags' = [flags EXCEPT ![cur[p]] = @ \cup {"BUSY"}]
  /\ pc' = [pc EXCEPT ![p] = "got"]
  /\ UNCHANGED <<blk, data, flWanted, ioq, disk, cur, prim, u>>

(* No buffer has the block and none is free.                               *)
FreelistEmpty(p) ==
  /\ AtLoop(p) /\ NoMatch(p) /\ freelist = <<>>
  /\ flWanted' = TRUE
  /\ pc' = [pc EXCEPT ![p] = "freewait"]
  /\ UNCHANGED <<flags, blk, data, freelist, freecount, ioq, disk, cur, prim, u>>

(* The oldest free buffer has a delayed write: start it, scan again.       *)
FlushHead(p) ==
  /\ AtLoop(p) /\ NoMatch(p) /\ freelist # <<>>
  /\ "DELWRI" \in flags[freelist[1]]
  /\ FlushAsync(1)
  /\ cur' = [cur EXCEPT ![p] = freelist[1]]
  /\ pc' = [pc EXCEPT ![p] = "aged"]
  /\ UNCHANGED <<blk, data, flWanted, disk, prim, u>>

(* Wrong: a delayed write is thrown away with the buffer.                  *)
ReassignDirty(p) ==
  /\ AtLoop(p) /\ NoMatch(p) /\ freelist # <<>>
  /\ LET b == freelist[1]
     IN /\ notavail(1)
        /\ flags' = [flags EXCEPT ![b] =
                       IF u[p].call = "geteblk" THEN {"BUSY", "AGE"} ELSE {"BUSY"}]
        /\ blk' = [blk EXCEPT ![b] = u[p].want]
        /\ cur' = [cur EXCEPT ![p] = b]
  /\ pc' = [pc EXCEPT ![p] = "got"]
  /\ UNCHANGED <<data, flWanted, ioq, disk, prim, u>>

(* The oldest free buffer is assigned to the block, or to NODEV.           *)
Reassign(p) ==
  /\ AtLoop(p) /\ NoMatch(p) /\ freelist # <<>>
  /\ LET b == freelist[1]
     IN /\ "DELWRI" \notin flags[b]
        /\ notavail(1)
        /\ flags' = [flags EXCEPT ![b] =
                       IF u[p].call = "geteblk" THEN {"BUSY", "AGE"} ELSE {"BUSY"}]
        /\ blk' = [blk EXCEPT ![b] = u[p].want]
        /\ cur' = [cur EXCEPT ![p] = b]
  /\ pc' = [pc EXCEPT ![p] = "got"]
  /\ UNCHANGED <<data, flWanted, ioq, disk, prim, u>>

(* bwrite() after d_strategy of an asynchronous delayed write: mark the    *)
(* buffer, which an interrupt may have released by now.                    *)
AgeMark(p) ==
  /\ pc[p] = "aged"
  /\ flags' = [flags EXCEPT ![cur[p]] = @ \cup {"AGE"}]
  /\ pc' = [pc EXCEPT ![p] = CASE u[p].call = "bawrite" -> "idle"
                               [] u[p].call \in {"sync", "umount"} -> "flush"
                               [] OTHER -> "search"]
  /\ cur' = [cur EXCEPT ![p] = NoBuf]
  /\ u' = IF u[p].call = "bawrite" THEN [u EXCEPT ![p] = NoCall] ELSE u
  /\ UNCHANGED <<blk, data, freelist, freecount, flWanted, ioq, disk, prim>>

-----------------------------------------------------------------------------
(* The callers of getblk                                                   *)

NewCall(p, c, k, f, r) ==
  /\ pc[p] = "idle" /\ Running(p) /\ c \in Calls
  /\ u' = [u EXCEPT ![p] = [call |-> c, want |-> k, first |-> f, ra |-> r, err |-> FALSE]]

Getblk(p, k) ==
  /\ NewCall(p, "getblk", k, NoBlock, NoBlock)
  /\ pc' = [pc EXCEPT ![p] = "search"]
  /\ UNCHANGED <<bufvars, cur, prim>>

Geteblk(p) ==
  /\ NewCall(p, "geteblk", NoBlock, NoBlock, NoBlock)
  /\ pc' = [pc EXCEPT ![p] = "search"]
  /\ UNCHANGED <<bufvars, cur, prim>>

Bread(p, k) ==
  /\ NewCall(p, "bread", k, NoBlock, NoBlock)
  /\ pc' = [pc EXCEPT ![p] = "search"]
  /\ UNCHANGED <<bufvars, cur, prim>>

(* breada() skips getblk when the block is in core already.                *)
Breada(p, k, r) ==
  /\ NewCall(p, "breada", k, k, r)
  /\ pc' = [pc EXCEPT ![p] = IF incore(k) THEN "readahead" ELSE "search"]
  /\ UNCHANGED <<bufvars, cur, prim>>

(* getblk returned to its caller outside bio.c.                            *)
GetblkReturn(p) ==
  /\ pc[p] = "got" /\ u[p].call \in {"getblk", "geteblk"}
  /\ pc' = [pc EXCEPT ![p] = "use"]
  /\ UNCHANGED <<bufvars, cur, prim, u>>

(* Wrong: B_READ is not set; a transfer without it is a write.             *)
StartReadNoFlag(b, fs) ==
  /\ flags' = [flags EXCEPT ![b] = @ \cup fs]
  /\ ioq' = ioq \cup {b}

(* d_strategy() of a read of b, with the flags fs set beside B_READ.       *)
StartRead(b, fs) ==
  /\ flags' = [flags EXCEPT ![b] = @ \cup {"READ"} \cup fs]
  /\ ioq' = ioq \cup {b}

BreadGot(p) ==
  /\ pc[p] = "got" /\ u[p].call = "bread"
  /\ IF "DONE" \in flags[cur[p]]
     THEN pc' = [pc EXCEPT ![p] = "use"] /\ UNCHANGED <<flags, ioq>>
     ELSE pc' = [pc EXCEPT ![p] = "iowait"] /\ StartRead(cur[p], {})
  /\ UNCHANGED <<blk, data, freelist, freecount, flWanted, disk, cur, prim, u>>

BreadaGot(p) ==
  /\ pc[p] = "got" /\ u[p].call = "breada"
  /\ IF "DONE" \in flags[cur[p]] THEN UNCHANGED <<flags, ioq>> ELSE StartRead(cur[p], {})
  /\ prim' = [prim EXCEPT ![p] = cur[p]]
  /\ cur' = [cur EXCEPT ![p] = NoBuf]
  /\ pc' = [pc EXCEPT ![p] = "readahead"]
  /\ UNCHANGED <<blk, data, freelist, freecount, flWanted, disk, u>>

(* Wrong: read ahead although no other buffer is free.                     *)
WantsReadaheadAlways(p) == u[p].ra # NoBlock /\ ~incore(u[p].ra)

(* The test on the read-ahead block.                                       *)
WantsReadahead(p) == u[p].ra # NoBlock /\ freecount > RaFree /\ ~incore(u[p].ra)

Readahead(p) ==
  /\ pc[p] = "readahead" /\ WantsReadahead(p)
  /\ u' = [u EXCEPT ![p].call = "ra", ![p].want = u[p].ra]
  /\ pc' = [pc EXCEPT ![p] = "search"]
  /\ UNCHANGED <<bufvars, cur, prim>>

(* The read-ahead block is released if it is there, read if it is not.     *)
ReadaheadGot(p) ==
  /\ pc[p] = "got" /\ u[p].call = "ra"
  /\ IF "DONE" \in flags[cur[p]]
     THEN /\ brelse(cur[p], flags[cur[p]])
          /\ pc' = [ReleaseWakes(cur[p], flags[cur[p]]) EXCEPT ![p] = "readahead"]
          /\ UNCHANGED ioq
     ELSE /\ StartRead(cur[p], {"ASYNC"})
          /\ pc' = [pc EXCEPT ![p] = "readahead"]
          /\ UNCHANGED <<freelist, freecount, flWanted>>
  /\ cur' = [cur EXCEPT ![p] = NoBuf]
  /\ u' = [u EXCEPT ![p].ra = NoBlock]
  /\ UNCHANGED <<blk, data, disk, prim>>

(* After the read-ahead: wait for the first block, or bread() it now.      *)
ReadaheadDone(p) ==
  /\ pc[p] = "readahead" /\ ~WantsReadahead(p)
  /\ cur' = [cur EXCEPT ![p] = prim[p]]
  /\ prim' = [prim EXCEPT ![p] = NoBuf]
  /\ pc' = [pc EXCEPT ![p] = IF prim[p] = NoBuf THEN "search" ELSE "iowait"]
  /\ u' = [u EXCEPT ![p].call = "bread", ![p].want = u[p].first,
                    ![p].first = NoBlock, ![p].ra = NoBlock]
  /\ UNCHANGED bufvars

-----------------------------------------------------------------------------
(* iowait and iodone                                                       *)

IowaitSleep(p) ==
  /\ pc[p] = "iowait" /\ Running(p) /\ "DONE" \notin flags[cur[p]]
  /\ pc' = [pc EXCEPT ![p] = "iosleep"]
  /\ UNCHANGED <<bufvars, cur, prim, u>>

(* geterror() copies B_ERROR to u.u_error; bwrite() releases the buffer.   *)
IowaitReturn(p) ==
  LET b == cur[p]
  IN /\ pc[p] = "iowait" /\ Running(p) /\ "DONE" \in flags[b]
     /\ IF u[p].call = "bwrite"
        THEN /\ brelse(b, flags[b])
             /\ u' = [u EXCEPT ![p] = [NoCall EXCEPT !.err = "ERROR" \in flags[b]]]
             /\ pc' = [ReleaseWakes(b, flags[b]) EXCEPT ![p] = "idle"]
             /\ cur' = [cur EXCEPT ![p] = NoBuf]
        ELSE /\ pc' = [pc EXCEPT ![p] = "use"]
             /\ u' = [u EXCEPT ![p].err = "ERROR" \in flags[b]]
             /\ UNCHANGED <<flags, freelist, freecount, flWanted, cur>>
     /\ UNCHANGED <<blk, data, ioq, disk, prim>>

(* The disk interrupt: the transfer of b is over, with an error if e. The  *)
(* drivers sort their queue, so any transfer may be the next to finish.    *)
Transfer(b, e) ==
  IF "READ" \in flags[b]
  THEN /\ data' = [data EXCEPT ![b] = IF e THEN Junk ELSE disk[blk[b]]]
       /\ UNCHANGED disk
  ELSE /\ disk' = IF e THEN disk ELSE [disk EXCEPT ![blk[b]] = data[b]]
       /\ UNCHANGED data

iodone(b, e) ==
  LET F == flags[b] \cup {"DONE"} \cup (IF e THEN {"ERROR"} ELSE {})
  IN IF "ASYNC" \in F
     THEN brelse(b, F) /\ pc' = ReleaseWakes(b, F)
     ELSE /\ flags' = [flags EXCEPT ![b] = F \ {"WANTED"}]
          /\ pc' = Wakeup({b}, FALSE)
          /\ UNCHANGED <<freelist, freecount, flWanted>>

DiskInterrupt(b, e) ==
  /\ b \in ioq
  /\ ioq' = ioq \ {b}
  /\ Transfer(b, e)
  /\ iodone(b, e)
  /\ UNCHANGED <<blk, cur, prim, u>>

-----------------------------------------------------------------------------
(* The callers give the buffer back                                        *)

Holds(p) == pc[p] = "use" /\ Running(p)
MayWrite(p) == Holds(p) /\ ~u[p].err /\ blk[cur[p]] # NoBlock

Brelse(p) ==
  /\ Holds(p)
  /\ brelse(cur[p], flags[cur[p]])
  /\ pc' = [ReleaseWakes(cur[p], flags[cur[p]]) EXCEPT ![p] = "idle"]
  /\ cur' = [cur EXCEPT ![p] = NoBuf]
  /\ u' = [u EXCEPT ![p] = [NoCall EXCEPT !.err = u[p].err]]
  /\ UNCHANGED <<blk, data, ioq, disk, prim>>

(* bwrite() of a buffer whose new contents are v, with B_ASYNC or not.     *)
bwrite(p, v, async) ==
  LET b == cur[p]
  IN /\ data' = [data EXCEPT ![b] = v]
     /\ flags' = [flags EXCEPT ![b] = WriteFlags(@ \cup (IF async THEN {"ASYNC"} ELSE {}))]
     /\ ioq' = ioq \cup {b}
     /\ pc' = [pc EXCEPT ![p] = IF ~async THEN "iowait"
                                ELSE IF "DELWRI" \in flags[b] THEN "aged" ELSE "asyncerr"]
     /\ u' = [u EXCEPT ![p].call = IF async THEN "bawrite" ELSE "bwrite"]
     /\ UNCHANGED <<blk, freelist, freecount, flWanted, disk, cur, prim>>

Bwrite(p, v) == "bwrite" \in Calls /\ MayWrite(p) /\ bwrite(p, v, FALSE)

bawrite(p, v) == bwrite(p, v, freecount > AsyncFree)
Bawrite(p, v) == "bawrite" \in Calls /\ MayWrite(p) /\ bawrite(p, v)

BdwriteTape(p, v) ==
  /\ "bdwrite" \in Calls /\ MayWrite(p) /\ DevOf[blk[cur[p]]] \in Tape
  /\ bawrite(p, v)

Bdwrite(p, v) ==
  LET b == cur[p]
      F == flags[b] \cup {"DELWRI", "DONE"}
  IN /\ "bdwrite" \in Calls /\ MayWrite(p) /\ DevOf[blk[b]] \notin Tape
     /\ data' = [data EXCEPT ![b] = v]
     /\ brelse(b, F)
     /\ pc' = [ReleaseWakes(b, F) EXCEPT ![p] = "idle"]
     /\ cur' = [cur EXCEPT ![p] = NoBuf]
     /\ u' = [u EXCEPT ![p] = NoCall]
     /\ UNCHANGED <<blk, ioq, disk, prim>>

(* bwrite() after d_strategy of an asynchronous write: geterror() on a     *)
(* buffer that an interrupt may have released by now.                      *)
AsyncError(p) ==
  /\ pc[p] = "asyncerr"
  /\ u' = [u EXCEPT ![p] = [NoCall EXCEPT !.err = "ERROR" \in flags[cur[p]]]]
  /\ pc' = [pc EXCEPT ![p] = "idle"]
  /\ cur' = [cur EXCEPT ![p] = NoBuf]
  /\ UNCHANGED <<bufvars, prim>>

-----------------------------------------------------------------------------
(* bflush and binval                                                       *)

(* update(), from sync(2) and the update daemon: bflush(NODEV).            *)
Sync(p) ==
  /\ NewCall(p, "sync", NoBlock, NoBlock, NoBlock)
  /\ pc' = [pc EXCEPT ![p] = "flush"]
  /\ UNCHANGED <<bufvars, cur, prim>>

(* The last close, or the unmounting, of the device of k: bflush(dev),     *)
(* then binval(dev). No other process has the device open.                 *)
Uses(q, d) ==
  pc[q] # "idle" /\ \E k \in {u[q].want, u[q].first, u[q].ra} \ {NoBlock} : DevOf[k] = d

Umount(p, k) ==
  /\ NewCall(p, "umount", k, NoBlock, NoBlock)
  /\ \A q \in Proc \ {p} : ~Uses(q, DevOf[k])
  /\ pc' = [pc EXCEPT ![p] = "flush"]
  /\ UNCHANGED <<bufvars, cur, prim>>

(* The free buffers bflush() looks for, by their position.                 *)
ToFlush(p) ==
  {i \in 1..Len(freelist) :
     /\ "DELWRI" \in flags[freelist[i]]
     /\ u[p].call = "umount" => DevOf[blk[freelist[i]]] = DevOf[u[p].want]}

FlushOne(p) ==
  /\ pc[p] = "flush"
  /\ \E i \in ToFlush(p) :
       /\ \A j \in ToFlush(p) : i <= j
       /\ FlushAsync(i)
       /\ cur' = [cur EXCEPT ![p] = freelist[i]]
  /\ pc' = [pc EXCEPT ![p] = "aged"]
  /\ UNCHANGED <<blk, data, flWanted, disk, prim, u>>

FlushDone(p) ==
  /\ pc[p] = "flush" /\ ToFlush(p) = {}
  /\ pc' = [pc EXCEPT ![p] = IF u[p].call = "umount" THEN "inval" ELSE "idle"]
  /\ u' = IF u[p].call = "umount" THEN u ELSE [u EXCEPT ![p] = NoCall]
  /\ UNCHANGED <<bufvars, cur, prim>>

Binval(p) ==
  /\ pc[p] = "inval"
  /\ flags' = [b \in Buf |-> IF blk[b] # NoBlock /\ DevOf[blk[b]] = DevOf[u[p].want]
                             THEN flags[b] \cup {"STALE", "AGE"} ELSE flags[b]]
  /\ pc' = [pc EXCEPT ![p] = "idle"]
  /\ u' = [u EXCEPT ![p] = NoCall]
  /\ UNCHANGED <<blk, data, freelist, freecount, flWanted, ioq, disk, cur, prim>>

-----------------------------------------------------------------------------
(* What the kernel code does for p once it is called, and what its caller  *)
(* does to end its use of the buffer.                                      *)
Kernel(p) ==
  \/ GetblkFound(p) \/ GetblkBusy(p) \/ GetblkHit(p)
  \/ FreelistEmpty(p) \/ FlushHead(p) \/ Reassign(p) \/ AgeMark(p)
  \/ GetblkReturn(p) \/ BreadGot(p) \/ BreadaGot(p)
  \/ Readahead(p) \/ ReadaheadGot(p) \/ ReadaheadDone(p)
  \/ IowaitSleep(p) \/ IowaitReturn(p) \/ AsyncError(p)
  \/ FlushOne(p) \/ FlushDone(p) \/ Binval(p)

Caller(p) ==
  \/ Brelse(p)
  \/ \E v \in Value : Bwrite(p, v) \/ Bawrite(p, v) \/ Bdwrite(p, v) \/ BdwriteTape(p, v)

Call(p) ==
  \/ Geteblk(p) \/ Sync(p)
  \/ \E k \in Block : Getblk(p, k) \/ Bread(p, k) \/ Umount(p, k)
  \/ \E kr \in RaPairs : Breada(p, kr[1], kr[2])

Disk == \E b \in Buf, e \in DiskErrors : DiskInterrupt(b, e)

Next == Disk \/ \E p \in Proc : Kernel(p) \/ Caller(p) \/ Call(p)

Spec == Init /\ [][Next]_vars

(* A runnable process is run in the end although others run before it      *)
(* (swtch), every caller of getblk or bread ends its use of the buffer, and*)
(* every transfer ends in an interrupt.                                    *)
Fairness ==
  /\ \A p \in Proc : SF_vars(Kernel(p)) /\ SF_vars(Caller(p))
  /\ \A b \in Buf : WF_vars(\E e \in DiskErrors : DiskInterrupt(b, e))

FairSpec == Spec /\ Fairness

-----------------------------------------------------------------------------
(* Properties                                                              *)

(* The buffers whose B_BUSY a process set for itself and must still clear. *)
Owned(p) ==
  {b \in Buf : \/ b = cur[p] /\ pc[p] \in {"got", "iowait", "iosleep", "use"}
              \/ b = prim[p]}

(* buf.h: "A buffer is on the available list, and is liable to be          *)
(* reassigned to another disk block, if and only if it is not marked BUSY".*)
(* No buffer is on the list twice and b_bcount counts it, on every path of *)
(* getblk, bwrite, iodone and brelse, interrupts included.                 *)
FreeIffNotBusy ==
  /\ ToSet(freelist) = {b \in Buf : "BUSY" \notin flags[b]}
  /\ \A i, j \in 1..Len(freelist) : freelist[i] = freelist[j] => i = j
  /\ freecount = Len(freelist)

(* bio.c: "the buffer is marked busy so that no one else can touch it".    *)
(* A busy buffer belongs to one process, or to an asynchronous transfer    *)
(* and to no process; two processes never hold one buffer.                 *)
OneHolder ==
  \A b \in Buf :
    /\ \A p, q \in Proc : b \in Owned(p) /\ b \in Owned(q) => p = q
    /\ "BUSY" \in flags[b] <=>
         (b \in ioq /\ "ASYNC" \in flags[b]) \/ \E p \in Proc : b \in Owned(p)
    /\ b \in ioq /\ "ASYNC" \in flags[b] => \A p \in Proc : b \notin Owned(p)

(* A block is never in two valid buffers, whatever slept or was flushed    *)
(* between the scan of the hash chain and the assignment in getblk.        *)
UniqueBlock ==
  \A a, b \in Buf : blk[a] = blk[b] /\ blk[a] # NoBlock /\ a # b
                     => "STALE" \in flags[a] \/ "STALE" \in flags[b]

(* Every sleeper has its wakeup to come: a sleeper of getblk left B_WANTED *)
(* on a busy buffer, a sleeper of iowait has its transfer under way, and   *)
(* a sleeper for any buffer left B_WANTED on an empty available list.      *)
NoLostWakeup ==
  \A p \in Proc :
    /\ pc[p] = "bufwait" => {"BUSY", "WANTED"} \subseteq flags[cur[p]]
    /\ pc[p] = "iosleep" => cur[p] \in ioq /\ "ASYNC" \notin flags[cur[p]]
    /\ pc[p] = "freewait" => flWanted /\ freelist = <<>>

(* Whoever sleeps in getblk, geteblk, bread or bwrite is woken: breada     *)
(* holds one buffer while it waits for another, and no cycle of such       *)
(* waiters forms (bio.c: incore is there "to avoid getting hung up").      *)
SleepersWake == \A p \in Proc : pc[p] \in Asleep ~> pc[p] \notin Asleep

-----------------------------------------------------------------------------
(* Refinement                                                              *)

(* A buffer that speaks for its block: it was read or written, or its new  *)
(* contents are on their way to the disk. Else the disk does.              *)
Valid(b, k) ==
  b \in Match(k) /\ ("DONE" \in flags[b] \/ (b \in ioq /\ "READ" \notin flags[b]))

StoreValue ==
  [k \in Block |-> IF \E b \in Buf : Valid(b, k)
                   THEN data[CHOOSE b \in Buf : Valid(b, k)] ELSE disk[k]]

StoreOwner == [k \in Block |-> {p \in Proc : Match(k) \cap Owned(p) # {}}]

StoreView ==
  [p \in Proc |-> IF pc[p] = "use" /\ u[p].call = "bread" THEN data[cur[p]] ELSE Junk]

Store == INSTANCE BlockStore WITH
  NoView <- Junk, value <- StoreValue, owner <- StoreOwner, view <- StoreView

(* Reading through the cache returns the last write, while no transfer     *)
(* fails and no device is closed: eviction, delayed and asynchronous       *)
(* writes, read-ahead and the order in which the driver serves its queue   *)
(* cannot be told from a store without a cache.                            *)
Coherent == Store!StoreSpec
=============================================================================
