-------------------------- MODULE BufferCacheProof --------------------------
(***************************************************************************)
(* Proofs about the buffer cache, for any pool, set of blocks, devices and *)
(* processes, with transfers that fail and devices that are closed.        *)
(***************************************************************************)
EXTENDS BufferCache, SequenceTheorems, TLAPS

-----------------------------------------------------------------------------
(* The inductive invariant                                                 *)

OwnPC == {"got", "iowait", "iosleep", "use"}
GetPC == {"search", "woken", "claim", "bufwait", "freewait", "got", "aged"}
GetCalls == {"bread", "breada", "ra", "getblk", "geteblk"}
CurPC == OwnPC \cup {"claim", "bufwait", "aged", "asyncerr"}

(* The kernel is not preemptive.                                           *)
OneInKernel ==
  \A p, q \in Proc : pc[p] \in InKernel /\ pc[q] \in InKernel => p = q

(* The registers of a process name what the code expects of them.          *)
CurOK == \A p \in Proc : pc[p] \in CurPC => cur[p] \in Buf

CallOK ==
  \A p \in Proc :
    /\ pc[p] \in GetPC \ {"aged"} => u[p].call \in GetCalls
    /\ pc[p] = "aged" => u[p].call \in GetCalls \cup {"bawrite", "sync", "umount"}
    /\ pc[p] = "flush" => u[p].call \in {"sync", "umount"}
    /\ pc[p] = "readahead" => u[p].call \in {"breada", "ra"}
    /\ pc[p] \in GetPC \cup {"readahead"} /\ u[p].call \in GetCalls \ {"geteblk"}
         => u[p].want \in Block
    /\ pc[p] \in GetPC \cup {"readahead"} /\ u[p].call \in {"breada", "ra"}
         => u[p].first \in Block
    /\ pc[p] \in GetPC /\ u[p].call = "geteblk" => u[p].want = NoBlock
    /\ pc[p] \in {"claim", "got"} /\ u[p].call # "geteblk" => blk[cur[p]] \in Block

PrimOK ==
  \A p \in Proc :
    prim[p] # NoBuf =>
      /\ pc[p] # "readahead" =>
           u[p].call = "ra" /\ pc[p] \in GetPC
      /\ pc[p] = "got" => cur[p] # prim[p]

(* Who has a busy buffer, and what the disk may do with it.                *)
Exclusive == \A b \in Buf : \A p, q \in Proc : b \in Owned(p) /\ b \in Owned(q) => p = q

OwnedOK ==
  \A p \in Proc : \A b \in Owned(p) : "BUSY" \in flags[b] /\ "ASYNC" \notin flags[b]

BusyOK ==
  \A b \in Buf :
    /\ b \in ioq => "BUSY" \in flags[b] /\ "DONE" \notin flags[b] /\ blk[b] \in Block
    /\ b \in ioq /\ "READ" \notin flags[b] => data[b] \in Value
    /\ "ASYNC" \in flags[b] => b \in ioq
    /\ "DELWRI" \in flags[b] => blk[b] \in Block /\ data[b] \in Value /\ "DONE" \in flags[b]
    /\ "BUSY" \in flags[b] => "ASYNC" \in flags[b] \/ \E p \in Proc : b \in Owned(p)

HeldIdle == \A p \in Proc : pc[p] \in {"got", "use"} => cur[p] \notin ioq

(* What iowait waits for is under way.                                     *)
UnderWay(b) == "DONE" \in flags[b] \/ b \in ioq
WaitedFor ==
  \A p \in Proc : /\ pc[p] = "iowait" => UnderWay(cur[p])
                  /\ prim[p] # NoBuf => UnderWay(prim[p])

IInv ==
  /\ TypeOK /\ FreeIffNotBusy
  /\ OneInKernel /\ CurOK /\ CallOK /\ PrimOK
  /\ Exclusive /\ OwnedOK /\ BusyOK /\ HeldIdle /\ WaitedFor
  /\ UniqueBlock /\ NoLostWakeup

-----------------------------------------------------------------------------
(* Sequences without repetition                                            *)

NoRepeat(s) == \A i, j \in 1..Len(s) : s[i] = s[j] => i = j

LEMMA RemoveAtFacts ==
  ASSUME NEW S, NEW s \in Seq(S), NoRepeat(s), NEW i \in 1..Len(s)
  PROVE  /\ RemoveAt(s, i) \in Seq(S)
         /\ Len(RemoveAt(s, i)) = Len(s) - 1
         /\ ToSet(RemoveAt(s, i)) = ToSet(s) \ {s[i]}
         /\ NoRepeat(RemoveAt(s, i))
<1> DEFINE front == SubSeq(s, 1, i-1)
           back  == SubSeq(s, i+1, Len(s))
           r     == RemoveAt(s, i)
           n     == Len(s)
<1>0. n \in Nat /\ i \in Nat /\ 1 <= i /\ i <= n /\ \A j \in 1..n : s[j] \in S
  BY LenProperties, ElementOfSeq
<1>1. /\ front \in Seq(S) /\ Len(front) = i - 1
      /\ \A j \in 1..i-1 : front[j] = s[j]
  <2>1. \A j \in 1..i-1 : s[j] \in S
    BY <1>0
  <2>2. /\ front \in Seq(S) /\ Len(front) = (IF 1 <= i-1 THEN (i-1)-1+1 ELSE 0)
        /\ \A j \in 1..(i-1)-1+1 : front[j] = s[1+j-1]
    BY <2>1, <1>0, SubSeqProperties
  <2> QED
    BY <2>2, <1>0
<1>2. /\ back \in Seq(S) /\ Len(back) = n - i
      /\ \A j \in 1..n-i : back[j] = s[i+j]
  <2>1. \A j \in i+1..n : s[j] \in S
    BY <1>0
  <2>2. /\ back \in Seq(S) /\ Len(back) = (IF i+1 <= n THEN n-(i+1)+1 ELSE 0)
        /\ \A j \in 1..n-(i+1)+1 : back[j] = s[(i+1)+j-1]
    BY <2>1, <1>0, SubSeqProperties
  <2> QED
    BY <2>2, <1>0
<1>3. /\ r \in Seq(S) /\ Len(r) = n - 1
      /\ \A j \in 1..n-1 : r[j] = IF j < i THEN s[j] ELSE s[j+1]
  <2> HIDE DEF front, back
  <2>1. r = front \o back
    BY DEF RemoveAt, front, back
  <2>2. /\ front \o back \in Seq(S) /\ Len(front \o back) = Len(front) + Len(back)
        /\ \A j \in 1..Len(front) + Len(back) : (front \o back)[j] =
               IF j <= Len(front) THEN front[j] ELSE back[j - Len(front)]
    BY <1>1, <1>2, ConcatProperties
  <2> QED
    BY <2>1, <2>2, <1>0, <1>1, <1>2
<1>4. ToSet(r) = {r[j] : j \in 1..n-1} /\ ToSet(s) = {s[j] : j \in 1..n}
  BY <1>0, <1>3, LenProperties DEF ToSet
<1> HIDE DEF r
<1>5. ToSet(r) = ToSet(s) \ {s[i]}
  <2>1. ASSUME NEW x \in ToSet(r) PROVE x \in ToSet(s) \ {s[i]}
    <3>1. PICK j \in 1..n-1 : x = r[j]
      BY <1>4
    <3> QED
      BY <3>1, <1>0, <1>3, <1>4 DEF NoRepeat
  <2>2. ASSUME NEW x \in ToSet(s) \ {s[i]} PROVE x \in ToSet(r)
    <3>1. PICK j \in 1..n : x = s[j] /\ j # i
      BY <1>4
    <3>2. CASE j < i
      BY <3>1, <3>2, <1>0, <1>3, <1>4
    <3>3. CASE j > i
      <4>1. j-1 \in 1..n-1 /\ r[j-1] = s[j]
        BY <3>1, <3>3, <1>0, <1>3
      <4> QED
        BY <4>1, <3>1, <1>4
    <3> QED
      BY <3>1, <3>2, <3>3, <1>0
  <2> QED
    BY <2>1, <2>2
<1>6. NoRepeat(r)
  BY <1>0, <1>3 DEF NoRepeat
<1> QED
  BY <1>3, <1>5, <1>6 DEF r

LEMMA AppendFacts ==
  ASSUME NEW S, NEW s \in Seq(S), NoRepeat(s), NEW e \in S \ ToSet(s)
  PROVE  /\ Append(s, e) \in Seq(S)
         /\ Len(Append(s, e)) = Len(s) + 1
         /\ ToSet(Append(s, e)) = ToSet(s) \cup {e}
         /\ NoRepeat(Append(s, e))
<1> DEFINE r == Append(s, e)
<1>1. /\ r \in Seq(S) /\ Len(r) = Len(s) + 1 /\ Len(s) \in Nat
      /\ \A i \in 1..Len(s) : r[i] = s[i]
      /\ r[Len(s)+1] = e
  BY AppendProperties, LenProperties
<1>2. ToSet(r) = {r[j] : j \in 1..Len(s)+1} /\ ToSet(s) = {s[j] : j \in 1..Len(s)}
  BY <1>1, LenProperties DEF ToSet
<1> HIDE DEF r
<1>3. ToSet(r) = ToSet(s) \cup {e}
  BY <1>1, <1>2
<1>4. NoRepeat(r)
  BY <1>1, <1>2 DEF NoRepeat
<1> QED
  BY <1>1, <1>3, <1>4 DEF r

LEMMA PrependFacts ==
  ASSUME NEW S, NEW s \in Seq(S), NoRepeat(s), NEW e \in S \ ToSet(s)
  PROVE  /\ <<e>> \o s \in Seq(S)
         /\ Len(<<e>> \o s) = Len(s) + 1
         /\ ToSet(<<e>> \o s) = ToSet(s) \cup {e}
         /\ NoRepeat(<<e>> \o s)
<1> DEFINE r == <<e>> \o s
<1>1. /\ r \in Seq(S) /\ Len(r) = Len(s) + 1 /\ Len(s) \in Nat
      /\ r[1] = e
      /\ \A i \in 1..Len(s) : r[i+1] = s[i]
  <2>1. <<e>> \in Seq(S) /\ Len(<<e>>) = 1 /\ <<e>>[1] = e /\ Len(s) \in Nat
    BY LenProperties
  <2>2. /\ r \in Seq(S) /\ Len(r) = Len(<<e>>) + Len(s)
        /\ \A i \in 1..Len(<<e>>) + Len(s) : r[i] =
             IF i <= Len(<<e>>) THEN <<e>>[i] ELSE s[i - Len(<<e>>)]
    BY <2>1, ConcatProperties
  <2> QED
    BY <2>1, <2>2
<1>2. ToSet(r) = {r[j] : j \in 1..Len(s)+1} /\ ToSet(s) = {s[j] : j \in 1..Len(s)}
  BY <1>1, LenProperties DEF ToSet
<1> HIDE DEF r
<1>3. ToSet(r) = ToSet(s) \cup {e}
  <2>1. ASSUME NEW x \in ToSet(r) PROVE x \in ToSet(s) \cup {e}
    <3>1. PICK j \in 1..Len(s)+1 : x = r[j]
      BY <1>2
    <3>2. CASE j = 1
      BY <3>1, <3>2, <1>1
    <3>3. CASE j # 1
      <4>1. j-1 \in 1..Len(s) /\ r[(j-1)+1] = s[j-1] /\ (j-1)+1 = j
        BY <3>1, <3>3, <1>1
      <4> QED
        BY <4>1, <3>1, <1>2
    <3> QED
      BY <3>2, <3>3
  <2>2. ASSUME NEW x \in ToSet(s) \cup {e} PROVE x \in ToSet(r)
    BY <1>1, <1>2
  <2> QED
    BY <2>1, <2>2
<1>4. NoRepeat(r)
  <2>1. \A i \in 2..Len(s)+1 : i-1 \in 1..Len(s) /\ r[i] = s[i-1] /\ r[i] # e
    <3>1. \A i \in 2..Len(s)+1 : i-1 \in 1..Len(s) /\ r[(i-1)+1] = s[i-1] /\ (i-1)+1 = i
      BY <1>1
    <3> QED
      BY <3>1, <1>2
  <2>2. SUFFICES ASSUME NEW i \in 1..Len(s)+1, NEW j \in 1..Len(s)+1, r[i] = r[j]
                 PROVE  i = j
    BY <1>1 DEF NoRepeat
  <2>3. i = 1 \/ i \in 2..Len(s)+1
    BY <1>1
  <2>4. j = 1 \/ j \in 2..Len(s)+1
    BY <1>1
  <2>5. (i = 1 /\ j = 1) \/ (i \in 2..Len(s)+1 /\ j \in 2..Len(s)+1)
    BY <1>1, <2>1, <2>2, <2>3, <2>4
  <2>6. CASE i \in 2..Len(s)+1 /\ j \in 2..Len(s)+1
    <3>1. i-1 = j-1
      BY <2>1, <2>2, <2>6 DEF NoRepeat
    <3> QED
      BY <3>1, <1>1, <2>6
  <2> QED
    BY <2>5, <2>6
<1> QED
  BY <1>1, <1>3, <1>4 DEF r

-----------------------------------------------------------------------------
(* The available list                                                      *)

LEMMA NotavailFacts ==
  ASSUME TypeOK, FreeIffNotBusy, NEW i \in 1..Len(freelist), notavail(i),
         "BUSY" \in flags'[freelist[i]],
         \A b \in Buf \ {freelist[i]} : "BUSY" \in flags'[b] <=> "BUSY" \in flags[b]
  PROVE  FreeIffNotBusy' /\ freelist' \in Seq(Buf) /\ freecount' \in Nat
<1>1. freelist \in Seq(Buf) /\ NoRepeat(freelist) /\ Len(freelist) \in Nat
  BY LenProperties DEF TypeOK, FreeIffNotBusy, NoRepeat
<1>2. /\ freelist' \in Seq(Buf) /\ Len(freelist') = Len(freelist) - 1
      /\ ToSet(freelist') = ToSet(freelist) \ {freelist[i]} /\ NoRepeat(freelist')
  BY <1>1, RemoveAtFacts DEF notavail
<1>3. freelist[i] \in Buf
  BY <1>1, ElementOfSeq
<1> QED
  BY <1>1, <1>2, <1>3 DEF FreeIffNotBusy, notavail, NoRepeat

LEMMA BrelseFacts ==
  ASSUME TypeOK, FreeIffNotBusy, NEW b \in Buf, "BUSY" \in flags[b],
         NEW F \in SUBSET Flag, brelse(b, F)
  PROVE  /\ FreeIffNotBusy' /\ freelist' \in Seq(Buf) /\ freecount' \in Nat
         /\ flags' \in [Buf -> SUBSET Flag] /\ flags'[b] = ReleasedFlags(F)
         /\ \A c \in Buf \ {b} : flags'[c] = flags[c]
         /\ flWanted' = FALSE
<1>1. freelist \in Seq(Buf) /\ NoRepeat(freelist) /\ Len(freelist) \in Nat /\ b \notin ToSet(freelist)
  BY LenProperties DEF TypeOK, FreeIffNotBusy, NoRepeat
<1>2. /\ freelist' \in Seq(Buf) /\ Len(freelist') = Len(freelist) + 1
      /\ ToSet(freelist') = ToSet(freelist) \cup {b} /\ NoRepeat(freelist')
  BY <1>1, AppendFacts, PrependFacts DEF brelse
<1>3. /\ flags' \in [Buf -> SUBSET Flag] /\ flags'[b] = ReleasedFlags(F)
      /\ \A c \in Buf \ {b} : flags'[c] = flags[c]
  BY DEF TypeOK, brelse, ReleasedFlags, Flag
<1>4. "BUSY" \notin ReleasedFlags(F)
  BY DEF ReleasedFlags
<1> QED
  BY <1>1, <1>2, <1>3, <1>4 DEF FreeIffNotBusy, brelse, NoRepeat

LEMMA ListUnchanged ==
  ASSUME FreeIffNotBusy, UNCHANGED <<freelist, freecount>>,
         \A b \in Buf : "BUSY" \in flags'[b] <=> "BUSY" \in flags[b]
  PROVE  FreeIffNotBusy'
BY DEF FreeIffNotBusy

LEMMA WakeupFacts ==
  ASSUME TypeOK, NEW bs, NEW list
  PROVE  /\ Wakeup(bs, list) \in [Proc -> PC]
         /\ \A q \in Proc :
              \/ /\ Wakeup(bs, list)[q] = pc[q]
                 /\ ~(pc[q] \in {"iosleep", "bufwait"} /\ cur[q] \in bs)
                 /\ ~(pc[q] = "freewait" /\ list)
              \/ pc[q] = "iosleep" /\ Wakeup(bs, list)[q] = "iowait"
              \/ pc[q] \in {"bufwait", "freewait"} /\ Wakeup(bs, list)[q] = "woken"
BY DEF TypeOK, Wakeup, PC, InKernel, Asleep

-----------------------------------------------------------------------------
(* Every step preserves the invariant                                      *)

(* A step that leaves ownership, and the flags that ownership rests on.    *)
SameFlag(f) == \A b \in Buf : f \in flags'[b] <=> f \in flags[b]

LEMMA OwnershipKept ==
  ASSUME IInv, UNCHANGED <<blk, data, ioq>>,
         SameFlag("BUSY"), SameFlag("ASYNC"), SameFlag("DONE"), SameFlag("READ"), SameFlag("DELWRI"),
         \A q \in Proc : Owned(q)' = Owned(q),
         \A q \in Proc : pc'[q] \in {"got", "use"} => cur'[q] \notin ioq
  PROVE  Exclusive' /\ OwnedOK' /\ BusyOK' /\ HeldIdle'
<1>1. \A q \in Proc : Owned(q) \subseteq Buf
  BY DEF Owned
<1>2. Exclusive' /\ OwnedOK'
  BY <1>1 DEF IInv, Exclusive, OwnedOK, SameFlag
<1>3. BusyOK' /\ HeldIdle'
  BY <1>1 DEF IInv, BusyOK, HeldIdle, SameFlag
<1> QED
  BY <1>2, <1>3

LEMMA UniqueKept ==
  ASSUME IInv, UNCHANGED blk, \A b \in Buf : "STALE" \in flags[b] => "STALE" \in flags'[b]
  PROVE  UniqueBlock'
BY DEF IInv, UniqueBlock

(* The registers of p alone change, and it has the same buffers.           *)
RegTypeOK ==
  /\ pc \in [Proc -> PC]
  /\ cur \in [Proc -> Buf \cup {NoBuf}]
  /\ prim \in [Proc -> Buf \cup {NoBuf}]
  /\ u \in [Proc -> Frame]

Others(p) ==
  \A q \in Proc \ {p} : pc'[q] = pc[q] /\ cur'[q] = cur[q] /\ prim'[q] = prim[q] /\ u'[q] = u[q]

Monotone(f) == \A b \in Buf : f \in flags[b] => f \in flags'[b]

LEMMA QuietStep ==
  ASSUME IInv, NEW p \in Proc, UNCHANGED <<blk, data, freelist, freecount, ioq, disk>>,
         flags' \in [Buf -> SUBSET Flag], flWanted' \in BOOLEAN, flWanted => flWanted',
         SameFlag("BUSY"), SameFlag("ASYNC"), SameFlag("DONE"), SameFlag("READ"), SameFlag("DELWRI"),
         Monotone("STALE"), Monotone("WANTED"),
         RegTypeOK', Others(p), Owned(p)' = Owned(p), prim'[p] \in {prim[p], NoBuf},
         pc'[p] \in {"got", "use"} => cur'[p] \notin ioq,
         pc'[p] = "iowait" => UnderWay(cur'[p]),
         pc'[p] = "iosleep" => cur'[p] \in ioq /\ "ASYNC" \notin flags[cur'[p]],
         pc'[p] = "bufwait" => cur'[p] \in Buf /\ {"BUSY", "WANTED"} \subseteq flags'[cur'[p]],
         pc'[p] = "freewait" => flWanted' /\ freelist = <<>>,
         OneInKernel', CurOK', CallOK', PrimOK'
  PROVE  IInv'
<1>1. TypeOK' /\ FreeIffNotBusy'
  BY ListUnchanged DEF IInv, TypeOK, RegTypeOK, SameFlag
<1>2. \A q \in Proc : Owned(q)' = Owned(q)
  BY DEF IInv, TypeOK, Owned, Others
<1>3. Exclusive' /\ OwnedOK' /\ BusyOK' /\ HeldIdle'
  BY <1>2, OwnershipKept DEF IInv, TypeOK, HeldIdle, Others
<1>4. WaitedFor'
  <2>1. \A q \in Proc : /\ pc'[q] = "iowait" => cur'[q] \in Buf
                        /\ prim'[q] # NoBuf => prim'[q] \in Buf
    BY DEF RegTypeOK, CurOK, CurPC, OwnPC
  <2>2. \A b \in Buf : UnderWay(b)' <=> UnderWay(b)
    BY DEF UnderWay, SameFlag
  <2> QED
    BY <2>1, <2>2 DEF IInv, WaitedFor, Others
<1>5. UniqueBlock'
  BY UniqueKept DEF Monotone
<1>6. NoLostWakeup'
  <2>1. \A q \in Proc : pc'[q] \in {"bufwait", "iosleep"} => cur'[q] \in Buf
    BY DEF CurOK, CurPC, OwnPC
  <2> QED
    BY <2>1 DEF IInv, NoLostWakeup, Others, SameFlag, Monotone
<1> QED
  BY <1>1, <1>3, <1>4, <1>5, <1>6 DEF IInv

LEMMA RegistersOnly ==
  ASSUME IInv, NEW p \in Proc, UNCHANGED bufvars, RegTypeOK', Others(p),
         Owned(p)' = Owned(p),
         pc'[p] \in {"got", "use"} => cur'[p] \notin ioq,
         pc'[p] = "iowait" => UnderWay(cur'[p]), prim'[p] \in {prim[p], NoBuf},
         pc'[p] \in Asleep => pc'[p] = "iosleep" /\ cur'[p] \in ioq /\ "ASYNC" \notin flags[cur'[p]],
         OneInKernel', CurOK', CallOK', PrimOK'
  PROVE  IInv'
BY QuietStep DEF IInv, TypeOK, Asleep, bufvars, SameFlag, Monotone, UnderWay

LEMMA NoCallErr == ASSUME NEW e \in BOOLEAN PROVE [NoCall EXCEPT !.err = e] \in Frame
<1>1. NoCall \in Frame
  BY DEF NoCall, Frame
<1> QED
  BY <1>1 DEF Frame

LEMMA FrameFacts ==
  ASSUME NEW f \in Frame, NEW e \in BOOLEAN
  PROVE  [f EXCEPT !.ra = NoBlock] \in Frame /\ [f EXCEPT !.err = e] \in Frame
BY DEF Frame

LEMMA GetblkFoundStep == ASSUME IInv, NEW p \in Proc, GetblkFound(p) PROVE IInv'
<1> USE DEF GetblkFound, AtLoop, Running, Match
<1>1. OneInKernel' /\ CurOK' /\ CallOK' /\ PrimOK'
  BY DEF IInv, TypeOK, OneInKernel, CurOK, CallOK, PrimOK, bufvars,
         InKernel, CurPC, OwnPC, GetPC, GetCalls
<1>2. RegTypeOK'
  BY BlockAssumption DEF IInv, TypeOK, RegTypeOK, CallOK, PC, InKernel, Asleep, Frame, Routine, bufvars
<1>3. Owned(p)' = Owned(p)
  BY DEF IInv, TypeOK, Owned, PrimOK, GetPC
<1>4. Others(p)
  BY DEF IInv, TypeOK, Others
<1> QED
  BY <1>1, <1>2, <1>3, <1>4, RegistersOnly
  DEF IInv, TypeOK, HeldIdle, WaitedFor, UnderWay, OwnedOK, Owned, CurOK, CurPC, OwnPC, Asleep, bufvars

LEMMA GetblkReturnStep == ASSUME IInv, NEW p \in Proc, GetblkReturn(p) PROVE IInv'
<1> USE DEF GetblkReturn
<1>1. OneInKernel' /\ CurOK' /\ CallOK' /\ PrimOK'
  BY DEF IInv, TypeOK, OneInKernel, CurOK, CallOK, PrimOK, bufvars,
         InKernel, CurPC, OwnPC, GetPC, GetCalls
<1>2. RegTypeOK'
  BY BlockAssumption DEF IInv, TypeOK, RegTypeOK, CallOK, PC, InKernel, Asleep, Frame, Routine, bufvars
<1>3. Owned(p)' = Owned(p)
  BY DEF IInv, TypeOK, Owned, PrimOK, GetPC
<1>4. Others(p)
  BY DEF IInv, TypeOK, Others
<1> QED
  BY <1>1, <1>2, <1>3, <1>4, RegistersOnly
  DEF IInv, TypeOK, HeldIdle, WaitedFor, UnderWay, OwnedOK, Owned, CurOK, CurPC, OwnPC, Asleep, bufvars

LEMMA GetblkStep == ASSUME IInv, NEW p \in Proc, NEW k \in Block, Getblk(p, k) PROVE IInv'
<1> USE DEF Getblk, NewCall, Running, NoCall
<1>1. OneInKernel' /\ CurOK' /\ CallOK' /\ PrimOK'
  BY DEF IInv, TypeOK, OneInKernel, CurOK, CallOK, PrimOK, bufvars,
         InKernel, CurPC, OwnPC, GetPC, GetCalls
<1>2. RegTypeOK'
  BY BlockAssumption DEF IInv, TypeOK, RegTypeOK, CallOK, PC, InKernel, Asleep, Frame, Routine, bufvars
<1>3. Owned(p)' = Owned(p)
  BY DEF IInv, TypeOK, Owned, PrimOK, GetPC
<1>4. Others(p)
  BY DEF IInv, TypeOK, Others
<1> QED
  BY <1>1, <1>2, <1>3, <1>4, RegistersOnly
  DEF IInv, TypeOK, HeldIdle, WaitedFor, UnderWay, OwnedOK, Owned, CurOK, CurPC, OwnPC, Asleep, bufvars

LEMMA GeteblkStep == ASSUME IInv, NEW p \in Proc, Geteblk(p) PROVE IInv'
<1> USE DEF Geteblk, NewCall, Running, NoCall
<1>1. OneInKernel' /\ CurOK' /\ CallOK' /\ PrimOK'
  BY DEF IInv, TypeOK, OneInKernel, CurOK, CallOK, PrimOK, bufvars,
         InKernel, CurPC, OwnPC, GetPC, GetCalls
<1>2. RegTypeOK'
  BY BlockAssumption DEF IInv, TypeOK, RegTypeOK, CallOK, PC, InKernel, Asleep, Frame, Routine, bufvars
<1>3. Owned(p)' = Owned(p)
  BY DEF IInv, TypeOK, Owned, PrimOK, GetPC
<1>4. Others(p)
  BY DEF IInv, TypeOK, Others
<1> QED
  BY <1>1, <1>2, <1>3, <1>4, RegistersOnly
  DEF IInv, TypeOK, HeldIdle, WaitedFor, UnderWay, OwnedOK, Owned, CurOK, CurPC, OwnPC, Asleep, bufvars

LEMMA BreadStep == ASSUME IInv, NEW p \in Proc, NEW k \in Block, Bread(p, k) PROVE IInv'
<1> USE DEF Bread, NewCall, Running, NoCall
<1>1. OneInKernel' /\ CurOK' /\ CallOK' /\ PrimOK'
  BY DEF IInv, TypeOK, OneInKernel, CurOK, CallOK, PrimOK, bufvars,
         InKernel, CurPC, OwnPC, GetPC, GetCalls
<1>2. RegTypeOK'
  BY BlockAssumption DEF IInv, TypeOK, RegTypeOK, CallOK, PC, InKernel, Asleep, Frame, Routine, bufvars
<1>3. Owned(p)' = Owned(p)
  BY DEF IInv, TypeOK, Owned, PrimOK, GetPC
<1>4. Others(p)
  BY DEF IInv, TypeOK, Others
<1> QED
  BY <1>1, <1>2, <1>3, <1>4, RegistersOnly
  DEF IInv, TypeOK, HeldIdle, WaitedFor, UnderWay, OwnedOK, Owned, CurOK, CurPC, OwnPC, Asleep, bufvars

LEMMA BreadaStep == ASSUME IInv, NEW p \in Proc, NEW k \in Block, NEW r \in Block \cup {NoBlock}, Breada(p, k, r) PROVE IInv'
<1> USE DEF Breada, NewCall, Running, NoCall
<1>1. OneInKernel' /\ CurOK' /\ CallOK' /\ PrimOK'
  BY DEF IInv, TypeOK, OneInKernel, CurOK, CallOK, PrimOK, bufvars,
         InKernel, CurPC, OwnPC, GetPC, GetCalls
<1>2. RegTypeOK'
  BY BlockAssumption DEF IInv, TypeOK, RegTypeOK, CallOK, PC, InKernel, Asleep, Frame, Routine, bufvars
<1>3. Owned(p)' = Owned(p)
  BY DEF IInv, TypeOK, Owned, PrimOK, GetPC
<1>4. Others(p)
  BY DEF IInv, TypeOK, Others
<1> QED
  BY <1>1, <1>2, <1>3, <1>4, RegistersOnly
  DEF IInv, TypeOK, HeldIdle, WaitedFor, UnderWay, OwnedOK, Owned, CurOK, CurPC, OwnPC, Asleep, bufvars

LEMMA ReadaheadStep == ASSUME IInv, NEW p \in Proc, Readahead(p) PROVE IInv'
<1> USE DEF Readahead, WantsReadahead
<1>0. /\ u'[p] \in Frame /\ u'[p].call = "ra" /\ u'[p].want = u[p].ra /\ u'[p].first = u[p].first
      /\ u[p].ra \in Block /\ \A q \in Proc \ {p} : u'[q] = u[q]
  BY DEF IInv, TypeOK, Frame, Routine
<1>1. OneInKernel' /\ CurOK' /\ CallOK' /\ PrimOK'
  BY <1>0 DEF IInv, TypeOK, OneInKernel, CurOK, CallOK, PrimOK, bufvars,
         InKernel, CurPC, OwnPC, GetPC, GetCalls
<1>2. RegTypeOK'
  BY <1>0 DEF IInv, TypeOK, RegTypeOK, CallOK, PC, InKernel, Asleep, Frame, Routine, bufvars
<1>3. Owned(p)' = Owned(p)
  BY DEF IInv, TypeOK, Owned, PrimOK, GetPC
<1>4. Others(p)
  BY DEF IInv, TypeOK, Others
<1> QED
  BY <1>1, <1>2, <1>3, <1>4, RegistersOnly
  DEF IInv, TypeOK, HeldIdle, WaitedFor, UnderWay, OwnedOK, Owned, CurOK, CurPC, OwnPC, Asleep, bufvars

LEMMA ReadaheadDoneStep == ASSUME IInv, NEW p \in Proc, ReadaheadDone(p) PROVE IInv'
<1> USE DEF ReadaheadDone, WantsReadahead
<1>0. /\ u'[p].call = "bread" /\ u'[p].want = u[p].first /\ u[p].first \in Block
      /\ \A q \in Proc \ {p} : u'[q] = u[q] /\ pc'[q] = pc[q]
      /\ pc'[p] = IF prim[p] = NoBuf THEN "search" ELSE "iowait"
  BY DEF IInv, TypeOK, CallOK, Frame
<1>1. OneInKernel' /\ CurOK' /\ CallOK' /\ PrimOK'
  <2>1. OneInKernel'
    BY <1>0 DEF IInv, OneInKernel, InKernel
  <2>2. CurOK'
    BY <1>0 DEF IInv, TypeOK, CurOK, CurPC, OwnPC
  <2>3. CallOK'
    BY <1>0 DEF IInv, TypeOK, CallOK, GetPC, GetCalls, bufvars
  <2>4. PrimOK'
    BY <1>0 DEF IInv, TypeOK, PrimOK, GetPC
  <2> QED
    BY <2>1, <2>2, <2>3, <2>4
<1>2. RegTypeOK'
  BY BlockAssumption DEF IInv, TypeOK, RegTypeOK, CallOK, PC, InKernel, Asleep, Frame, Routine, bufvars
<1>3. Owned(p)' = Owned(p)
  BY NBufAssumption DEF IInv, TypeOK, Owned, PrimOK, GetPC, Buf, NoBuf
<1>4. Others(p)
  BY DEF IInv, TypeOK, Others
<1> QED
  BY <1>1, <1>2, <1>3, <1>4, RegistersOnly
  DEF IInv, TypeOK, HeldIdle, WaitedFor, UnderWay, OwnedOK, Owned, CurOK, CurPC, OwnPC, Asleep, bufvars

LEMMA IowaitSleepStep == ASSUME IInv, NEW p \in Proc, IowaitSleep(p) PROVE IInv'
<1> USE DEF IowaitSleep, Running
<1>1. OneInKernel' /\ CurOK' /\ CallOK' /\ PrimOK'
  BY DEF IInv, TypeOK, OneInKernel, CurOK, CallOK, PrimOK, bufvars,
         InKernel, CurPC, OwnPC, GetPC, GetCalls
<1>2. RegTypeOK'
  BY BlockAssumption DEF IInv, TypeOK, RegTypeOK, CallOK, PC, InKernel, Asleep, Frame, Routine, bufvars
<1>3. Owned(p)' = Owned(p)
  BY DEF IInv, TypeOK, Owned, PrimOK, GetPC
<1>4. Others(p)
  BY DEF IInv, TypeOK, Others
<1> QED
  BY <1>1, <1>2, <1>3, <1>4, RegistersOnly
  DEF IInv, TypeOK, HeldIdle, WaitedFor, UnderWay, OwnedOK, Owned, CurOK, CurPC, OwnPC, Asleep, bufvars

LEMMA AsyncErrorStep == ASSUME IInv, NEW p \in Proc, AsyncError(p) PROVE IInv'
<1> USE DEF AsyncError
<1>0. [NoCall EXCEPT !.err = "ERROR" \in flags[cur[p]]] \in Frame
  BY NoCallErr, ("ERROR" \in flags[cur[p]]) \in BOOLEAN, Zenon
<1>1. OneInKernel' /\ CurOK' /\ CallOK' /\ PrimOK'
  BY DEF IInv, TypeOK, OneInKernel, CurOK, CallOK, PrimOK, bufvars,
         InKernel, CurPC, OwnPC, GetPC, GetCalls
<1>2. RegTypeOK'
  BY <1>0 DEF IInv, TypeOK, RegTypeOK, PC, bufvars
<1>3. Owned(p)' = Owned(p)
  BY DEF IInv, TypeOK, Owned, PrimOK, GetPC
<1>4. Others(p)
  BY DEF IInv, TypeOK, Others
<1> QED
  BY <1>1, <1>2, <1>3, <1>4, RegistersOnly
  DEF IInv, TypeOK, HeldIdle, WaitedFor, UnderWay, OwnedOK, Owned, CurOK, CurPC, OwnPC, Asleep, bufvars

LEMMA SyncStep == ASSUME IInv, NEW p \in Proc, Sync(p) PROVE IInv'
<1> USE DEF Sync, NewCall, Running, NoCall
<1>1. OneInKernel' /\ CurOK' /\ CallOK' /\ PrimOK'
  BY DEF IInv, TypeOK, OneInKernel, CurOK, CallOK, PrimOK, bufvars,
         InKernel, CurPC, OwnPC, GetPC, GetCalls
<1>2. RegTypeOK'
  BY BlockAssumption DEF IInv, TypeOK, RegTypeOK, CallOK, PC, InKernel, Asleep, Frame, Routine, bufvars
<1>3. Owned(p)' = Owned(p)
  BY DEF IInv, TypeOK, Owned, PrimOK, GetPC
<1>4. Others(p)
  BY DEF IInv, TypeOK, Others
<1> QED
  BY <1>1, <1>2, <1>3, <1>4, RegistersOnly
  DEF IInv, TypeOK, HeldIdle, WaitedFor, UnderWay, OwnedOK, Owned, CurOK, CurPC, OwnPC, Asleep, bufvars

LEMMA UmountStep == ASSUME IInv, NEW p \in Proc, NEW k \in Block, Umount(p, k) PROVE IInv'
<1> USE DEF Umount, NewCall, Running, NoCall
<1>1. OneInKernel' /\ CurOK' /\ CallOK' /\ PrimOK'
  BY DEF IInv, TypeOK, OneInKernel, CurOK, CallOK, PrimOK, bufvars,
         InKernel, CurPC, OwnPC, GetPC, GetCalls
<1>2. RegTypeOK'
  BY BlockAssumption DEF IInv, TypeOK, RegTypeOK, CallOK, PC, InKernel, Asleep, Frame, Routine, bufvars
<1>3. Owned(p)' = Owned(p)
  BY DEF IInv, TypeOK, Owned, PrimOK, GetPC
<1>4. Others(p)
  BY DEF IInv, TypeOK, Others
<1> QED
  BY <1>1, <1>2, <1>3, <1>4, RegistersOnly
  DEF IInv, TypeOK, HeldIdle, WaitedFor, UnderWay, OwnedOK, Owned, CurOK, CurPC, OwnPC, Asleep, bufvars

LEMMA FlushDoneStep == ASSUME IInv, NEW p \in Proc, FlushDone(p) PROVE IInv'
<1> USE DEF FlushDone, NoCall
<1>1. OneInKernel' /\ CurOK' /\ CallOK' /\ PrimOK'
  BY DEF IInv, TypeOK, OneInKernel, CurOK, CallOK, PrimOK, bufvars,
         InKernel, CurPC, OwnPC, GetPC, GetCalls
<1>2. RegTypeOK'
  BY BlockAssumption DEF IInv, TypeOK, RegTypeOK, CallOK, PC, InKernel, Asleep, Frame, Routine, bufvars
<1>3. Owned(p)' = Owned(p)
  BY DEF IInv, TypeOK, Owned, PrimOK, GetPC
<1>4. Others(p)
  BY DEF IInv, TypeOK, Others
<1> QED
  BY <1>1, <1>2, <1>3, <1>4, RegistersOnly
  DEF IInv, TypeOK, HeldIdle, WaitedFor, UnderWay, OwnedOK, Owned, CurOK, CurPC, OwnPC, Asleep, bufvars

LEMMA GetblkBusyStep == ASSUME IInv, NEW p \in Proc, GetblkBusy(p) PROVE IInv'
<1> USE DEF GetblkBusy
<1>1. OneInKernel' /\ CurOK' /\ CallOK' /\ PrimOK'
  BY DEF IInv, TypeOK, OneInKernel, CurOK, CallOK, PrimOK, InKernel, CurPC, OwnPC, GetPC, GetCalls
<1>2. RegTypeOK'
  BY DEF IInv, TypeOK, RegTypeOK, PC, InKernel, Asleep
<1>3. Owned(p)' = Owned(p) /\ Others(p)
  BY NBufAssumption DEF IInv, TypeOK, Owned, PrimOK, Others, GetPC, Buf, NoBuf
<1>4. /\ flags' \in [Buf -> SUBSET Flag]
      /\ SameFlag("BUSY") /\ SameFlag("ASYNC") /\ SameFlag("DONE") /\ SameFlag("READ")
      /\ SameFlag("DELWRI") /\ Monotone("STALE") /\ Monotone("WANTED")
  BY DEF IInv, TypeOK, SameFlag, Monotone, Flag
<1> QED
  BY <1>1, <1>2, <1>3, <1>4, QuietStep DEF IInv, TypeOK, CurOK, CurPC

LEMMA FreelistEmptyStep == ASSUME IInv, NEW p \in Proc, FreelistEmpty(p) PROVE IInv'
<1> USE DEF FreelistEmpty, AtLoop, Running
<1>1. OneInKernel' /\ CurOK' /\ CallOK' /\ PrimOK'
  BY DEF IInv, TypeOK, OneInKernel, CurOK, CallOK, PrimOK, InKernel, CurPC, OwnPC, GetPC, GetCalls
<1>2. RegTypeOK'
  BY DEF IInv, TypeOK, RegTypeOK, PC, InKernel, Asleep
<1>3. Owned(p)' = Owned(p) /\ Others(p)
  BY NBufAssumption DEF IInv, TypeOK, Owned, PrimOK, Others, GetPC, Buf, NoBuf
<1>4. /\ flags' \in [Buf -> SUBSET Flag]
      /\ SameFlag("BUSY") /\ SameFlag("ASYNC") /\ SameFlag("DONE") /\ SameFlag("READ")
      /\ SameFlag("DELWRI") /\ Monotone("STALE") /\ Monotone("WANTED")
  BY DEF IInv, TypeOK, SameFlag, Monotone, Flag
<1> QED
  BY <1>1, <1>2, <1>3, <1>4, QuietStep DEF IInv, TypeOK, CurOK, CurPC

LEMMA AgeMarkStep == ASSUME IInv, NEW p \in Proc, AgeMark(p) PROVE IInv'
<1> USE DEF AgeMark
<1>1. OneInKernel' /\ CurOK' /\ CallOK' /\ PrimOK'
  BY DEF IInv, TypeOK, OneInKernel, CurOK, CallOK, PrimOK, InKernel, CurPC, OwnPC, GetPC, GetCalls
<1>2. RegTypeOK'
  BY DEF IInv, TypeOK, RegTypeOK, PC, InKernel, Asleep, NoCall, Frame
<1>3. Owned(p)' = Owned(p) /\ Others(p)
  BY NBufAssumption DEF IInv, TypeOK, Owned, PrimOK, Others, GetPC, Buf, NoBuf
<1>4. /\ flags' \in [Buf -> SUBSET Flag]
      /\ SameFlag("BUSY") /\ SameFlag("ASYNC") /\ SameFlag("DONE") /\ SameFlag("READ")
      /\ SameFlag("DELWRI") /\ Monotone("STALE") /\ Monotone("WANTED")
  BY DEF IInv, TypeOK, SameFlag, Monotone, Flag
<1> QED
  BY <1>1, <1>2, <1>3, <1>4, QuietStep DEF IInv, TypeOK, CurOK, CurPC

LEMMA BinvalStep == ASSUME IInv, NEW p \in Proc, Binval(p) PROVE IInv'
<1> USE DEF Binval
<1>1. OneInKernel' /\ CurOK' /\ CallOK' /\ PrimOK'
  BY DEF IInv, TypeOK, OneInKernel, CurOK, CallOK, PrimOK, InKernel, CurPC, OwnPC, GetPC, GetCalls
<1>2. RegTypeOK'
  BY DEF IInv, TypeOK, RegTypeOK, PC, InKernel, Asleep, NoCall, Frame
<1>3. Owned(p)' = Owned(p) /\ Others(p)
  BY NBufAssumption DEF IInv, TypeOK, Owned, PrimOK, Others, GetPC, Buf, NoBuf
<1>4. /\ flags' \in [Buf -> SUBSET Flag]
      /\ SameFlag("BUSY") /\ SameFlag("ASYNC") /\ SameFlag("DONE") /\ SameFlag("READ")
      /\ SameFlag("DELWRI") /\ Monotone("STALE") /\ Monotone("WANTED")
  BY DEF IInv, TypeOK, SameFlag, Monotone, Flag
<1> QED
  BY <1>1, <1>2, <1>3, <1>4, QuietStep DEF IInv, TypeOK, CurOK, CurPC

(* The transfer of a buffer that p has and that is not B_DONE is started;  *)
(* with B_ASYNC, p gives the buffer up.                                    *)
LEMMA StartReadFacts ==
  ASSUME IInv, NEW p \in Proc, NEW fs \in SUBSET {"ASYNC"}, pc[p] = "got", StartRead(cur[p], fs),
         "DONE" \notin flags[cur[p]], blk[cur[p]] \in Block,
         UNCHANGED <<blk, data, freelist, freecount, flWanted, disk>>,
         RegTypeOK', Others(p), OneInKernel', CurOK', CallOK', PrimOK',
         fs = {} => Owned(p)' = Owned(p),
         fs # {} => Owned(p)' = Owned(p) \ {cur[p]},
         pc'[p] \in {"iowait", "readahead"},
         pc'[p] = "iowait" => cur'[p] = cur[p],
         prim'[p] \in {prim[p], cur[p]}
  PROVE  IInv'
<1> DEFINE c == cur[p]
<1>1. /\ c \in Buf /\ c \in Owned(p) /\ "BUSY" \in flags[c] /\ "ASYNC" \notin flags[c]
      /\ c \notin ioq
  BY DEF IInv, CurOK, CurPC, OwnPC, Owned, OwnedOK, HeldIdle
<1>2. /\ flags' \in [Buf -> SUBSET Flag] /\ flags'[c] = flags[c] \cup {"READ"} \cup fs
      /\ \A b \in Buf \ {c} : flags'[b] = flags[b]
      /\ ioq' = ioq \cup {c} /\ ioq' \subseteq Buf
  BY <1>1 DEF IInv, TypeOK, StartRead, Flag
<1> HIDE DEF c
<1>3. TypeOK' /\ FreeIffNotBusy'
  BY <1>1, <1>2, ListUnchanged DEF IInv, TypeOK, RegTypeOK
<1>4. /\ \A q \in Proc \ {p} : Owned(q)' = Owned(q) /\ c \notin Owned(q)
      /\ \A q \in Proc : Owned(q) \subseteq Buf
  BY <1>1 DEF IInv, TypeOK, Exclusive, Owned, Others
<1>5. Exclusive' /\ OwnedOK'
  <2>1. \A q \in Proc : Owned(q)' \subseteq Owned(q)
    BY <1>4
  <2>2. Exclusive'
    BY <2>1 DEF IInv, Exclusive
  <2>3. OwnedOK'
    <3> SUFFICES ASSUME NEW q \in Proc, NEW b \in Owned(q)'
                 PROVE  "BUSY" \in flags'[b] /\ "ASYNC" \notin flags'[b]
      BY DEF OwnedOK
    <3>1. b \in Buf /\ b \in Owned(q) /\ "BUSY" \in flags[b] /\ "ASYNC" \notin flags[b]
      BY <1>4, <2>1 DEF IInv, OwnedOK
    <3>2. CASE b = c
      BY <3>1, <3>2, <1>2, <1>4 DEF c
    <3>3. CASE b # c
      BY <3>1, <3>3, <1>2
    <3> QED
      BY <3>2, <3>3
  <2> QED
    BY <2>2, <2>3
<1>6. BusyOK'
  <2> SUFFICES ASSUME NEW b \in Buf
               PROVE  /\ b \in ioq' => "BUSY" \in flags'[b] /\ "DONE" \notin flags'[b] /\ blk[b] \in Block
                      /\ b \in ioq' /\ "READ" \notin flags'[b] => data[b] \in Value
                      /\ "ASYNC" \in flags'[b] => b \in ioq'
                      /\ "DELWRI" \in flags'[b] => blk[b] \in Block /\ data[b] \in Value /\ "DONE" \in flags'[b]
                      /\ "BUSY" \in flags'[b] => "ASYNC" \in flags'[b] \/ \E q \in Proc : b \in Owned(q)'
    BY DEF BusyOK
  <2>1. CASE b = c
    BY <2>1, <1>1, <1>2 DEF IInv, BusyOK, c
  <2>2. CASE b # c
    BY <2>2, <1>2, <1>4 DEF IInv, BusyOK, c
  <2> QED
    BY <2>1, <2>2
<1>7. HeldIdle' /\ WaitedFor'
  <2>1. \A q \in Proc \ {p} : pc[q] \in {"got", "use"} => cur[q] # c
    BY <1>4 DEF IInv, CurOK, CurPC, OwnPC, Owned
  <2>2. HeldIdle'
    BY <2>1, <1>2 DEF IInv, HeldIdle, Others
  <2>3. \A b \in Buf : UnderWay(b) => "DONE" \in flags'[b] \/ b \in ioq'
    <3> SUFFICES ASSUME NEW b \in Buf, UnderWay(b) PROVE "DONE" \in flags'[b] \/ b \in ioq'
      OBVIOUS
    <3> QED
      BY <1>2 DEF UnderWay
  <2>4. c \in ioq'
    BY <1>2
  <2>5. \A q \in Proc : (pc[q] = "iowait" => cur[q] \in Buf) /\ (prim[q] # NoBuf => prim[q] \in Buf)
    BY DEF IInv, TypeOK, CurOK, CurPC, OwnPC
  <2> QED
    BY <2>2, <2>3, <2>4, <2>5 DEF IInv, WaitedFor, UnderWay, Others, c
<1>8. UniqueBlock' /\ NoLostWakeup'
  <2>1. UniqueBlock'
    BY <1>2, UniqueKept
  <2>2. \A q \in Proc \ {p} : pc[q] = "iosleep" => cur[q] # c
    BY <1>4 DEF IInv, CurOK, CurPC, OwnPC, Owned
  <2>3. \A q \in Proc : pc[q] \in {"bufwait", "iosleep"} => cur[q] \in Buf
    BY DEF IInv, CurOK, CurPC, OwnPC
  <2> QED
    BY <2>1, <2>2, <2>3, <1>2 DEF IInv, NoLostWakeup, Others
<1> QED
  BY <1>3, <1>5, <1>6, <1>7, <1>8 DEF IInv

LEMMA BreadGotStep == ASSUME IInv, NEW p \in Proc, BreadGot(p) PROVE IInv'
<1> USE DEF BreadGot
<1>1. OneInKernel' /\ CurOK' /\ CallOK' /\ PrimOK'
  <2>1. /\ pc'[p] \in {"use", "iowait"}
        /\ \A q \in Proc \ {p} : pc'[q] = pc[q]
        /\ cur' = cur /\ prim' = prim /\ u' = u /\ blk' = blk
    BY DEF IInv, TypeOK
  <2>2. CallOK' /\ PrimOK'
    BY <2>1 DEF IInv, CallOK, PrimOK, GetPC, GetCalls
  <2> QED
    BY <2>1, <2>2 DEF IInv, OneInKernel, CurOK, InKernel, CurPC, OwnPC
<1>2. RegTypeOK' /\ Others(p) /\ Owned(p)' = Owned(p)
  BY DEF IInv, TypeOK, RegTypeOK, PC, Others, Owned
<1>3. blk[cur[p]] \in Block /\ cur[p] \notin ioq
  BY DEF IInv, CallOK, HeldIdle
<1>4. CASE "DONE" \in flags[cur[p]]
  BY <1>1, <1>2, <1>3, <1>4, RegistersOnly DEF bufvars, Asleep, IInv, TypeOK
<1>5. CASE "DONE" \notin flags[cur[p]]
  BY <1>1, <1>2, <1>3, <1>5, StartReadFacts DEF IInv, TypeOK
<1> QED
  BY <1>4, <1>5

LEMMA BreadaGotStep == ASSUME IInv, NEW p \in Proc, BreadaGot(p) PROVE IInv'
<1> USE DEF BreadaGot
<1>1. OneInKernel' /\ CurOK' /\ CallOK' /\ PrimOK'
  BY DEF IInv, TypeOK, OneInKernel, CurOK, CallOK, PrimOK, InKernel, CurPC, OwnPC, GetPC, GetCalls
<1>2. RegTypeOK' /\ Others(p)
  BY DEF IInv, TypeOK, RegTypeOK, PC, InKernel, CurOK, CurPC, OwnPC, Others
<1>3. blk[cur[p]] \in Block /\ cur[p] \notin ioq /\ cur[p] \in Buf /\ prim[p] = NoBuf
  BY DEF IInv, CallOK, HeldIdle, CurOK, CurPC, OwnPC, PrimOK
<1>4. Owned(p)' = Owned(p)
  BY <1>3, NBufAssumption DEF IInv, TypeOK, Owned, Buf, NoBuf
<1>5. CASE "DONE" \in flags[cur[p]]
  <2>1. /\ SameFlag("BUSY") /\ SameFlag("ASYNC") /\ SameFlag("DONE") /\ SameFlag("READ")
        /\ SameFlag("DELWRI") /\ Monotone("STALE") /\ Monotone("WANTED")
    BY <1>5 DEF SameFlag, Monotone
  <2>2. \A q \in Proc : Owned(q)' = Owned(q)
    BY <1>4, <1>2 DEF Owned, Others
  <2>3. Exclusive' /\ OwnedOK' /\ BusyOK' /\ HeldIdle'
    BY <1>5, <2>1, <2>2, OwnershipKept DEF IInv, TypeOK, HeldIdle
  <2>4. TypeOK' /\ FreeIffNotBusy' /\ UniqueBlock'
    BY <1>2, <1>5, UniqueKept DEF IInv, TypeOK, RegTypeOK, FreeIffNotBusy
  <2>5. WaitedFor' /\ NoLostWakeup'
    BY <1>2, <1>3, <1>5 DEF IInv, TypeOK, WaitedFor, UnderWay, NoLostWakeup, Others
  <2> QED
    BY <1>1, <2>3, <2>4, <2>5 DEF IInv
<1>6. CASE "DONE" \notin flags[cur[p]]
  BY <1>1, <1>2, <1>3, <1>4, <1>6, StartReadFacts DEF IInv, TypeOK
<1> QED
  BY <1>5, <1>6

(* A buffer on the list is nobody's, and no transfer has it.               *)
LEMMA FreeBuffer ==
  ASSUME IInv, NEW i \in 1..Len(freelist)
  PROVE  /\ freelist[i] \in Buf
         /\ "BUSY" \notin flags[freelist[i]] /\ "ASYNC" \notin flags[freelist[i]]
         /\ freelist[i] \notin ioq
         /\ \A q \in Proc : /\ freelist[i] \notin Owned(q)
                            /\ pc[q] # "freewait"
                            /\ pc[q] \in {"bufwait", "iosleep"} => cur[q] # freelist[i]
<1>1. freelist \in Seq(Buf) /\ freelist[i] \in Buf /\ freelist # <<>>
  BY ElementOfSeq, LenProperties DEF IInv, TypeOK
<1>2. freelist[i] \in ToSet(freelist)
  BY <1>1, LenProperties DEF ToSet
<1>3. "BUSY" \notin flags[freelist[i]]
  BY <1>2 DEF IInv, FreeIffNotBusy
<1> QED
  BY <1>1, <1>3 DEF IInv, BusyOK, OwnedOK, NoLostWakeup

LEMMA FlushAsyncFacts ==
  ASSUME IInv, NEW p \in Proc, NEW i \in 1..Len(freelist), FlushAsync(i),
         "DELWRI" \in flags[freelist[i]], UNCHANGED <<blk, data, flWanted, disk>>,
         RegTypeOK', Others(p), OneInKernel', CurOK', CallOK', PrimOK',
         Owned(p)' = Owned(p), pc'[p] = "aged", prim'[p] = prim[p]
  PROVE  IInv'
<1> DEFINE b == freelist[i]
<1>1. /\ b \in Buf /\ "BUSY" \notin flags[b] /\ "ASYNC" \notin flags[b] /\ b \notin ioq
      /\ \A q \in Proc : /\ b \notin Owned(q) /\ pc[q] # "freewait"
                         /\ pc[q] \in {"bufwait", "iosleep"} => cur[q] # b
  BY FreeBuffer
<1>2. /\ flags' \in [Buf -> SUBSET Flag] /\ flags'[b] = WriteFlags(flags[b] \cup {"BUSY", "ASYNC"})
      /\ \A c \in Buf \ {b} : flags'[c] = flags[c]
      /\ ioq' = ioq \cup {b} /\ ioq' \subseteq Buf /\ notavail(i)
  BY <1>1 DEF IInv, TypeOK, FlushAsync, WriteFlags, Flag
<1>3. /\ "BUSY" \in flags'[b] /\ "ASYNC" \in flags'[b] /\ "DONE" \notin flags'[b]
      /\ "DELWRI" \notin flags'[b] /\ ("STALE" \in flags[b] => "STALE" \in flags'[b])
  BY <1>2 DEF WriteFlags
<1> HIDE DEF b
<1>4. FreeIffNotBusy' /\ TypeOK'
  <2>1. FreeIffNotBusy' /\ freelist' \in Seq(Buf) /\ freecount' \in Nat
    BY <1>1, <1>2, <1>3, NotavailFacts DEF IInv, b
  <2> QED
    BY <2>1, <1>2 DEF IInv, TypeOK, RegTypeOK
<1>5. \A q \in Proc : Owned(q)' = Owned(q) /\ Owned(q) \subseteq Buf
  BY DEF Owned, Others
<1>6. Exclusive' /\ OwnedOK'
  BY <1>1, <1>2, <1>5 DEF IInv, Exclusive, OwnedOK
<1>7. BusyOK'
  <2> SUFFICES ASSUME NEW c \in Buf
               PROVE  /\ c \in ioq' => "BUSY" \in flags'[c] /\ "DONE" \notin flags'[c] /\ blk[c] \in Block
                      /\ c \in ioq' /\ "READ" \notin flags'[c] => data[c] \in Value
                      /\ "ASYNC" \in flags'[c] => c \in ioq'
                      /\ "DELWRI" \in flags'[c] => blk[c] \in Block /\ data[c] \in Value /\ "DONE" \in flags'[c]
                      /\ "BUSY" \in flags'[c] => "ASYNC" \in flags'[c] \/ \E q \in Proc : c \in Owned(q)'
    BY DEF BusyOK
  <2>1. CASE c = b
    BY <2>1, <1>2, <1>3 DEF IInv, BusyOK, b
  <2>2. CASE c # b
    BY <2>2, <1>2, <1>5 DEF IInv, BusyOK
  <2> QED
    BY <2>1, <2>2
<1>8. HeldIdle' /\ WaitedFor'
  <2>1. \A q \in Proc : pc'[q] \in {"got", "use", "iowait"} =>
          q # p /\ cur[q] \in Buf /\ cur[q] \in Owned(q) /\ cur[q] # b
    BY <1>1 DEF IInv, CurOK, CurPC, OwnPC, Owned, Others
  <2>2. \A q \in Proc : prim[q] # NoBuf => prim[q] \in Buf /\ prim[q] \in Owned(q) /\ prim[q] # b
    BY <1>1 DEF IInv, TypeOK, Owned
  <2> QED
    BY <2>1, <2>2, <1>2 DEF IInv, HeldIdle, WaitedFor, UnderWay, Others
<1>9. UniqueBlock'
  BY <1>2, <1>3, UniqueKept
<1>10. NoLostWakeup'
  <2>1. \A q \in Proc : pc'[q] \in {"bufwait", "iosleep", "freewait"} => q # p /\ pc[q] # "freewait"
    BY <1>1 DEF Others
  <2>2. \A q \in Proc : pc[q] \in {"bufwait", "iosleep"} => cur[q] \in Buf /\ cur[q] # b
    BY <1>1 DEF IInv, CurOK, CurPC, OwnPC
  <2> QED
    BY <2>1, <2>2, <1>2 DEF IInv, NoLostWakeup, Others
<1> QED
  BY <1>4, <1>6, <1>7, <1>8, <1>9, <1>10 DEF IInv

LEMMA FlushHeadStep == ASSUME IInv, NEW p \in Proc, FlushHead(p) PROVE IInv'
<1> USE DEF FlushHead, AtLoop, Running
<1>0. 1 \in 1..Len(freelist) /\ freelist[1] \in Buf
  BY LenProperties, ElementOfSeq, EmptySeq DEF IInv, TypeOK
<1>1. OneInKernel' /\ CurOK' /\ CallOK' /\ PrimOK'
  BY <1>0 DEF IInv, TypeOK, OneInKernel, CurOK, CallOK, PrimOK, InKernel, CurPC, OwnPC, GetPC, GetCalls
<1>2. RegTypeOK' /\ Others(p) /\ Owned(p)' = Owned(p)
  BY <1>0 DEF IInv, TypeOK, RegTypeOK, PC, InKernel, Others, Owned
<1> QED
  BY <1>0, <1>1, <1>2, FlushAsyncFacts DEF IInv, TypeOK

LEMMA FlushOneStep == ASSUME IInv, NEW p \in Proc, FlushOne(p) PROVE IInv'
<1> USE DEF FlushOne
<1>0. PICK i \in ToFlush(p) : FlushAsync(i) /\ cur' = [cur EXCEPT ![p] = freelist[i]]
  OBVIOUS
<1>1. i \in 1..Len(freelist) /\ "DELWRI" \in flags[freelist[i]] /\ freelist[i] \in Buf
  BY ElementOfSeq DEF ToFlush, IInv, TypeOK
<1>2. OneInKernel' /\ CurOK' /\ CallOK' /\ PrimOK'
  BY <1>0, <1>1 DEF IInv, TypeOK, OneInKernel, CurOK, CallOK, PrimOK, InKernel, CurPC, OwnPC, GetPC, GetCalls
<1>3. RegTypeOK' /\ Others(p) /\ Owned(p)' = Owned(p)
  BY <1>0, <1>1 DEF IInv, TypeOK, RegTypeOK, PC, InKernel, Others, Owned
<1> QED
  BY <1>0, <1>1, <1>2, <1>3, FlushAsyncFacts DEF IInv, TypeOK

(* Process p takes the buffer at position i of the list.                   *)
LEMMA TakeFacts ==
  ASSUME IInv, NEW p \in Proc, NEW i \in 1..Len(freelist), notavail(i),
         UNCHANGED <<data, flWanted, ioq, disk>>,
         flags' \in [Buf -> SUBSET Flag], 
         blk' \in [Buf -> Block \cup {NoBlock}],
         "BUSY" \in flags'[freelist[i]], "ASYNC" \notin flags'[freelist[i]],
         "DELWRI" \in flags'[freelist[i]] =>
            /\ {"DELWRI", "DONE"} \subseteq flags[freelist[i]] \cap flags'[freelist[i]]
            /\ blk'[freelist[i]] = blk[freelist[i]],
         \A c \in Buf \ {freelist[i]} : flags'[c] = flags[c] /\ blk'[c] = blk[c],
         RegTypeOK', Others(p), OneInKernel', CurOK', CallOK', PrimOK', UniqueBlock',
         pc[p] \notin OwnPC, pc'[p] = "got", cur'[p] = freelist[i], prim'[p] = prim[p]
  PROVE  IInv'
<1> DEFINE b == freelist[i]
<1>1. /\ b \in Buf /\ "BUSY" \notin flags[b] /\ "ASYNC" \notin flags[b] /\ b \notin ioq
      /\ \A q \in Proc : /\ b \notin Owned(q) /\ pc[q] # "freewait"
                         /\ pc[q] \in {"bufwait", "iosleep"} => cur[q] # b
  BY FreeBuffer
<1> HIDE DEF b
<1>2. FreeIffNotBusy' /\ TypeOK'
  <2>1. FreeIffNotBusy' /\ freelist' \in Seq(Buf) /\ freecount' \in Nat
    BY <1>1, NotavailFacts DEF IInv, b
  <2> QED
    BY <2>1 DEF IInv, TypeOK, RegTypeOK
<1>3. /\ Owned(p)' = Owned(p) \cup {b}
      /\ \A q \in Proc \ {p} : Owned(q)' = Owned(q)
      /\ \A q \in Proc : Owned(q) \subseteq Buf
  BY <1>1 DEF Owned, Others, OwnPC, b
<1>4. Exclusive' /\ OwnedOK'
  BY <1>1, <1>3 DEF IInv, Exclusive, OwnedOK, b
<1>5. BusyOK'
  <2> SUFFICES ASSUME NEW c \in Buf
               PROVE  /\ c \in ioq => "BUSY" \in flags'[c] /\ "DONE" \notin flags'[c] /\ blk'[c] \in Block
                      /\ c \in ioq /\ "READ" \notin flags'[c] => data[c] \in Value
                      /\ "ASYNC" \in flags'[c] => c \in ioq
                      /\ "DELWRI" \in flags'[c] => blk'[c] \in Block /\ data[c] \in Value /\ "DONE" \in flags'[c]
                      /\ "BUSY" \in flags'[c] => "ASYNC" \in flags'[c] \/ \E q \in Proc : c \in Owned(q)'
    BY DEF BusyOK
  <2>1. CASE c = b
    BY <2>1, <1>1, <1>3 DEF IInv, BusyOK, b
  <2>2. CASE c # b
    BY <2>2, <1>3 DEF IInv, BusyOK, b
  <2> QED
    BY <2>1, <2>2
<1>6. HeldIdle' /\ WaitedFor'
  <2>1. \A q \in Proc \ {p} : pc[q] \in {"got", "use", "iowait"} =>
          cur[q] \in Buf /\ cur[q] \in Owned(q) /\ cur[q] # b
    BY <1>1 DEF IInv, CurOK, CurPC, OwnPC, Owned
  <2>2. \A q \in Proc : prim[q] # NoBuf => prim[q] \in Buf /\ prim[q] \in Owned(q) /\ prim[q] # b
    BY <1>1 DEF IInv, TypeOK, Owned
  <2> QED
    BY <2>1, <2>2, <1>1 DEF IInv, HeldIdle, WaitedFor, UnderWay, Others, b
<1>7. NoLostWakeup'
  <2>1. \A q \in Proc : pc[q] \in {"bufwait", "iosleep"} => cur[q] \in Buf /\ cur[q] # b
    BY <1>1 DEF IInv, CurOK, CurPC, OwnPC
  <2> QED
    BY <2>1, <1>1 DEF IInv, NoLostWakeup, Others, b
<1> QED
  BY <1>2, <1>4, <1>5, <1>6, <1>7 DEF IInv

LEMMA GetblkHitStep == ASSUME IInv, NEW p \in Proc, GetblkHit(p) PROVE IInv'
<1> USE DEF GetblkHit
<1>0. PICK i \in 1..Len(freelist) : freelist[i] = cur[p] /\ notavail(i)
  OBVIOUS
<1>1. OneInKernel' /\ CurOK' /\ CallOK' /\ PrimOK'
  <2>1. cur[p] \notin Owned(p) /\ cur[p] \in Buf
    BY <1>0, FreeBuffer
  <2> QED
    BY <2>1 DEF IInv, TypeOK, OneInKernel, CurOK, CallOK, PrimOK, InKernel, CurPC, OwnPC, GetPC, GetCalls, Owned
<1>2. RegTypeOK' /\ Others(p)
  BY DEF IInv, TypeOK, RegTypeOK, PC, InKernel, Others
<1>3. /\ flags' \in [Buf -> SUBSET Flag] /\ flags'[cur[p]] = flags[cur[p]] \cup {"BUSY"}
      /\ \A c \in Buf \ {cur[p]} : flags'[c] = flags[c]
      /\ "ASYNC" \notin flags[cur[p]]
  BY <1>0, FreeBuffer DEF IInv, TypeOK, Flag
<1>4. UniqueBlock'
  BY <1>3, UniqueKept
<1>5. "DELWRI" \in flags'[cur[p]] => {"DELWRI", "DONE"} \subseteq flags[cur[p]] \cap flags'[cur[p]]
  BY <1>0, <1>3, FreeBuffer DEF IInv, BusyOK
<1> QED
  <2>1. /\ "BUSY" \in flags'[freelist[i]] /\ "ASYNC" \notin flags'[freelist[i]]
        /\ "DELWRI" \in flags'[freelist[i]] =>
             /\ {"DELWRI", "DONE"} \subseteq flags[freelist[i]] \cap flags'[freelist[i]]
             /\ blk'[freelist[i]] = blk[freelist[i]]
        /\ \A c \in Buf \ {freelist[i]} : flags'[c] = flags[c] /\ blk'[c] = blk[c]
    BY <1>0, <1>3, <1>5, FreeBuffer
  <2>2. /\ pc[p] \notin OwnPC /\ pc'[p] = "got" /\ cur'[p] = freelist[i] /\ prim'[p] = prim[p]
        /\ blk' \in [Buf -> Block \cup {NoBlock}]
    BY <1>0 DEF IInv, TypeOK, OwnPC
  <2> QED
    BY <1>0, <1>1, <1>2, <1>3, <1>4, <2>1, <2>2, TakeFacts

LEMMA ReassignStep == ASSUME IInv, NEW p \in Proc, Reassign(p) PROVE IInv'
<1> USE DEF Reassign, AtLoop, Running
<1> DEFINE b == freelist[1]
           F == IF u[p].call = "geteblk" THEN {"BUSY", "AGE"} ELSE {"BUSY"}
<1>0. 1 \in 1..Len(freelist)
  BY LenProperties, EmptySeq DEF IInv, TypeOK
<1>1. b \in Buf /\ \A q \in Proc : b \notin Owned(q)
  BY <1>0, FreeBuffer
<1>2. /\ flags' \in [Buf -> SUBSET Flag] /\ flags'[b] = F /\ \A c \in Buf \ {b} : flags'[c] = flags[c]
      /\ blk' \in [Buf -> Block \cup {NoBlock}] /\ blk'[b] = u[p].want
      /\ \A c \in Buf \ {b} : blk'[c] = blk[c]
      /\ "BUSY" \in F /\ "ASYNC" \notin F /\ "DELWRI" \notin F
      /\ cur' = [cur EXCEPT ![p] = b]
  BY <1>1 DEF IInv, TypeOK, Flag, Frame
<1> HIDE DEF F, b
<1>3. OneInKernel' /\ CurOK' /\ PrimOK'
  BY <1>1, <1>2 DEF IInv, TypeOK, OneInKernel, CurOK, PrimOK, InKernel, CurPC, OwnPC, GetPC, Owned
<1>4. CallOK'
  <2>1. \A q \in Proc \ {p} : pc[q] # "claim" /\ (pc[q] = "got" => cur[q] # b)
    BY <1>1 DEF InKernel, Owned
  <2>2. \A q \in Proc : pc[q] \in {"claim", "got"} => cur[q] \in Buf
    BY DEF IInv, CurOK, CurPC, OwnPC
  <2>3. u[p].call \in GetCalls /\ (u[p].call # "geteblk" => u[p].want \in Block)
    BY DEF IInv, CallOK, GetPC, GetCalls
  <2> QED
    BY <1>2, <2>1, <2>2, <2>3 DEF IInv, TypeOK, CallOK, GetPC
<1>5. RegTypeOK' /\ Others(p)
  BY <1>1, <1>2 DEF IInv, TypeOK, RegTypeOK, PC, InKernel, Others
<1>6. UniqueBlock'
  <2>1. u[p].want # NoBlock => \A c \in Buf : blk[c] = u[p].want => "STALE" \in flags[c]
    BY DEF IInv, CallOK, GetPC, GetCalls, NoMatch, incore, Match
  <2> QED
    BY <2>1, <1>1, <1>2 DEF IInv, UniqueBlock
<1>7. /\ UNCHANGED <<data, flWanted, ioq, disk>> /\ notavail(1)
      /\ pc[p] \notin OwnPC /\ pc'[p] = "got" /\ cur'[p] = b /\ prim'[p] = prim[p]
  BY <1>2 DEF IInv, TypeOK, OwnPC, b
<1> HIDE DEF Reassign, AtLoop, Running
<1> QED
  BY <1>0, <1>2, <1>3, <1>4, <1>5, <1>6, <1>7, TakeFacts DEF b

-----------------------------------------------------------------------------
Bystander(q, b, F) ==
  b \notin Owned(q) /\ cur'[q] = cur[q] /\ u'[q] = u[q] /\ pc'[q] = ReleaseWakes(b, F)[q]

Releases(q, b) ==
  /\ pc[q] \in OwnPC /\ cur[q] = b
  /\ \/ pc'[q] = "idle" /\ prim[q] = NoBuf
     \/ /\ pc'[q] = "readahead" /\ pc[q] = "got" /\ u[q].call = "ra"
        /\ u'[q] = [u[q] EXCEPT !.ra = NoBlock]

(* A buffer is released, by the process that has it or by the interrupt    *)
(* that ends its asynchronous transfer.                                    *)
LEMMA ReleaseFacts ==
  ASSUME IInv, NEW b \in Buf, NEW F \in SUBSET Flag, brelse(b, F), "BUSY" \in flags[b],
         UNCHANGED <<blk, prim>>, ioq' = ioq \ {b},
         flags[b] \cap {"WANTED", "STALE"} \subseteq F,
         "DELWRI" \in F => blk[b] \in Block /\ data'[b] \in Value /\ "DONE" \in F,
         data' \in [Buf -> Value \cup {Junk}], disk' \in [Block -> Value],
         \A c \in Buf \ {b} : data'[c] = data[c],
         RegTypeOK', \A q \in Proc : Bystander(q, b, F) \/ Releases(q, b)
  PROVE  IInv'
<1> DEFINE S == {q \in Proc : Releases(q, b)}
<1>0. /\ \A q \in Proc \ S : /\ b \notin Owned(q) /\ cur'[q] = cur[q] /\ u'[q] = u[q]
                             /\ pc'[q] = ReleaseWakes(b, F)[q]
      /\ \A q \in S : /\ pc[q] \in OwnPC /\ cur[q] = b
                      /\ \/ pc'[q] = "idle" /\ prim[q] = NoBuf
                         \/ /\ pc'[q] = "readahead" /\ pc[q] = "got" /\ u[q].call = "ra"
                            /\ u'[q] = [u[q] EXCEPT !.ra = NoBlock]
      /\ S \in SUBSET Proc
  BY DEF Bystander, Releases
<1> HIDE DEF S
<1>1. /\ FreeIffNotBusy' /\ freelist' \in Seq(Buf) /\ freecount' \in Nat
      /\ flags' \in [Buf -> SUBSET Flag] /\ flags'[b] = ReleasedFlags(F)
      /\ \A c \in Buf \ {b} : flags'[c] = flags[c]
      /\ flWanted' = FALSE
  BY BrelseFacts DEF IInv
<1>2. /\ "BUSY" \notin flags'[b] /\ "ASYNC" \notin flags'[b]
      /\ "DELWRI" \in flags'[b] => "DELWRI" \in F
      /\ "DONE" \in F => "DONE" \in flags'[b]
      /\ "STALE" \in flags[b] => "STALE" \in flags'[b]
  BY <1>1 DEF ReleasedFlags
<1>3. TypeOK'
  BY <1>1 DEF IInv, TypeOK, RegTypeOK
<1>4. \A q \in Proc \ S :
        \/ /\ pc'[q] = pc[q] /\ pc[q] # "freewait"
           /\ pc[q] \in {"bufwait", "iosleep"} => cur[q] # b
        \/ pc[q] \in {"bufwait", "freewait"} /\ pc'[q] = "woken"
  <2> SUFFICES ASSUME NEW q \in Proc \ S
               PROVE  \/ /\ pc'[q] = pc[q] /\ pc[q] # "freewait"
                         /\ pc[q] \in {"bufwait", "iosleep"} => cur[q] # b
                      \/ pc[q] \in {"bufwait", "freewait"} /\ pc'[q] = "woken"
    OBVIOUS
  <2>1. pc[q] = "iosleep" => cur[q] # b
    BY <1>0 DEF Owned
  <2>2. pc[q] = "bufwait" /\ cur[q] = b => "WANTED" \in F
    BY <1>0 DEF IInv, NoLostWakeup
  <2>3. pc[q] = "freewait" => flWanted
    BY <1>0 DEF IInv, NoLostWakeup
  <2> QED
    BY <1>0, <2>1, <2>2, <2>3 DEF ReleaseWakes, Wakeup
<1>5. \A q \in S : Owned(q) \subseteq {b, prim[q]} /\ pc'[q] \in {"idle", "readahead"}
  BY <1>0 DEF Owned
<1>6. /\ \A q \in Proc \ S : Owned(q)' = Owned(q)
      /\ \A q \in S : Owned(q)' = Owned(q) \ {b}
      /\ \A q \in Proc : Owned(q)' \subseteq Owned(q) /\ Owned(q) \subseteq Buf /\ b \notin Owned(q)'
  <2>1. ASSUME NEW q \in Proc \ S PROVE Owned(q)' = Owned(q)
    BY <1>0, <1>4 DEF Owned
  <2>2. ASSUME NEW q \in S PROVE Owned(q)' = Owned(q) \ {b}
    <3>1. prim[q] # b
      <4>1. q \in Proc /\ b # NoBuf /\ cur[q] = b
        <5>1. \A c \in Buf : c # NoBuf
          BY NBufAssumption DEF Buf, NoBuf
        <5> QED
          BY <1>0, <5>1
      <4>2. CASE prim[q] = NoBuf
        BY <1>0, <4>1, <4>2
      <4>3. CASE prim[q] # NoBuf
        <5>1. pc[q] = "got"
          BY <1>0, <4>3
        <5> QED
          BY <1>0, <4>1, <4>3, <5>1 DEF IInv, PrimOK
      <4> QED
        BY <1>0, <4>2, <4>3
    <3> QED
      BY <1>0, <3>1, <1>5 DEF Owned, OwnPC
  <2> QED
    BY <1>0, <2>1, <2>2 DEF Owned
<1>7. OneInKernel'
  <2>1. ASSUME NEW q \in Proc, pc'[q] \in InKernel PROVE pc[q] \in InKernel
    <3>1. CASE q \in S
      BY <1>0, <2>1, <3>1 DEF InKernel
    <3>2. CASE q \notin S
      BY <1>0, <2>1, <3>2, <1>4 DEF InKernel
    <3> QED
      BY <1>0, <3>1, <3>2
  <2> QED
    BY <1>0, <2>1 DEF IInv, OneInKernel
<1>8. CurOK'
  BY <1>0, <1>4, <1>5 DEF IInv, CurOK, CurPC, OwnPC
<1>9. CallOK'
  <2>1. ASSUME NEW q \in S, pc'[q] = "readahead"
        PROVE  u'[q].call = "ra" /\ u'[q].want \in Block /\ u'[q].first \in Block
    <3>1. u[q] \in Frame /\ u[q].call = "ra" /\ u[q].want \in Block /\ u[q].first \in Block
      BY <1>0, <2>1 DEF IInv, TypeOK, CallOK, GetPC, GetCalls
    <3> QED
      BY <1>0, <2>1, <3>1 DEF Frame
  <2>2. \A q \in S : pc'[q] = "idle" \/ pc'[q] = "readahead"
    BY <1>0, <1>5
  <2>3. ASSUME NEW q \in Proc
        PROVE  /\ pc'[q] \in GetPC \ {"aged"} => u'[q].call \in GetCalls
               /\ pc'[q] = "aged" => u'[q].call \in GetCalls \cup {"bawrite", "sync", "umount"}
               /\ pc'[q] = "flush" => u'[q].call \in {"sync", "umount"}
               /\ pc'[q] = "readahead" => u'[q].call \in {"breada", "ra"}
               /\ pc'[q] \in GetPC \cup {"readahead"} /\ u'[q].call \in GetCalls \ {"geteblk"}
                    => u'[q].want \in Block
               /\ pc'[q] \in GetPC \cup {"readahead"} /\ u'[q].call \in {"breada", "ra"}
                    => u'[q].first \in Block
               /\ pc'[q] \in GetPC /\ u'[q].call = "geteblk" => u'[q].want = NoBlock
               /\ pc'[q] \in {"claim", "got"} /\ u'[q].call # "geteblk" => blk'[cur'[q]] \in Block
    <3>1. CASE q \in S
      BY <1>0, <3>1, <2>1, <2>2 DEF GetPC
    <3>2. CASE q \notin S
      <4>1. u'[q] = u[q] /\ cur'[q] = cur[q]
            /\ (pc'[q] = pc[q] \/ (pc[q] \in {"bufwait", "freewait"} /\ pc'[q] = "woken"))
        BY <1>0, <3>2, <1>4
      <4> QED
        BY <1>0, <4>1 DEF IInv, CallOK, GetPC, GetCalls
    <3> QED
      BY <1>0, <3>1, <3>2
  <2> QED
    BY <1>0, <2>3 DEF CallOK
<1>10. PrimOK'
  <2> SUFFICES ASSUME NEW q \in Proc, prim[q] # NoBuf
               PROVE  /\ pc'[q] # "readahead" => u'[q].call = "ra" /\ pc'[q] \in GetPC
                      /\ pc'[q] = "got" => cur'[q] # prim[q]
    BY <1>0 DEF PrimOK
  <2>1. CASE q \in S
    BY <1>0, <2>1
  <2>2. CASE q \notin S
    BY <1>0, <2>2, <1>4 DEF IInv, PrimOK, GetPC
  <2> QED
    BY <1>0, <2>1, <2>2
<1>11. Exclusive' /\ OwnedOK'
  BY <1>0, <1>1, <1>6 DEF IInv, Exclusive, OwnedOK
<1>12. BusyOK'
  <2> SUFFICES ASSUME NEW c \in Buf
               PROVE  /\ c \in ioq' => "BUSY" \in flags'[c] /\ "DONE" \notin flags'[c] /\ blk[c] \in Block
                      /\ c \in ioq' /\ "READ" \notin flags'[c] => data'[c] \in Value
                      /\ "ASYNC" \in flags'[c] => c \in ioq'
                      /\ "DELWRI" \in flags'[c] => blk[c] \in Block /\ data'[c] \in Value /\ "DONE" \in flags'[c]
                      /\ "BUSY" \in flags'[c] => "ASYNC" \in flags'[c] \/ \E q \in Proc : c \in Owned(q)'
    BY <1>0 DEF BusyOK
  <2>1. CASE c = b
    BY <1>0, <2>1, <1>2
  <2>2. CASE c # b
    <3>1. \A q \in Proc : c \in Owned(q) => c \in Owned(q)'
      BY <1>0, <2>2, <1>6
    <3> QED
      BY <1>0, <2>2, <3>1, <1>1 DEF IInv, BusyOK
  <2> QED
    BY <1>0, <2>1, <2>2
<1>13. HeldIdle'
  BY <1>0, <1>4, <1>5 DEF IInv, HeldIdle
<1>14. WaitedFor'
  <2>1. \A c \in Buf \ {b} : UnderWay(c) => UnderWay(c)'
    BY <1>0, <1>1 DEF UnderWay
  <2>2. ASSUME NEW q \in Proc, pc'[q] = "iowait" PROVE UnderWay(cur[q])' /\ cur'[q] = cur[q]
    <3>1. q \notin S /\ pc[q] = "iowait" /\ cur'[q] = cur[q]
      BY <1>0, <2>2, <1>4, <1>5
    <3>2. cur[q] \in Buf \ {b} /\ UnderWay(cur[q])
      BY <1>0, <3>1 DEF IInv, CurOK, CurPC, OwnPC, WaitedFor, Owned
    <3>3. /\ cur[q] \in Buf \ {b}
          /\ flags'[cur[q]] = flags[cur[q]]
      BY <1>0, <3>2, <1>1
    <3> QED
      BY <1>0, <3>1, <3>2, <3>3, <2>1 DEF UnderWay
  <2>3. ASSUME NEW q \in Proc, prim[q] # NoBuf PROVE UnderWay(prim[q])'
    <3>1. prim[q] \in Buf /\ prim[q] \in Owned(q)'
      BY <1>0, <2>3 DEF IInv, TypeOK, Owned
    <3> QED
      BY <1>0, <2>3, <3>1, <1>1, <1>6 DEF IInv, WaitedFor, UnderWay
  <2> QED
    BY <1>0, <2>2, <2>3 DEF WaitedFor, UnderWay
<1>15. UniqueBlock'
  BY <1>0, <1>1, <1>2, UniqueKept
<1>16. NoLostWakeup'
  <2> SUFFICES ASSUME NEW q \in Proc
               PROVE  /\ pc'[q] = "bufwait" => {"BUSY", "WANTED"} \subseteq flags'[cur'[q]]
                      /\ pc'[q] = "iosleep" => cur'[q] \in ioq' /\ "ASYNC" \notin flags'[cur'[q]]
                      /\ pc'[q] = "freewait" => flWanted' /\ freelist' = <<>>
    BY <1>0 DEF NoLostWakeup
  <2>1. CASE pc'[q] \in {"bufwait", "iosleep"}
    <3>1. q \notin S /\ pc'[q] = pc[q] /\ cur'[q] = cur[q] /\ cur[q] # b
      BY <1>0, <2>1, <1>4, <1>5
    <3>2. cur[q] \in Buf
      BY <1>0, <2>1, <3>1 DEF IInv, CurOK, CurPC, OwnPC
    <3> QED
      BY <1>0, <2>1, <3>1, <3>2, <1>1 DEF IInv, NoLostWakeup
  <2>2. pc'[q] # "freewait"
    BY <1>0, <1>4, <1>5
  <2> QED
    BY <1>0, <2>1, <2>2
<1> QED
  BY <1>1, <1>3, <1>7, <1>8, <1>9, <1>10, <1>11, <1>12, <1>13, <1>14, <1>15, <1>16 DEF IInv

LEMMA ReadaheadGotStep == ASSUME IInv, NEW p \in Proc, ReadaheadGot(p) PROVE IInv'
<1> USE DEF ReadaheadGot
<1>0. /\ cur[p] \in Buf /\ cur[p] \in Owned(p) /\ cur[p] \notin ioq /\ "BUSY" \in flags[cur[p]]
      /\ flags[cur[p]] \in SUBSET Flag /\ u[p] \in Frame /\ blk[cur[p]] \in Block
  BY DEF IInv, TypeOK, CurOK, CurPC, OwnPC, Owned, OwnedOK, HeldIdle, CallOK
<1>1. CASE "DONE" \in flags[cur[p]]
  <2>1. \A q \in Proc \ {p} : /\ cur[p] \notin Owned(q) /\ cur'[q] = cur[q] /\ u'[q] = u[q]
                              /\ pc'[q] = ReleaseWakes(cur[p], flags[cur[p]])[q]
    BY <1>0, <1>1 DEF IInv, TypeOK, Exclusive, ReleaseWakes, Wakeup
  <2>2. RegTypeOK'
    <3>1. [u[p] EXCEPT !.ra = NoBlock] \in Frame
      BY <1>0, FrameFacts
    <3> QED
      BY <1>1, <3>1, WakeupFacts DEF IInv, TypeOK, RegTypeOK, ReleaseWakes, PC, InKernel
  <2>3. pc'[p] = "readahead" /\ u'[p] = [u[p] EXCEPT !.ra = NoBlock]
    BY <1>1 DEF IInv, TypeOK, ReleaseWakes, Wakeup
  <2>4. "DELWRI" \in flags[cur[p]] =>
          blk[cur[p]] \in Block /\ data[cur[p]] \in Value /\ "DONE" \in flags[cur[p]]
    BY <1>0 DEF IInv, BusyOK
  <2>5. \A q \in Proc : Bystander(q, cur[p], flags[cur[p]]) \/ Releases(q, cur[p])
    BY <2>1, <2>3 DEF Bystander, Releases, OwnPC
  <2> QED
    BY <1>0, <1>1, <2>2, <2>4, <2>5, ReleaseFacts DEF IInv, TypeOK
<1>2. CASE "DONE" \notin flags[cur[p]]
  <2>1. /\ pc' = [pc EXCEPT ![p] = "readahead"] /\ cur' = [cur EXCEPT ![p] = NoBuf]
        /\ u' = [u EXCEPT ![p].ra = NoBlock] /\ prim' = prim
    BY <1>2
  <2>2. RegTypeOK' /\ Others(p)
    <3>1. [u[p] EXCEPT !.ra = NoBlock] \in Frame
      BY <1>0, FrameFacts
    <3> QED
      BY <2>1, <3>1 DEF IInv, TypeOK, RegTypeOK, Others, PC, InKernel
  <2>3. prim[p] # cur[p]
    BY <1>0, NBufAssumption DEF IInv, PrimOK, Buf, NoBuf
  <2>4. Owned(p)' = Owned(p) \ {cur[p]}
    BY <2>1, <2>3, <1>0 DEF IInv, TypeOK, Owned
  <2>5. OneInKernel' /\ CurOK'
    BY <2>1 DEF IInv, TypeOK, OneInKernel, CurOK, InKernel, CurPC, OwnPC
  <2>6. u'[p].call = "ra" /\ u'[p].want = u[p].want /\ u'[p].first = u[p].first
    BY <2>1, <1>0 DEF IInv, TypeOK, Frame
  <2>7. CallOK' /\ PrimOK'
    BY <2>1, <2>2, <2>6 DEF IInv, TypeOK, CallOK, PrimOK, GetPC, GetCalls, Others
  <2> QED
    <3> DEFINE fs == {"ASYNC"}
    <3>1. fs \in SUBSET {"ASYNC"} /\ fs # {} /\ StartRead(cur[p], fs)
      BY <1>2
    <3>2. pc'[p] = "readahead" /\ prim'[p] = prim[p]
      BY <2>1 DEF IInv, TypeOK
    <3>3. UNCHANGED <<blk, data, freelist, freecount, flWanted, disk>>
      BY <1>2
    <3> HIDE DEF fs
    <3> QED
      BY <1>0, <1>2, <2>2, <2>4, <2>5, <2>7, <3>1, <3>2, <3>3, StartReadFacts
<1> QED
  BY <1>1, <1>2

(* The ways p gives its buffer back and is done with it.                   *)
LEMMA GiveBack ==
  ASSUME IInv, NEW p \in Proc, pc[p] \in OwnPC, prim[p] = NoBuf,
         NEW F \in SUBSET Flag, brelse(cur[p], F), cur[p] \notin ioq,
         flags[cur[p]] \cap {"WANTED", "STALE"} \subseteq F,
         "DELWRI" \in F => blk[cur[p]] \in Block /\ data'[cur[p]] \in Value /\ "DONE" \in F,
         data' \in [Buf -> Value \cup {Junk}],
         \A c \in Buf \ {cur[p]} : data'[c] = data[c],
         pc' = [ReleaseWakes(cur[p], F) EXCEPT ![p] = "idle"],
         cur' = [cur EXCEPT ![p] = NoBuf],
         NEW f \in Frame, u' = [u EXCEPT ![p] = f],
         UNCHANGED <<blk, ioq, disk, prim>>
  PROVE  IInv'
<1>0. /\ cur[p] \in Buf /\ cur[p] \in Owned(p) /\ "BUSY" \in flags[cur[p]]
  BY DEF IInv, TypeOK, CurOK, CurPC, OwnPC, Owned, OwnedOK
<1>1. \A q \in Proc \ {p} : /\ cur[p] \notin Owned(q) /\ cur'[q] = cur[q] /\ u'[q] = u[q]
                            /\ pc'[q] = ReleaseWakes(cur[p], F)[q]
  BY <1>0 DEF IInv, TypeOK, Exclusive, ReleaseWakes, Wakeup
<1>2. RegTypeOK'
  BY WakeupFacts DEF IInv, TypeOK, RegTypeOK, ReleaseWakes, PC
<1>3. pc'[p] = "idle"
  BY DEF IInv, TypeOK, ReleaseWakes, Wakeup
<1>4. \A q \in Proc : Bystander(q, cur[p], F) \/ Releases(q, cur[p])
  BY <1>1, <1>3 DEF Bystander, Releases
<1>5. disk' \in [Block -> Value] /\ ioq' = ioq \ {cur[p]}
  BY DEF IInv, TypeOK
<1> QED
  BY <1>0, <1>2, <1>4, <1>5, ReleaseFacts

LEMMA IowaitReturnStep == ASSUME IInv, NEW p \in Proc, IowaitReturn(p) PROVE IInv'
<1> USE DEF IowaitReturn, Running
<1>0. /\ cur[p] \in Buf /\ cur[p] \notin ioq /\ flags[cur[p]] \in SUBSET Flag /\ u[p] \in Frame
      /\ prim[p] = NoBuf
  BY DEF IInv, TypeOK, CurOK, CurPC, OwnPC, BusyOK, PrimOK, GetPC
<1>1. CASE u[p].call = "bwrite"
  <2>1. "DELWRI" \in flags[cur[p]] =>
          blk[cur[p]] \in Block /\ data[cur[p]] \in Value /\ "DONE" \in flags[cur[p]]
    BY <1>0 DEF IInv, BusyOK
  <2>2. [NoCall EXCEPT !.err = "ERROR" \in flags[cur[p]]] \in Frame
    <3>1. ("ERROR" \in flags[cur[p]]) \in BOOLEAN
      OBVIOUS
    <3> QED
      BY <3>1, NoCallErr
  <2> QED
    BY <1>0, <1>1, <2>1, <2>2, GiveBack DEF IInv, TypeOK, OwnPC
<1>2. CASE u[p].call # "bwrite"
  <2>1. /\ pc' = [pc EXCEPT ![p] = "use"] /\ cur' = cur /\ prim' = prim
        /\ u' = [u EXCEPT ![p].err = "ERROR" \in flags[cur[p]]]
    BY <1>2
  <2>2. RegTypeOK' /\ Others(p) /\ Owned(p)' = Owned(p)
    <3>1. [u[p] EXCEPT !.err = "ERROR" \in flags[cur[p]]] \in Frame
      <4>1. ("ERROR" \in flags[cur[p]]) \in BOOLEAN
        OBVIOUS
      <4> QED
        BY <1>0, <4>1, FrameFacts
    <3> QED
      BY <1>0, <2>1, <3>1 DEF IInv, TypeOK, RegTypeOK, Others, Owned, PC
  <2>3. OneInKernel' /\ CurOK' /\ CallOK' /\ PrimOK'
    BY <1>0, <2>1, <2>2 DEF IInv, TypeOK, OneInKernel, CurOK, CallOK, PrimOK, InKernel, CurPC,
                       OwnPC, GetPC, GetCalls, Others
  <2> QED
    BY <1>0, <1>2, <2>1, <2>2, <2>3, RegistersOnly DEF IInv, TypeOK, Asleep, bufvars
<1> QED
  BY <1>1, <1>2

LEMMA HeldFacts ==
  ASSUME IInv, NEW p \in Proc, Holds(p)
  PROVE  /\ cur[p] \in Buf /\ cur[p] \in Owned(p) /\ cur[p] \notin ioq
         /\ "BUSY" \in flags[cur[p]] /\ "ASYNC" \notin flags[cur[p]]
         /\ flags[cur[p]] \in SUBSET Flag /\ u[p] \in Frame /\ prim[p] = NoBuf
BY DEF Holds, IInv, TypeOK, CurOK, CurPC, OwnPC, HeldIdle, OwnedOK, Owned, PrimOK, GetPC

LEMMA BrelseStep == ASSUME IInv, NEW p \in Proc, Brelse(p) PROVE IInv'
<1> USE DEF Brelse
<1>0. /\ cur[p] \in Buf /\ cur[p] \notin ioq /\ flags[cur[p]] \in SUBSET Flag /\ u[p] \in Frame
      /\ prim[p] = NoBuf /\ pc[p] \in OwnPC
  BY HeldFacts DEF Holds, OwnPC
<1>1. "DELWRI" \in flags[cur[p]] =>
          blk[cur[p]] \in Block /\ data[cur[p]] \in Value /\ "DONE" \in flags[cur[p]]
  BY <1>0 DEF IInv, BusyOK
<1>2. [NoCall EXCEPT !.err = u[p].err] \in Frame
  BY <1>0, NoCallErr DEF Frame
<1> QED
  BY <1>0, <1>1, <1>2, GiveBack DEF IInv, TypeOK

LEMMA BdwriteStep == ASSUME IInv, NEW p \in Proc, NEW v \in Value, Bdwrite(p, v) PROVE IInv'
<1> USE DEF Bdwrite, MayWrite
<1>0. /\ cur[p] \in Buf /\ cur[p] \notin ioq /\ flags[cur[p]] \in SUBSET Flag /\ u[p] \in Frame
      /\ prim[p] = NoBuf /\ pc[p] \in OwnPC
  BY HeldFacts DEF Holds, OwnPC
<1>1. /\ data' \in [Buf -> Value \cup {Junk}] /\ data'[cur[p]] = v
      /\ \A c \in Buf \ {cur[p]} : data'[c] = data[c]
      /\ blk[cur[p]] \in Block
  BY <1>0 DEF IInv, TypeOK
<1>2. NoCall \in Frame
  BY DEF NoCall, Frame
<1>3. flags[cur[p]] \cup {"DELWRI", "DONE"} \in SUBSET Flag
  BY <1>0 DEF Flag
<1> QED
  BY <1>0, <1>1, <1>2, <1>3, GiveBack DEF IInv, TypeOK

-----------------------------------------------------------------------------
(* A write is started: the buffer stays with p, or is given up.            *)
LEMMA WriteStep ==
  ASSUME IInv, NEW p \in Proc, NEW v \in Value, NEW async \in BOOLEAN, MayWrite(p),
         bwrite(p, v, async)
  PROVE  IInv'
<1> USE DEF bwrite, MayWrite
<1> DEFINE c == cur[p]
           G == WriteFlags(flags[c] \cup (IF async THEN {"ASYNC"} ELSE {}))
<1>1. /\ c \in Buf /\ c \in Owned(p) /\ c \notin ioq /\ "BUSY" \in flags[c] /\ "ASYNC" \notin flags[c]
      /\ flags[c] \in SUBSET Flag /\ u[p] \in Frame /\ prim[p] = NoBuf /\ blk[c] \in Block
      /\ pc[p] = "use" /\ \A q \in Proc \ {p} : pc[q] \notin InKernel
  BY HeldFacts DEF IInv, TypeOK, Holds, Running
<1>2. /\ G \in SUBSET Flag /\ "BUSY" \in G /\ "DONE" \notin G /\ "DELWRI" \notin G /\ "READ" \notin G
      /\ ("ASYNC" \in G <=> async) /\ ("STALE" \in flags[c] => "STALE" \in G)
      /\ ("WANTED" \in flags[c] => "WANTED" \in G)
  BY <1>1 DEF WriteFlags, Flag
<1>3. /\ flags' = [flags EXCEPT ![c] = G] /\ data' = [data EXCEPT ![c] = v] /\ ioq' = ioq \cup {c}
  OBVIOUS
<1> HIDE DEF G
<1>4. /\ flags' \in [Buf -> SUBSET Flag] /\ flags'[c] = G
      /\ \A b \in Buf \ {c} : flags'[b] = flags[b] /\ data'[b] = data[b]
      /\ data' \in [Buf -> Value \cup {Junk}] /\ data'[c] = v /\ c \in ioq' /\ ioq' \subseteq Buf
  BY <1>1, <1>2, <1>3 DEF IInv, TypeOK
<1>5. /\ pc'[p] = IF ~async THEN "iowait" ELSE IF "DELWRI" \in flags[c] THEN "aged" ELSE "asyncerr"
      /\ u'[p].call = (IF async THEN "bawrite" ELSE "bwrite")
      /\ cur' = cur /\ prim' = prim /\ blk' = blk
  BY <1>1 DEF IInv, TypeOK, Frame
<1>6. RegTypeOK' /\ Others(p)
  <2>1. u' \in [Proc -> Frame]
    BY <1>1 DEF IInv, TypeOK, Frame, Routine
  <2>2. pc' \in [Proc -> PC]
    BY DEF IInv, TypeOK, PC, InKernel
  <2> QED
    BY <2>1, <2>2 DEF IInv, TypeOK, RegTypeOK, Others
<1> HIDE DEF c
<1>7. TypeOK' /\ FreeIffNotBusy'
  <2>1. \A b \in Buf : "BUSY" \in flags'[b] <=> "BUSY" \in flags[b]
    BY <1>1, <1>2, <1>4
  <2>2. FreeIffNotBusy'
    BY <2>1, ListUnchanged DEF IInv
  <2> QED
    BY <2>2, <1>4, <1>6 DEF IInv, TypeOK, RegTypeOK
<1>8. OneInKernel' /\ CurOK'
  BY <1>1, <1>5, <1>6 DEF IInv, OneInKernel, CurOK, InKernel, CurPC, OwnPC, Others, c
<1>9. CallOK' /\ PrimOK'
  BY <1>1, <1>5, <1>6 DEF IInv, CallOK, PrimOK, GetPC, GetCalls, Others
<1>10. /\ \A q \in Proc \ {p} : Owned(q)' = Owned(q) /\ c \notin Owned(q)
       /\ Owned(p)' = IF async THEN {} ELSE {c}
       /\ Owned(p) = {c}
  <2>1. ASSUME NEW q \in Proc \ {p} PROVE Owned(q)' = Owned(q) /\ c \notin Owned(q)
    BY <1>1, <1>5, <1>6 DEF IInv, Exclusive, Owned, Others
  <2>2. \A b \in Buf : b # prim[p]
    BY <1>1, NBufAssumption DEF Buf, NoBuf
  <2> QED
    BY <2>1, <2>2, <1>1, <1>5 DEF Owned, c
<1>11. Exclusive' /\ OwnedOK'
  <2>1. \A q \in Proc : Owned(q)' \subseteq Owned(q) /\ Owned(q) \subseteq Buf
    BY <1>1, <1>10 DEF Owned
  <2>2. \A q \in Proc : \A b \in Owned(q)' : "BUSY" \in flags'[b] /\ "ASYNC" \notin flags'[b]
    BY <2>1, <1>1, <1>2, <1>4, <1>10 DEF IInv, OwnedOK
  <2> QED
    BY <2>1, <2>2 DEF IInv, Exclusive, OwnedOK
<1>12. BusyOK'
  <2> SUFFICES ASSUME NEW b \in Buf
               PROVE  /\ b \in ioq' => "BUSY" \in flags'[b] /\ "DONE" \notin flags'[b] /\ blk[b] \in Block
                      /\ b \in ioq' /\ "READ" \notin flags'[b] => data'[b] \in Value
                      /\ "ASYNC" \in flags'[b] => b \in ioq'
                      /\ "DELWRI" \in flags'[b] => blk[b] \in Block /\ data'[b] \in Value /\ "DONE" \in flags'[b]
                      /\ "BUSY" \in flags'[b] => "ASYNC" \in flags'[b] \/ \E q \in Proc : b \in Owned(q)'
    BY <1>5 DEF BusyOK
  <2>1. CASE b = c
    BY <2>1, <1>1, <1>2, <1>4, <1>10
  <2>2. CASE b # c
    BY <2>2, <1>3, <1>4, <1>10 DEF IInv, BusyOK
  <2> QED
    BY <2>1, <2>2
<1>13. HeldIdle' /\ WaitedFor'
  <2>1. \A q \in Proc \ {p} : pc[q] \in {"got", "use"} => cur[q] # c
    BY <1>10 DEF IInv, CurOK, CurPC, OwnPC, Owned
  <2>2. HeldIdle'
    BY <2>1, <1>3, <1>5, <1>6 DEF IInv, HeldIdle, Others
  <2>3. \A b \in Buf : UnderWay(b) => UnderWay(b)'
    BY <1>3, <1>4 DEF UnderWay
  <2>4. \A q \in Proc \ {p} : /\ pc[q] = "iowait" => cur[q] \in Buf /\ UnderWay(cur[q])
                              /\ prim[q] # NoBuf => prim[q] \in Buf /\ UnderWay(prim[q])
    BY DEF IInv, TypeOK, CurOK, CurPC, OwnPC, WaitedFor
  <2>5. \A q \in Proc \ {p} : /\ pc[q] = "iowait" => UnderWay(cur[q])'
                              /\ prim[q] # NoBuf => UnderWay(prim[q])'
    BY <2>3, <2>4, <1>3, <1>4 DEF UnderWay
  <2>6. UnderWay(cur[p])'
    BY <1>4, <1>5 DEF UnderWay, c
  <2> QED
    BY <2>2, <2>5, <2>6, <1>1, <1>5, <1>6 DEF WaitedFor, UnderWay, Others
<1>14. UniqueBlock'
  BY <1>2, <1>4, <1>5, UniqueKept
<1>15. NoLostWakeup'
  <2>1. \A q \in Proc \ {p} : pc[q] = "iosleep" => cur[q] # c
    BY <1>10 DEF IInv, CurOK, CurPC, OwnPC, Owned
  <2>2. \A q \in Proc : pc[q] \in {"bufwait", "iosleep"} => cur[q] \in Buf
    BY DEF IInv, CurOK, CurPC, OwnPC
  <2>3. pc'[p] \notin {"bufwait", "iosleep", "freewait"}
    BY <1>5
  <2> QED
    BY <2>1, <2>2, <2>3, <1>1, <1>2, <1>3, <1>4, <1>5, <1>6 DEF IInv, NoLostWakeup, Others
<1> QED
  BY <1>7, <1>8, <1>9, <1>11, <1>12, <1>13, <1>14, <1>15 DEF IInv

LEMMA BwriteStep == ASSUME IInv, NEW p \in Proc, NEW v \in Value, Bwrite(p, v) PROVE IInv'
BY WriteStep DEF Bwrite

LEMMA BawriteStep ==
  ASSUME IInv, NEW p \in Proc, NEW v \in Value, Bawrite(p, v) \/ BdwriteTape(p, v) PROVE IInv'
<1>1. (freecount > AsyncFree) \in BOOLEAN
  BY ThresholdAssumption DEF IInv, TypeOK
<1> QED
  BY <1>1, WriteStep DEF Bawrite, BdwriteTape, bawrite

-----------------------------------------------------------------------------
(* The disk interrupt                                                      *)

LEMMA DiskInterruptStep ==
  ASSUME IInv, NEW b \in Buf, NEW e \in BOOLEAN, DiskInterrupt(b, e) PROVE IInv'
<1> DEFINE F == flags[b] \cup {"DONE"} \cup (IF e THEN {"ERROR"} ELSE {})
<1> USE DEF DiskInterrupt, iodone
<1>1. /\ b \in ioq /\ "BUSY" \in flags[b] /\ "DONE" \notin flags[b] /\ "DELWRI" \notin flags[b]
      /\ blk[b] \in Block /\ flags[b] \in SUBSET Flag
      /\ ("ASYNC" \notin flags[b] => \E q \in Proc : b \in Owned(q))
      /\ ("ASYNC" \in flags[b] => \A q \in Proc : b \notin Owned(q))
  BY DEF IInv, TypeOK, BusyOK, OwnedOK
<1>2. /\ F \in SUBSET Flag /\ "DONE" \in F /\ "BUSY" \in F /\ "DELWRI" \notin F
      /\ ("ASYNC" \in F <=> "ASYNC" \in flags[b]) /\ flags[b] \subseteq F
  BY <1>1 DEF Flag
<1>3. /\ data' \in [Buf -> Value \cup {Junk}] /\ disk' \in [Block -> Value]
      /\ \A c \in Buf \ {b} : data'[c] = data[c]
  BY <1>1 DEF IInv, TypeOK, BusyOK, Transfer
<1>4. ioq' = ioq \ {b} /\ UNCHANGED <<blk, cur, prim, u>>
  OBVIOUS
<1>5. CASE "ASYNC" \in flags[b]
  <2>1. brelse(b, F) /\ pc' = ReleaseWakes(b, F)
    BY <1>5, <1>2
  <2> HIDE DEF F
  <2>2. RegTypeOK'
    BY <2>1, <1>4, WakeupFacts DEF IInv, TypeOK, RegTypeOK, ReleaseWakes
  <2>3. \A q \in Proc : Bystander(q, b, F)
    BY <2>1, <1>1, <1>4, <1>5 DEF Bystander
  <2> HIDE DEF DiskInterrupt, iodone
  <2> QED
    BY <1>1, <1>2, <1>3, <1>4, <2>1, <2>2, <2>3, ReleaseFacts
<1>6. CASE "ASYNC" \notin flags[b]
  <2>1. /\ flags' = [flags EXCEPT ![b] = F \ {"WANTED"}] /\ pc' = Wakeup({b}, FALSE)
        /\ UNCHANGED <<freelist, freecount, flWanted>>
    BY <1>6, <1>2
  <2> HIDE DEF DiskInterrupt, iodone, F
  <2>2. /\ flags' \in [Buf -> SUBSET Flag] /\ flags'[b] = F \ {"WANTED"}
        /\ \A c \in Buf \ {b} : flags'[c] = flags[c]
    BY <2>1, <1>1, <1>2 DEF IInv, TypeOK
  <2>3. \A q \in Proc :
          \/ pc'[q] = pc[q] /\ (pc[q] \in {"iosleep", "bufwait"} => cur[q] # b)
          \/ pc[q] = "iosleep" /\ cur[q] = b /\ pc'[q] = "iowait"
          \/ pc[q] = "bufwait" /\ pc'[q] = "woken"
    BY <2>1 DEF Wakeup
  <2>4. RegTypeOK'
    BY <2>1, <1>4, WakeupFacts DEF IInv, TypeOK, RegTypeOK
  <2>5. TypeOK' /\ FreeIffNotBusy'
    <3>1. \A c \in Buf : "BUSY" \in flags'[c] <=> "BUSY" \in flags[c]
      BY <2>2, <1>1, <1>2
    <3>2. FreeIffNotBusy'
      BY <3>1, <2>1, ListUnchanged DEF IInv
    <3> QED
      BY <3>2, <2>1, <2>2, <2>4, <1>3, <1>4 DEF IInv, TypeOK, RegTypeOK
  <2>6. OneInKernel' /\ CurOK'
    BY <2>3, <1>4 DEF IInv, OneInKernel, CurOK, InKernel, CurPC, OwnPC
  <2>7. CallOK' /\ PrimOK'
    BY <2>3, <1>4 DEF IInv, CallOK, PrimOK, GetPC, GetCalls
  <2>8. \A q \in Proc : Owned(q)' = Owned(q) /\ Owned(q) \subseteq Buf
    BY <2>3, <1>4 DEF Owned
  <2>9. Exclusive' /\ OwnedOK'
    <3>1. \A q \in Proc : \A c \in Owned(q) : "BUSY" \in flags'[c] /\ "ASYNC" \notin flags'[c]
      BY <2>2, <2>8, <1>2, <1>6 DEF IInv, OwnedOK
    <3> QED
      BY <3>1, <2>8 DEF IInv, Exclusive, OwnedOK
  <2>10. BusyOK'
    <3> SUFFICES ASSUME NEW c \in Buf
                 PROVE  /\ c \in ioq' => "BUSY" \in flags'[c] /\ "DONE" \notin flags'[c] /\ blk'[c] \in Block
                        /\ c \in ioq' /\ "READ" \notin flags'[c] => data'[c] \in Value
                        /\ "ASYNC" \in flags'[c] => c \in ioq'
                        /\ "DELWRI" \in flags'[c] => blk'[c] \in Block /\ data'[c] \in Value /\ "DONE" \in flags'[c]
                        /\ "BUSY" \in flags'[c] => "ASYNC" \in flags'[c] \/ \E q \in Proc : c \in Owned(q)'
      BY DEF BusyOK
    <3>1. CASE c = b
      BY <3>1, <1>1, <1>2, <1>4, <1>6, <2>2, <2>8
    <3>2. CASE c # b
      BY <3>2, <1>3, <1>4, <2>2, <2>8 DEF IInv, BusyOK
    <3> QED
      BY <3>1, <3>2
  <2>11. HeldIdle'
    BY <2>3, <1>4 DEF IInv, HeldIdle
  <2>12. WaitedFor'
    <3>1. \A c \in Buf : UnderWay(c) => UnderWay(c)'
      BY <2>2, <1>2, <1>4 DEF UnderWay
    <3>2. UnderWay(b)'
      BY <2>2, <1>2 DEF UnderWay
    <3>3. \A q \in Proc : /\ pc'[q] = "iowait" => cur[q] \in Buf /\ (pc[q] = "iowait" \/ cur[q] = b)
                          /\ prim[q] # NoBuf => prim[q] \in Buf
      BY <2>3 DEF IInv, TypeOK, CurOK, CurPC, OwnPC
    <3> QED
      BY <3>1, <3>2, <3>3, <1>4 DEF IInv, WaitedFor, UnderWay
  <2>13. UniqueBlock'
    BY <2>2, <1>2, <1>4, UniqueKept
  <2>14. NoLostWakeup'
    <3>1. \A q \in Proc : pc[q] \in {"bufwait", "iosleep"} => cur[q] \in Buf
      BY DEF IInv, CurOK, CurPC, OwnPC
    <3> QED
      <4> SUFFICES ASSUME NEW q \in Proc
                   PROVE  /\ pc'[q] = "bufwait" => {"BUSY", "WANTED"} \subseteq flags'[cur[q]]
                          /\ pc'[q] = "iosleep" => cur[q] \in ioq' /\ "ASYNC" \notin flags'[cur[q]]
                          /\ pc'[q] = "freewait" => flWanted' /\ freelist' = <<>>
        BY <1>4 DEF NoLostWakeup
      <4>1. pc'[q] \in {"bufwait", "iosleep"} => pc[q] = pc'[q] /\ cur[q] \in Buf \ {b}
        BY <2>3, <3>1
      <4>2. pc'[q] = "freewait" => pc[q] = "freewait"
        BY <2>3
      <4> QED
        BY <4>1, <4>2, <2>1, <2>2, <1>4 DEF IInv, NoLostWakeup
  <2> QED
    BY <2>5, <2>6, <2>7, <2>9, <2>10, <2>11, <2>12, <2>13, <2>14 DEF IInv
<1> QED
  BY <1>5, <1>6

-----------------------------------------------------------------------------
(* The theorems                                                            *)

LEMMA InitInv == Init => IInv
<1> SUFFICES ASSUME Init PROVE IInv
  OBVIOUS
<1>1. NBuf \in Nat /\ freelist = [i \in 1..NBuf |-> i] /\ Buf = 1..NBuf
  BY NBufAssumption DEF Init, Buf
<1>2. freelist \in Seq(Buf) /\ Len(freelist) = NBuf
  BY <1>1, IsASeq, LenProperties
<1>3. ToSet(freelist) = Buf
  BY <1>1, <1>2 DEF ToSet
<1>4. TypeOK
  BY <1>1, <1>2 DEF Init, TypeOK, PC, Frame, NoCall, NoBuf, Flag
<1>5. FreeIffNotBusy
  BY <1>1, <1>2, <1>3 DEF Init, FreeIffNotBusy
<1>6. \A p \in Proc : Owned(p) = {}
  BY <1>1 DEF Init, Owned, NoBuf
<1>7. OneInKernel /\ CurOK /\ CallOK /\ PrimOK
  BY DEF Init, OneInKernel, CurOK, CallOK, PrimOK, InKernel, CurPC, OwnPC, GetPC
<1>8. Exclusive /\ OwnedOK /\ BusyOK /\ HeldIdle /\ WaitedFor
  BY <1>6 DEF Init, Exclusive, OwnedOK, BusyOK, HeldIdle, WaitedFor
<1>9. UniqueBlock /\ NoLostWakeup
  BY DEF Init, UniqueBlock, NoLostWakeup
<1> QED
  BY <1>4, <1>5, <1>7, <1>8, <1>9 DEF IInv

LEMMA KernelInv == ASSUME IInv, NEW p \in Proc, Kernel(p) PROVE IInv'
BY GetblkFoundStep, GetblkBusyStep, GetblkHitStep, FreelistEmptyStep, FlushHeadStep, ReassignStep,
   AgeMarkStep, GetblkReturnStep, BreadGotStep, BreadaGotStep, ReadaheadStep, ReadaheadGotStep,
   ReadaheadDoneStep, IowaitSleepStep, IowaitReturnStep, AsyncErrorStep, FlushOneStep,
   FlushDoneStep, BinvalStep
DEF Kernel

LEMMA CallerInv == ASSUME IInv, NEW p \in Proc, Caller(p) PROVE IInv'
BY BrelseStep, BwriteStep, BawriteStep, BdwriteStep DEF Caller

LEMMA CallInv == ASSUME IInv, NEW p \in Proc, Call(p) PROVE IInv'
<1>1. CASE \E kr \in RaPairs : Breada(p, kr[1], kr[2])
  <2>1. \A kr \in RaPairs : kr[1] \in Block /\ kr[2] \in Block \cup {NoBlock}
    BY RaAssumption
  <2> QED
    BY <1>1, <2>1, BreadaStep
<1> QED
  BY <1>1, GeteblkStep, SyncStep, GetblkStep, BreadStep, UmountStep DEF Call

LEMMA NextInv == IInv /\ [Next]_vars => IInv'
<1> SUFFICES ASSUME IInv, [Next]_vars PROVE IInv'
  OBVIOUS
<1>1. CASE Disk
  <2>1. \A e \in DiskErrors : e \in BOOLEAN
    BY CallsAssumption
  <2> QED
    BY <1>1, <2>1, DiskInterruptStep DEF Disk
<1>2. CASE \E p \in Proc : Kernel(p) \/ Caller(p) \/ Call(p)
  BY <1>2, KernelInv, CallerInv, CallInv
<1>3. CASE UNCHANGED vars
  <2>1. \A p \in Proc : Owned(p)' = Owned(p)
    BY <1>3 DEF vars, Owned
  <2> QED
    BY <1>3, <2>1 DEF vars, IInv, TypeOK, FreeIffNotBusy, OneInKernel, CurOK, CallOK, PrimOK, Exclusive,
       OwnedOK, BusyOK, HeldIdle, WaitedFor, UnderWay, UniqueBlock, NoLostWakeup
<1> QED
  BY <1>1, <1>2, <1>3 DEF Next

(* The inductive invariant holds in every reachable state.                 *)
THEOREM CacheInvariant == Spec => []IInv
BY InitInv, NextInv, PTL DEF Spec

(* Every register and table of the cache keeps its type.                   *)
THEOREM TypeCorrect == Spec => []TypeOK
<1>1. IInv => TypeOK
  BY DEF IInv
<1> QED
  BY <1>1, CacheInvariant, PTL

(* A buffer is on the available list exactly when it is not busy, and once;*)
(* bfreelist.b_bcount is the length of the list.                           *)
THEOREM AvailableIffNotBusy == Spec => []FreeIffNotBusy
<1>1. IInv => FreeIffNotBusy
  BY DEF IInv
<1> QED
  BY <1>1, CacheInvariant, PTL

(* A busy buffer has one holder: a process, or an asynchronous transfer.   *)
THEOREM ExclusiveHolder == Spec => []OneHolder
<1>1. IInv => OneHolder
  BY DEF IInv, Exclusive, OwnedOK, BusyOK, OneHolder
<1> QED
  BY <1>1, CacheInvariant, PTL

(* No block is in two valid buffers.                                       *)
THEOREM NoDuplicateBlock == Spec => []UniqueBlock
<1>1. IInv => UniqueBlock
  BY DEF IInv
<1> QED
  BY <1>1, CacheInvariant, PTL

(* No process sleeps in the cache without its wakeup to come.              *)
THEOREM WakeupsKept == Spec => []NoLostWakeup
<1>1. IInv => NoLostWakeup
  BY DEF IInv
<1> QED
  BY <1>1, CacheInvariant, PTL

-----------------------------------------------------------------------------
(* The store. While no transfer fails and no device is closed, no buffer is*)
(* marked B_ERROR or B_STALE, a buffer that was read or written is what is *)
(* on the disk unless its write is delayed, and whoever has a buffer that  *)
(* getblk found for a block still has that block.                          *)
Quiet == DiskErrors \subseteq {FALSE} /\ "umount" \notin Calls

NoneStale == \A b \in Buf : "STALE" \notin flags[b] /\ "ERROR" \notin flags[b]
NoneCloses == \A p \in Proc : u[p].call # "umount" /\ pc[p] # "inval"
Agree ==
  \A b \in Buf : blk[b] \in Block /\ "DONE" \in flags[b] /\ "DELWRI" \notin flags[b]
                   => data[b] = disk[blk[b]]
Placed ==
  \A p \in Proc :
    /\ pc[p] \in {"iowait", "iosleep"} => blk[cur[p]] \in Block
    /\ prim[p] # NoBuf => blk[prim[p]] \in Block
    /\ pc[p] = "use" /\ u[p].call # "geteblk" => blk[cur[p]] \in Block
    /\ pc[p] = "claim" => u[p].call # "geteblk"

CInv == NoneStale /\ NoneCloses /\ Agree /\ Placed

(* b speaks for its block, and what the block is if b holds it.            *)
Speaks(b) == "DONE" \in flags[b] \/ (b \in ioq /\ "READ" \notin flags[b])
Says(b) == IF Speaks(b) THEN data[b] ELSE disk[blk[b]]

LEMMA OneBuffer ==
  ASSUME IInv, CInv, NEW a \in Buf, NEW b \in Buf, blk[a] = blk[b], blk[a] \in Block
  PROVE  a = b
BY BlockAssumption DEF IInv, CInv, UniqueBlock, NoneStale

LEMMA OwnedBuf == ASSUME NEW p \in Proc PROVE Owned(p) \subseteq Buf /\ Owned(p)' \subseteq Buf
BY DEF Owned

(* The three parts of the store, by the buffers.                           *)
LEMMA ValueOf ==
  IInv /\ CInv => \A k \in Block :
    /\ \A b \in Buf : blk[b] = k => StoreValue[k] = Says(b)
    /\ (\A b \in Buf : blk[b] # k) => StoreValue[k] = disk[k]
<1> SUFFICES ASSUME IInv, CInv, NEW k \in Block
             PROVE  /\ \A b \in Buf : blk[b] = k => StoreValue[k] = Says(b)
                    /\ (\A b \in Buf : blk[b] # k) => StoreValue[k] = disk[k]
  OBVIOUS
<1>1. ASSUME NEW b \in Buf PROVE Valid(b, k) <=> blk[b] = k /\ Speaks(b)
  BY DEF Valid, Match, Speaks, CInv, NoneStale
<1>2. ASSUME NEW b \in Buf, blk[b] = k PROVE StoreValue[k] = Says(b)
  <2>1. CASE Speaks(b)
    <3>1. \A a \in Buf : Valid(a, k) <=> a = b
      BY <1>1, <1>2, <2>1, OneBuffer
    <3>2. (CHOOSE a \in Buf : Valid(a, k)) = b
      BY <3>1
    <3> QED BY <1>2, <2>1, <3>1, <3>2 DEF StoreValue, Says
  <2>2. CASE ~Speaks(b)
    <3>1. \A a \in Buf : ~Valid(a, k)
      BY <1>1, <1>2, <2>2, OneBuffer
    <3> QED BY <1>2, <2>2, <3>1 DEF StoreValue, Says
  <2> QED BY <2>1, <2>2
<1>3. ASSUME \A b \in Buf : blk[b] # k PROVE StoreValue[k] = disk[k]
  BY <1>1, <1>3 DEF StoreValue
<1> QED BY <1>2, <1>3

LEMMA ValueOfNext ==
  IInv' /\ CInv' => \A k \in Block :
    /\ \A b \in Buf : blk'[b] = k => StoreValue'[k] = Says(b)'
    /\ (\A b \in Buf : blk'[b] # k) => StoreValue'[k] = disk'[k]
<1>1. (IInv /\ CInv => \A k \in Block :
         /\ \A b \in Buf : blk[b] = k => StoreValue[k] = Says(b)
         /\ (\A b \in Buf : blk[b] # k) => StoreValue[k] = disk[k])'
  BY ValueOf, PTL
<1> QED BY <1>1

(* p has a buffer of block k.                                             *)
Has(p, k) == \E b \in Owned(p) : blk[b] = k

LEMMA OwnerOf ==
  ASSUME CInv, NEW k \in Block
  PROVE  StoreOwner[k] \subseteq Proc /\ \A p \in Proc : p \in StoreOwner[k] <=> Has(p, k)
BY OwnedBuf DEF StoreOwner, Match, CInv, NoneStale, Has

LEMMA OwnerOfNext ==
  ASSUME CInv', NEW k \in Block
  PROVE  StoreOwner'[k] \subseteq Proc /\ \A p \in Proc : p \in StoreOwner'[k] <=> Has(p, k)'
BY OwnedBuf DEF StoreOwner, Match, CInv, NoneStale, Has

LEMMA SameOwner ==
  ASSUME CInv, CInv', NEW k \in Block, \A q \in Proc : Has(q, k)' <=> Has(q, k)
  PROVE  StoreOwner'[k] = StoreOwner[k]
<1>1. \A q \in StoreOwner'[k] \cup StoreOwner[k] : q \in StoreOwner'[k] <=> q \in StoreOwner[k]
  BY OwnerOf, OwnerOfNext
<1> QED BY <1>1

(* Those of others that a step leaves alone, except that it wakes some.    *)
Awoken(q) ==
  \/ pc'[q] = pc[q]
  \/ pc[q] = "iosleep" /\ pc'[q] = "iowait"
  \/ pc[q] \in {"bufwait", "freewait"} /\ pc'[q] = "woken"
Elsewhere(ps) ==
  \A q \in Proc \ ps : Awoken(q) /\ cur'[q] = cur[q] /\ prim'[q] = prim[q] /\ u'[q] = u[q]

LEMMA ElsewhereOwned ==
  ASSUME NEW ps, Elsewhere(ps), NEW q \in Proc \ ps PROVE Owned(q)' = Owned(q)
BY DEF Elsewhere, Awoken, Owned

(* How a step changes the values.                                          *)
LEMMA ValueKept ==
  ASSUME IInv, IInv', CInv, CInv', UNCHANGED blk,
         \A b \in Buf : blk[b] \in Block => Says(b)' = Says(b),
         \A k \in Block : (\A b \in Buf : blk[b] # k) => disk'[k] = disk[k]
  PROVE  StoreValue' = StoreValue
<1>1. ASSUME NEW k \in Block PROVE StoreValue'[k] = StoreValue[k]
  BY <1>1, ValueOf, ValueOfNext
<1> QED BY <1>1 DEF StoreValue

LEMMA ValueWritten ==
  ASSUME IInv, IInv', CInv, CInv', UNCHANGED <<blk, disk>>, NEW c \in Buf, blk[c] \in Block,
         \A b \in Buf \ {c} : blk[b] \in Block => Says(b)' = Says(b)
  PROVE  StoreValue' = [StoreValue EXCEPT ![blk[c]] = Says(c)']
<1>1. ASSUME NEW k \in Block, k # blk[c] PROVE StoreValue'[k] = StoreValue[k]
  BY <1>1, ValueOf, ValueOfNext
<1>2. StoreValue'[blk[c]] = Says(c)'
  BY ValueOfNext
<1> QED BY <1>1, <1>2 DEF StoreValue

(* How a step changes who has which block.                                 *)
LEMMA OwnerKept ==
  ASSUME CInv, CInv', \A q \in Proc : Owned(q)' = Owned(q),
         \A q \in Proc : \A b \in Owned(q) : blk'[b] = blk[b]
  PROVE  StoreOwner' = StoreOwner
<1>1. ASSUME NEW k \in Block PROVE StoreOwner'[k] = StoreOwner[k]
  BY SameOwner DEF Has
<1> QED BY <1>1 DEF StoreOwner

LEMMA OwnerTaken ==
  ASSUME IInv, IInv', CInv, CInv', NEW p \in Proc, Elsewhere({p}), NEW c \in Buf, blk'[c] \in Block,
         Owned(p)' = Owned(p) \cup {c}, \A q \in Proc : c \notin Owned(q),
         \A b \in Buf \ {c} : blk'[b] = blk[b]
  PROVE  StoreOwner[blk'[c]] = {} /\ StoreOwner' = [StoreOwner EXCEPT ![blk'[c]] = {p}]
<1>1. \A q \in Proc : \A b \in Owned(q) : b \in Buf \ {c} /\ blk'[b] = blk[b] /\ blk[b] # blk'[c]
  <2>1. ASSUME NEW q \in Proc, NEW b \in Owned(q) PROVE b \in Buf \ {c} /\ blk'[b] = blk[b] /\ blk[b] # blk'[c]
    <3>1. b \in Buf \ {c} /\ blk'[b] = blk[b]
      BY OwnedBuf
    <3>2. ASSUME NEW a \in Buf, NEW d \in Buf, blk'[a] = blk'[d], blk'[a] \in Block PROVE a = d
      BY <3>2, BlockAssumption DEF IInv, CInv, UniqueBlock, NoneStale
    <3> QED BY <3>1, <3>2
  <2> QED BY <2>1
<1>2. \A q \in Proc \ {p} : Owned(q)' = Owned(q)
  BY ElsewhereOwned
<1>3. StoreOwner[blk'[c]] = {}
  <2>1. \A q \in Proc : ~Has(q, blk'[c])
    BY <1>1 DEF Has
  <2> QED BY <2>1, OwnerOf
<1>4. StoreOwner'[blk'[c]] = {p}
  <2>1. \A q \in Proc : Has(q, blk[c])' <=> q = p
    BY <1>1, <1>2 DEF Has
  <2> QED BY <2>1, OwnerOfNext
<1>5. ASSUME NEW k \in Block, k # blk'[c] PROVE StoreOwner'[k] = StoreOwner[k]
  <2>1. \A q \in Proc : Has(q, k)' <=> Has(q, k)
    BY <1>1, <1>2, <1>5 DEF Has
  <2> QED BY <2>1, SameOwner
<1> QED BY <1>3, <1>4, <1>5 DEF StoreOwner

LEMMA OwnerHas ==
  ASSUME IInv, CInv, NEW p \in Proc, NEW c \in Owned(p), blk[c] \in Block
  PROVE  StoreOwner[blk[c]] = {p}
<1>1. \A q \in Proc : \A b \in Owned(q) : blk[b] = blk[c] => b = c /\ q = p
  BY OwnedBuf, OneBuffer DEF IInv, Exclusive
<1>2. \A q \in Proc : Has(q, blk[c]) <=> q = p
  BY <1>1 DEF Has
<1> QED BY <1>2, OwnerOf

LEMMA OwnerGiven ==
  ASSUME IInv, CInv, CInv', NEW p \in Proc, Elsewhere({p}), NEW c \in Owned(p), UNCHANGED blk,
         Owned(p)' = Owned(p) \ {c}
  PROVE  IF blk[c] \in Block THEN StoreOwner' = [StoreOwner EXCEPT ![blk[c]] = {}]
                             ELSE StoreOwner' = StoreOwner
<1>1. \A q \in Proc \ {p} : Owned(q)' = Owned(q)
  BY ElsewhereOwned
<1>2. ASSUME NEW k \in Block, k # blk[c] PROVE StoreOwner'[k] = StoreOwner[k]
  <2>1. \A q \in Proc : Has(q, k)' <=> Has(q, k)
    BY <1>1, <1>2 DEF Has
  <2> QED BY <2>1, SameOwner
<1>3. ASSUME blk[c] \in Block PROVE StoreOwner'[blk[c]] = {}
  <2>1. \A q \in Proc : \A b \in Owned(q) : blk[b] = blk[c] => b = c /\ q = p
    BY <1>3, OwnedBuf, OneBuffer DEF IInv, Exclusive
  <2>2. \A q \in Proc : ~Has(q, blk[c])'
    BY <1>1, <2>1 DEF Has
  <2> QED BY <1>3, <2>2, OwnerOfNext
<1>4. CASE blk[c] \in Block
  BY <1>2, <1>3, <1>4 DEF StoreOwner
<1>5. CASE blk[c] \notin Block
  <2>1. \A k \in Block : StoreOwner'[k] = StoreOwner[k]
    BY <1>2, <1>5
  <2> QED BY <1>5, <2>1 DEF StoreOwner
<1> QED BY <1>4, <1>5

(* How a step changes what is seen.                                        *)
LEMMA ViewElsewhere ==
  ASSUME IInv, NEW ps, Elsewhere(ps), NEW q \in Proc \ ps, \A b \in Owned(q) \ ioq : data'[b] = data[b]
  PROVE  StoreView'[q] = StoreView[q]
<1>1. pc'[q] = "use" <=> pc[q] = "use"
  BY DEF Elsewhere, Awoken
<1>2. pc[q] = "use" => cur[q] \in Owned(q) \ ioq
  BY DEF IInv, CurOK, CurPC, OwnPC, HeldIdle, Owned
<1> QED BY <1>1, <1>2 DEF StoreView, Elsewhere

LEMMA ViewFun ==
  /\ StoreView = [q \in Proc |-> StoreView[q]]
  /\ StoreView' = [q \in Proc |-> StoreView'[q]]
BY DEF StoreView

LEMMA ViewSet ==
  ASSUME IInv, NEW p \in Proc, Elsewhere({p}), \A q \in Proc \ {p} : \A b \in Owned(q) \ ioq : data'[b] = data[b]
  PROVE  StoreView' = [StoreView EXCEPT ![p] = StoreView'[p]]
<1>1. \A q \in Proc \ {p} : StoreView'[q] = StoreView[q]
  BY ViewElsewhere
<1> QED BY <1>1, ViewFun

LEMMA ViewSame ==
  ASSUME IInv, NEW p \in Proc, Elsewhere({p}), StoreView'[p] = StoreView[p],
         \A q \in Proc \ {p} : \A b \in Owned(q) \ ioq : data'[b] = data[b]
  PROVE  StoreView' = StoreView
<1>1. \A q \in Proc : StoreView'[q] = StoreView[q]
  BY ViewElsewhere
<1> QED BY <1>1, ViewFun

(* The parts of CInv that a step of p can disturb.                         *)
PlacedAt(p) ==
  /\ u[p].call # "umount" /\ pc[p] # "inval"
  /\ pc[p] \in {"iowait", "iosleep"} => blk[cur[p]] \in Block
  /\ prim[p] # NoBuf => blk[prim[p]] \in Block
  /\ pc[p] = "use" /\ u[p].call # "geteblk" => blk[cur[p]] \in Block
  /\ pc[p] = "claim" => u[p].call # "geteblk"

LEMMA OthersPlaced ==
  ASSUME IInv, CInv, NEW ps, Elsewhere(ps), NEW q \in Proc \ ps, \A b \in Owned(q) : blk'[b] = blk[b]
  PROVE  PlacedAt(q)'
<1>1. /\ pc'[q] \in {"iowait", "iosleep"} <=> pc[q] \in {"iowait", "iosleep"}
      /\ pc'[q] = "use" <=> pc[q] = "use"
      /\ pc'[q] = "inval" <=> pc[q] = "inval"
      /\ pc'[q] = "claim" <=> pc[q] = "claim"
      /\ cur'[q] = cur[q] /\ prim'[q] = prim[q] /\ u'[q] = u[q]
  BY DEF Elsewhere, Awoken
<1>2. /\ pc[q] \in {"iowait", "iosleep", "use"} => blk'[cur[q]] = blk[cur[q]]
      /\ prim[q] # NoBuf => blk'[prim[q]] = blk[prim[q]]
  BY DEF IInv, TypeOK, CurOK, CurPC, OwnPC, Owned
<1> QED BY <1>1, <1>2 DEF PlacedAt, CInv, NoneCloses, Placed

LEMMA CKept ==
  ASSUME IInv, CInv, NEW ps \in SUBSET Proc, Elsewhere(ps), NoneStale', Agree', \A p \in ps : PlacedAt(p)',
         \A q \in Proc \ ps : \A b \in Owned(q) : blk'[b] = blk[b]
  PROVE  CInv'
<1>1. \A q \in Proc : PlacedAt(q)'
  BY OthersPlaced
<1> QED BY <1>1 DEF CInv, NoneCloses, Placed, PlacedAt

(* What changes neither buffers nor their holders.                         *)
LEMMA StoreKept ==
  ASSUME IInv, IInv', CInv, NEW p \in Proc, Elsewhere({p}), UNCHANGED <<blk, data, ioq, disk>>,
         SameFlag("DONE"), SameFlag("READ"), SameFlag("DELWRI"), NoneStale',
         Owned(p)' = Owned(p), PlacedAt(p)',
         pc[p] = "use" => u[p].call # "bread", pc'[p] = "use" => u'[p].call # "bread"
  PROVE  CInv' /\ UNCHANGED Store!storevars
<1>1. Agree'
  BY DEF CInv, Agree, SameFlag
<1>2. CInv'
  BY <1>1, CKept
<1>3. \A b \in Buf : Says(b)' = Says(b)
  BY DEF Says, Speaks, SameFlag
<1>4. StoreValue' = StoreValue
  BY <1>2, <1>3, ValueKept
<1>5. StoreOwner' = StoreOwner
  BY <1>2, OwnerKept, ElsewhereOwned
<1>6. StoreView' = StoreView
  <2>1. StoreView'[p] = StoreView[p]
    BY DEF StoreView
  <2> QED BY <2>1, ViewSame
<1> QED BY <1>2, <1>4, <1>5, <1>6 DEF Store!storevars

-----------------------------------------------------------------------------
(* The steps that the store does not see.                                  *)
LEMMA Frames ==
  ASSUME NEW e \in BOOLEAN, NEW f \in Frame
  PROVE  NoCall.call = "none" /\ [NoCall EXCEPT !.err = e].call = "none" /\ [f EXCEPT !.err = e].call = f.call
BY DEF NoCall, Frame

LEMMA GetblkFoundStore == ASSUME IInv, IInv', CInv, Quiet, NEW p \in Proc, GetblkFound(p) PROVE CInv' /\ UNCHANGED Store!storevars
<1>1. /\ Elsewhere({p}) /\ UNCHANGED <<blk, data, ioq, disk>>
      /\ SameFlag("DONE") /\ SameFlag("READ") /\ SameFlag("DELWRI") /\ NoneStale'
  BY DEF GetblkFound, AtLoop, IInv, TypeOK, CInv, NoneStale, bufvars, Elsewhere, Awoken, SameFlag
<1>2. Owned(p)' = Owned(p)
  BY BlockAssumption DEF GetblkFound, AtLoop, IInv, TypeOK, PrimOK, CallOK, GetPC, GetCalls, bufvars, Owned
<1>3. /\ PlacedAt(p)'
      /\ pc[p] = "use" => u[p].call # "bread"
      /\ pc'[p] = "use" => u'[p].call # "bread"
  BY DEF GetblkFound, AtLoop, IInv, TypeOK, PrimOK, CallOK, GetPC, GetCalls, Frame, NoCall, PlacedAt, CInv, Placed, NoneCloses, bufvars, Quiet
<1> QED BY <1>1, <1>2, <1>3, StoreKept

LEMMA GetblkBusyStore == ASSUME IInv, IInv', CInv, Quiet, NEW p \in Proc, GetblkBusy(p) PROVE CInv' /\ UNCHANGED Store!storevars
<1>1. /\ Elsewhere({p}) /\ UNCHANGED <<blk, data, ioq, disk>>
      /\ SameFlag("DONE") /\ SameFlag("READ") /\ SameFlag("DELWRI") /\ NoneStale'
  BY DEF GetblkBusy, IInv, TypeOK, CInv, NoneStale, bufvars, Elsewhere, Awoken, SameFlag
<1>2. Owned(p)' = Owned(p)
  BY BlockAssumption DEF GetblkBusy, IInv, TypeOK, PrimOK, CallOK, GetPC, GetCalls, bufvars, Owned
<1>3. /\ PlacedAt(p)'
      /\ pc[p] = "use" => u[p].call # "bread"
      /\ pc'[p] = "use" => u'[p].call # "bread"
  BY DEF GetblkBusy, IInv, TypeOK, PrimOK, CallOK, GetPC, GetCalls, Frame, NoCall, PlacedAt, CInv, Placed, NoneCloses, bufvars, Quiet
<1> QED BY <1>1, <1>2, <1>3, StoreKept

LEMMA FreelistEmptyStore == ASSUME IInv, IInv', CInv, Quiet, NEW p \in Proc, FreelistEmpty(p) PROVE CInv' /\ UNCHANGED Store!storevars
<1>1. /\ Elsewhere({p}) /\ UNCHANGED <<blk, data, ioq, disk>>
      /\ SameFlag("DONE") /\ SameFlag("READ") /\ SameFlag("DELWRI") /\ NoneStale'
  BY DEF FreelistEmpty, AtLoop, IInv, TypeOK, CInv, NoneStale, bufvars, Elsewhere, Awoken, SameFlag
<1>2. Owned(p)' = Owned(p)
  BY BlockAssumption DEF FreelistEmpty, AtLoop, IInv, TypeOK, PrimOK, CallOK, GetPC, GetCalls, bufvars, Owned
<1>3. /\ PlacedAt(p)'
      /\ pc[p] = "use" => u[p].call # "bread"
      /\ pc'[p] = "use" => u'[p].call # "bread"
  BY DEF FreelistEmpty, AtLoop, IInv, TypeOK, PrimOK, CallOK, GetPC, GetCalls, Frame, NoCall, PlacedAt, CInv, Placed, NoneCloses, bufvars, Quiet
<1> QED BY <1>1, <1>2, <1>3, StoreKept

LEMMA AgeMarkStore == ASSUME IInv, IInv', CInv, Quiet, NEW p \in Proc, AgeMark(p) PROVE CInv' /\ UNCHANGED Store!storevars
<1>1. /\ Elsewhere({p}) /\ UNCHANGED <<blk, data, ioq, disk>>
      /\ SameFlag("DONE") /\ SameFlag("READ") /\ SameFlag("DELWRI") /\ NoneStale'
  BY DEF AgeMark, IInv, TypeOK, CInv, NoneStale, bufvars, Elsewhere, Awoken, SameFlag
<1>2. Owned(p)' = Owned(p)
  BY BlockAssumption DEF AgeMark, IInv, TypeOK, PrimOK, CallOK, GetPC, GetCalls, bufvars, Owned
<1>3. /\ PlacedAt(p)'
      /\ pc[p] = "use" => u[p].call # "bread"
      /\ pc'[p] = "use" => u'[p].call # "bread"
  BY DEF AgeMark, IInv, TypeOK, PrimOK, CallOK, GetPC, GetCalls, Frame, NoCall, PlacedAt, CInv, Placed, NoneCloses, bufvars, Quiet
<1> QED BY <1>1, <1>2, <1>3, StoreKept

LEMMA GetblkReturnStore == ASSUME IInv, IInv', CInv, Quiet, NEW p \in Proc, GetblkReturn(p) PROVE CInv' /\ UNCHANGED Store!storevars
<1>1. /\ Elsewhere({p}) /\ UNCHANGED <<blk, data, ioq, disk>>
      /\ SameFlag("DONE") /\ SameFlag("READ") /\ SameFlag("DELWRI") /\ NoneStale'
  BY DEF GetblkReturn, IInv, TypeOK, CInv, NoneStale, bufvars, Elsewhere, Awoken, SameFlag
<1>2. Owned(p)' = Owned(p)
  BY BlockAssumption DEF GetblkReturn, IInv, TypeOK, PrimOK, CallOK, GetPC, GetCalls, bufvars, Owned
<1>3. /\ PlacedAt(p)'
      /\ pc[p] = "use" => u[p].call # "bread"
      /\ pc'[p] = "use" => u'[p].call # "bread"
  BY DEF GetblkReturn, IInv, TypeOK, PrimOK, CallOK, GetPC, GetCalls, Frame, NoCall, PlacedAt, CInv, Placed, NoneCloses, bufvars, Quiet
<1> QED BY <1>1, <1>2, <1>3, StoreKept

LEMMA ReadaheadStore == ASSUME IInv, IInv', CInv, Quiet, NEW p \in Proc, Readahead(p) PROVE CInv' /\ UNCHANGED Store!storevars
<1>1. /\ Elsewhere({p}) /\ UNCHANGED <<blk, data, ioq, disk>>
      /\ SameFlag("DONE") /\ SameFlag("READ") /\ SameFlag("DELWRI") /\ NoneStale'
  BY DEF Readahead, WantsReadahead, IInv, TypeOK, CInv, NoneStale, bufvars, Elsewhere, Awoken, SameFlag
<1>2. Owned(p)' = Owned(p)
  BY BlockAssumption DEF Readahead, WantsReadahead, IInv, TypeOK, PrimOK, CallOK, GetPC, GetCalls, bufvars, Owned
<1>3. /\ PlacedAt(p)'
      /\ pc[p] = "use" => u[p].call # "bread"
      /\ pc'[p] = "use" => u'[p].call # "bread"
  BY DEF Readahead, WantsReadahead, IInv, TypeOK, PrimOK, CallOK, GetPC, GetCalls, Frame, NoCall, PlacedAt, CInv, Placed, NoneCloses, bufvars, Quiet
<1> QED BY <1>1, <1>2, <1>3, StoreKept

LEMMA ReadaheadDoneStore == ASSUME IInv, IInv', CInv, Quiet, NEW p \in Proc, ReadaheadDone(p) PROVE CInv' /\ UNCHANGED Store!storevars
<1>1. /\ Elsewhere({p}) /\ UNCHANGED <<blk, data, ioq, disk>>
      /\ SameFlag("DONE") /\ SameFlag("READ") /\ SameFlag("DELWRI") /\ NoneStale'
  BY DEF ReadaheadDone, IInv, TypeOK, CInv, NoneStale, bufvars, Elsewhere, Awoken, SameFlag
<1>2. Owned(p)' = Owned(p)
  BY BlockAssumption DEF ReadaheadDone, IInv, TypeOK, PrimOK, bufvars, Owned, Buf, NoBuf
<1>3. /\ pc'[p] \in {"search", "iowait"} /\ cur'[p] = prim[p] /\ prim'[p] = NoBuf
      /\ pc'[p] = "iowait" => prim[p] # NoBuf
      /\ UNCHANGED blk
  BY DEF ReadaheadDone, IInv, TypeOK, bufvars
<1>4. u'[p].call = "bread"
  <2>1. u[p] \in Frame /\ u'[p] = [u[p] EXCEPT !.call = "bread", !.want = u[p].first, !.first = NoBlock, !.ra = NoBlock]
    BY DEF ReadaheadDone, IInv, TypeOK
  <2> QED BY <2>1 DEF Frame
<1>5. PlacedAt(p)'
  BY <1>3, <1>4 DEF PlacedAt, CInv, Placed
<1>6. pc[p] # "use" /\ pc'[p] # "use"
  BY <1>3 DEF ReadaheadDone
<1> QED BY <1>1, <1>2, <1>5, <1>6, StoreKept

LEMMA IowaitSleepStore == ASSUME IInv, IInv', CInv, Quiet, NEW p \in Proc, IowaitSleep(p) PROVE CInv' /\ UNCHANGED Store!storevars
<1>1. /\ Elsewhere({p}) /\ UNCHANGED <<blk, data, ioq, disk>>
      /\ SameFlag("DONE") /\ SameFlag("READ") /\ SameFlag("DELWRI") /\ NoneStale'
  BY DEF IowaitSleep, IInv, TypeOK, CInv, NoneStale, bufvars, Elsewhere, Awoken, SameFlag
<1>2. Owned(p)' = Owned(p)
  BY BlockAssumption DEF IowaitSleep, IInv, TypeOK, PrimOK, CallOK, GetPC, GetCalls, bufvars, Owned
<1>3. /\ PlacedAt(p)'
      /\ pc[p] = "use" => u[p].call # "bread"
      /\ pc'[p] = "use" => u'[p].call # "bread"
  BY DEF IowaitSleep, IInv, TypeOK, PrimOK, CallOK, GetPC, GetCalls, Frame, NoCall, PlacedAt, CInv, Placed, NoneCloses, bufvars, Quiet
<1> QED BY <1>1, <1>2, <1>3, StoreKept

LEMMA AsyncErrorStore == ASSUME IInv, IInv', CInv, Quiet, NEW p \in Proc, AsyncError(p) PROVE CInv' /\ UNCHANGED Store!storevars
<1>1. /\ Elsewhere({p}) /\ UNCHANGED <<blk, data, ioq, disk>>
      /\ SameFlag("DONE") /\ SameFlag("READ") /\ SameFlag("DELWRI") /\ NoneStale'
  BY DEF AsyncError, IInv, TypeOK, CInv, NoneStale, bufvars, Elsewhere, Awoken, SameFlag
<1>2. Owned(p)' = Owned(p)
  BY BlockAssumption DEF AsyncError, IInv, TypeOK, PrimOK, CallOK, GetPC, GetCalls, bufvars, Owned
<1>3. /\ PlacedAt(p)'
      /\ pc[p] = "use" => u[p].call # "bread"
      /\ pc'[p] = "use" => u'[p].call # "bread"
  BY Frames, ("ERROR" \in flags[cur[p]]) \in BOOLEAN DEF AsyncError, IInv, TypeOK, PrimOK, CallOK, GetPC, GetCalls, Frame, NoCall, PlacedAt, CInv, Placed, NoneCloses, bufvars, Quiet
<1> QED BY <1>1, <1>2, <1>3, StoreKept

LEMMA FlushDoneStore == ASSUME IInv, IInv', CInv, Quiet, NEW p \in Proc, FlushDone(p) PROVE CInv' /\ UNCHANGED Store!storevars
<1>1. /\ Elsewhere({p}) /\ UNCHANGED <<blk, data, ioq, disk>>
      /\ SameFlag("DONE") /\ SameFlag("READ") /\ SameFlag("DELWRI") /\ NoneStale'
  BY DEF FlushDone, IInv, TypeOK, CInv, NoneStale, bufvars, Elsewhere, Awoken, SameFlag
<1>2. Owned(p)' = Owned(p)
  BY BlockAssumption DEF FlushDone, IInv, TypeOK, PrimOK, CallOK, GetPC, GetCalls, bufvars, Owned
<1>3. /\ PlacedAt(p)'
      /\ pc[p] = "use" => u[p].call # "bread"
      /\ pc'[p] = "use" => u'[p].call # "bread"
  BY DEF FlushDone, IInv, TypeOK, PrimOK, CallOK, GetPC, GetCalls, Frame, NoCall, PlacedAt, CInv, Placed, NoneCloses, bufvars, Quiet
<1> QED BY <1>1, <1>2, <1>3, StoreKept

LEMMA GeteblkStore == ASSUME IInv, IInv', CInv, Quiet, NEW p \in Proc, Geteblk(p) PROVE CInv' /\ UNCHANGED Store!storevars
<1>1. /\ Elsewhere({p}) /\ UNCHANGED <<blk, data, ioq, disk>>
      /\ SameFlag("DONE") /\ SameFlag("READ") /\ SameFlag("DELWRI") /\ NoneStale'
  BY DEF Geteblk, NewCall, IInv, TypeOK, CInv, NoneStale, bufvars, Elsewhere, Awoken, SameFlag
<1>2. Owned(p)' = Owned(p)
  BY BlockAssumption DEF Geteblk, NewCall, IInv, TypeOK, PrimOK, CallOK, GetPC, GetCalls, bufvars, Owned
<1>3. /\ PlacedAt(p)'
      /\ pc[p] = "use" => u[p].call # "bread"
      /\ pc'[p] = "use" => u'[p].call # "bread"
  BY DEF Geteblk, NewCall, IInv, TypeOK, PrimOK, CallOK, GetPC, GetCalls, Frame, NoCall, PlacedAt, CInv, Placed, NoneCloses, bufvars, Quiet
<1> QED BY <1>1, <1>2, <1>3, StoreKept

LEMMA SyncStore == ASSUME IInv, IInv', CInv, Quiet, NEW p \in Proc, Sync(p) PROVE CInv' /\ UNCHANGED Store!storevars
<1>1. /\ Elsewhere({p}) /\ UNCHANGED <<blk, data, ioq, disk>>
      /\ SameFlag("DONE") /\ SameFlag("READ") /\ SameFlag("DELWRI") /\ NoneStale'
  BY DEF Sync, NewCall, IInv, TypeOK, CInv, NoneStale, bufvars, Elsewhere, Awoken, SameFlag
<1>2. Owned(p)' = Owned(p)
  BY BlockAssumption DEF Sync, NewCall, IInv, TypeOK, PrimOK, CallOK, GetPC, GetCalls, bufvars, Owned
<1>3. /\ PlacedAt(p)'
      /\ pc[p] = "use" => u[p].call # "bread"
      /\ pc'[p] = "use" => u'[p].call # "bread"
  BY DEF Sync, NewCall, IInv, TypeOK, PrimOK, CallOK, GetPC, GetCalls, Frame, NoCall, PlacedAt, CInv, Placed, NoneCloses, bufvars, Quiet
<1> QED BY <1>1, <1>2, <1>3, StoreKept

LEMMA GetblkStore == ASSUME IInv, IInv', CInv, Quiet, NEW p \in Proc, NEW k \in Block, Getblk(p, k) PROVE CInv' /\ UNCHANGED Store!storevars
<1>1. /\ Elsewhere({p}) /\ UNCHANGED <<blk, data, ioq, disk>>
      /\ SameFlag("DONE") /\ SameFlag("READ") /\ SameFlag("DELWRI") /\ NoneStale'
  BY DEF Getblk, NewCall, IInv, TypeOK, CInv, NoneStale, bufvars, Elsewhere, Awoken, SameFlag
<1>2. Owned(p)' = Owned(p)
  BY BlockAssumption DEF Getblk, NewCall, IInv, TypeOK, PrimOK, CallOK, GetPC, GetCalls, bufvars, Owned
<1>3. /\ PlacedAt(p)'
      /\ pc[p] = "use" => u[p].call # "bread"
      /\ pc'[p] = "use" => u'[p].call # "bread"
  BY DEF Getblk, NewCall, IInv, TypeOK, PrimOK, CallOK, GetPC, GetCalls, Frame, NoCall, PlacedAt, CInv, Placed, NoneCloses, bufvars, Quiet
<1> QED BY <1>1, <1>2, <1>3, StoreKept

LEMMA BreadStore == ASSUME IInv, IInv', CInv, Quiet, NEW p \in Proc, NEW k \in Block, Bread(p, k) PROVE CInv' /\ UNCHANGED Store!storevars
<1>1. /\ Elsewhere({p}) /\ UNCHANGED <<blk, data, ioq, disk>>
      /\ SameFlag("DONE") /\ SameFlag("READ") /\ SameFlag("DELWRI") /\ NoneStale'
  BY DEF Bread, NewCall, IInv, TypeOK, CInv, NoneStale, bufvars, Elsewhere, Awoken, SameFlag
<1>2. Owned(p)' = Owned(p)
  BY BlockAssumption DEF Bread, NewCall, IInv, TypeOK, PrimOK, CallOK, GetPC, GetCalls, bufvars, Owned
<1>3. /\ PlacedAt(p)'
      /\ pc[p] = "use" => u[p].call # "bread"
      /\ pc'[p] = "use" => u'[p].call # "bread"
  BY DEF Bread, NewCall, IInv, TypeOK, PrimOK, CallOK, GetPC, GetCalls, Frame, NoCall, PlacedAt, CInv, Placed, NoneCloses, bufvars, Quiet
<1> QED BY <1>1, <1>2, <1>3, StoreKept

LEMMA BreadaStore == ASSUME IInv, IInv', CInv, Quiet, NEW p \in Proc, NEW k \in Block, NEW r \in Block \cup {NoBlock}, Breada(p, k, r) PROVE CInv' /\ UNCHANGED Store!storevars
<1>1. /\ Elsewhere({p}) /\ UNCHANGED <<blk, data, ioq, disk>>
      /\ SameFlag("DONE") /\ SameFlag("READ") /\ SameFlag("DELWRI") /\ NoneStale'
  BY DEF Breada, NewCall, IInv, TypeOK, CInv, NoneStale, bufvars, Elsewhere, Awoken, SameFlag
<1>2. Owned(p)' = Owned(p)
  BY BlockAssumption DEF Breada, NewCall, IInv, TypeOK, PrimOK, CallOK, GetPC, GetCalls, bufvars, Owned
<1>3. /\ PlacedAt(p)'
      /\ pc[p] = "use" => u[p].call # "bread"
      /\ pc'[p] = "use" => u'[p].call # "bread"
  BY DEF Breada, NewCall, IInv, TypeOK, PrimOK, CallOK, GetPC, GetCalls, Frame, NoCall, PlacedAt, CInv, Placed, NoneCloses, bufvars, Quiet
<1> QED BY <1>1, <1>2, <1>3, StoreKept

-----------------------------------------------------------------------------
(* The steps that change one buffer, and not its contents.                 *)
LEMMA BufferKept ==
  ASSUME IInv, IInv', CInv, NEW ps \in SUBSET Proc, Elsewhere(ps), \A p \in ps : PlacedAt(p)',
         NEW c \in Buf, UNCHANGED <<blk, data, disk>>,
         \A b \in Buf \ {c} : flags'[b] = flags[b] /\ (b \in ioq' <=> b \in ioq),
         "STALE" \notin flags'[c], "ERROR" \notin flags'[c],
         blk[c] \in Block => /\ Says(c)' = Says(c)
                             /\ "DONE" \in flags'[c] /\ "DELWRI" \notin flags'[c] => data[c] = disk[blk[c]]
  PROVE  CInv' /\ StoreValue' = StoreValue
<1>1. NoneStale' /\ Agree'
  BY DEF CInv, NoneStale, Agree
<1>2. CInv'
  BY <1>1, CKept
<1>3. \A b \in Buf : blk[b] \in Block => Says(b)' = Says(b)
  BY DEF Says, Speaks
<1> QED BY <1>2, <1>3, ValueKept

LEMMA ReleasedKept ==
  ASSUME NEW F \in SUBSET Flag, "ERROR" \notin F
  PROVE  ReleasedFlags(F) = F \ {"WANTED", "BUSY", "ASYNC", "AGE"}
BY DEF ReleasedFlags

(* A delayed write is started.                                             *)
LEMMA FlushAsyncStore ==
  ASSUME IInv, IInv', CInv, NEW p \in Proc, Others(p), NEW i \in 1..Len(freelist), FlushAsync(i),
         "DELWRI" \in flags[freelist[i]], UNCHANGED <<blk, data, disk>>,
         Owned(p)' = Owned(p), PlacedAt(p)', pc[p] # "use", pc'[p] # "use"
  PROVE  CInv' /\ UNCHANGED Store!storevars
<1>1. PICK c \in Buf : c = freelist[i] /\ c \notin ioq
  BY FreeBuffer
<1>2. /\ flags'[c] = WriteFlags(flags[c] \cup {"BUSY", "ASYNC"}) /\ c \in ioq'
      /\ \A b \in Buf \ {c} : flags'[b] = flags[b] /\ (b \in ioq' <=> b \in ioq)
  BY <1>1 DEF FlushAsync, IInv, TypeOK
<1>3. "DONE" \in flags[c] /\ "STALE" \notin flags[c]
  BY <1>1 DEF IInv, BusyOK, CInv, NoneStale
<1>4. /\ "STALE" \notin flags'[c] /\ "ERROR" \notin flags'[c] /\ "DONE" \notin flags'[c]
      /\ "READ" \notin flags'[c]
  BY <1>2, <1>3 DEF WriteFlags
<1>5. Says(c)' = data[c] /\ Says(c) = data[c]
  BY <1>2, <1>3, <1>4 DEF Says, Speaks
<1>6. Elsewhere({p})
  BY DEF Others, Elsewhere, Awoken
<1>7. CInv' /\ StoreValue' = StoreValue
  <2> DEFINE ps == {p}
  <2>1. ps \in SUBSET Proc /\ Elsewhere(ps) /\ \A q \in ps : PlacedAt(q)'
    BY <1>6
  <2> HIDE DEF ps
  <2> QED BY <1>1, <1>2, <1>4, <1>5, <2>1, BufferKept
<1>8. StoreOwner' = StoreOwner
  BY <1>6, <1>7, OwnerKept, ElsewhereOwned
<1>9. StoreView' = StoreView
  <2>1. StoreView'[p] = StoreView[p]
    BY DEF StoreView
  <2> QED BY <1>6, <2>1, ViewSame
<1> QED BY <1>7, <1>8, <1>9 DEF Store!storevars

LEMMA FlushHeadStore ==
  ASSUME IInv, IInv', CInv, NEW p \in Proc, FlushHead(p) PROVE CInv' /\ UNCHANGED Store!storevars
<1> USE DEF FlushHead, AtLoop
<1>1. 1 \in 1..Len(freelist) /\ pc'[p] = "aged"
  BY LenProperties, EmptySeq DEF IInv, TypeOK
<1>2. Others(p) /\ Owned(p)' = Owned(p)
  BY DEF IInv, TypeOK, Others, Owned
<1>3. PlacedAt(p)'
  BY <1>1, <1>2 DEF PlacedAt, IInv, PrimOK, CallOK, GetPC, GetCalls, CInv, NoneCloses, Placed
<1> QED BY <1>1, <1>2, <1>3, FlushAsyncStore

LEMMA FlushOneStore ==
  ASSUME IInv, IInv', CInv, NEW p \in Proc, FlushOne(p) PROVE CInv' /\ UNCHANGED Store!storevars
<1> USE DEF FlushOne
<1>0. PICK i \in ToFlush(p) : FlushAsync(i) /\ cur' = [cur EXCEPT ![p] = freelist[i]]
  OBVIOUS
<1>1. i \in 1..Len(freelist) /\ "DELWRI" \in flags[freelist[i]] /\ pc'[p] = "aged"
  BY DEF ToFlush, IInv, TypeOK
<1>2. Others(p) /\ Owned(p)' = Owned(p)
  BY <1>0 DEF IInv, TypeOK, Others, Owned
<1>3. PlacedAt(p)'
  BY <1>1, <1>2 DEF PlacedAt, CInv, NoneCloses, Placed
<1> QED BY <1>0, <1>1, <1>2, <1>3, FlushAsyncStore

(* getblk gets a buffer of its block.                                      *)
LEMMA GetblkHitStore ==
  ASSUME IInv, IInv', CInv, NEW p \in Proc, GetblkHit(p)
  PROVE  CInv' /\ \E k \in Block : Store!Acquire(p, k)
<1> USE DEF GetblkHit
<1>1. PICK i \in 1..Len(freelist) : freelist[i] = cur[p] /\ notavail(i)
  OBVIOUS
<1>2. PICK c \in Buf : c = cur[p] /\ c \notin ioq /\ \A q \in Proc : c \notin Owned(q)
  BY <1>1, FreeBuffer
<1>3. u[p].call # "geteblk" /\ blk[c] \in Block
  BY <1>2 DEF IInv, CallOK, GetPC, GetCalls, CInv, Placed
<1>4. /\ flags'[c] = flags[c] \cup {"BUSY"} /\ \A b \in Buf \ {c} : flags'[b] = flags[b]
      /\ pc'[p] = "got" /\ cur'[p] = c /\ prim'[p] = prim[p] /\ u' = u /\ Others(p)
  BY <1>2 DEF IInv, TypeOK, Others
<1>5. Elsewhere({p}) /\ Owned(p)' = Owned(p) \cup {c}
  BY <1>2, <1>4 DEF Others, Elsewhere, Awoken, Owned
<1>6. PlacedAt(p)'
  BY <1>4 DEF PlacedAt, CInv, NoneCloses, Placed
<1>7. CInv' /\ StoreValue' = StoreValue
  <2> DEFINE ps == {p}
  <2>1. ps \in SUBSET Proc /\ Elsewhere(ps) /\ \A q \in ps : PlacedAt(q)'
    BY <1>5, <1>6
  <2>2. Says(c)' = Says(c) /\ ("DONE" \in flags'[c] /\ "DELWRI" \notin flags'[c] => data[c] = disk[blk[c]])
    BY <1>2, <1>3, <1>4 DEF Says, Speaks, CInv, Agree
  <2>3. "STALE" \notin flags'[c] /\ "ERROR" \notin flags'[c]
    BY <1>2, <1>4 DEF CInv, NoneStale
  <2> HIDE DEF ps
  <2> QED BY <1>2, <1>4, <2>1, <2>2, <2>3, BufferKept
<1>8. StoreOwner[blk[c]] = {} /\ StoreOwner' = [StoreOwner EXCEPT ![blk[c]] = {p}]
  BY <1>2, <1>3, <1>5, <1>7, OwnerTaken
<1>9. StoreView' = StoreView
  <2>1. StoreView'[p] = StoreView[p]
    BY <1>4 DEF StoreView
  <2> QED BY <1>5, <2>1, ViewSame
<1> QED BY <1>3, <1>7, <1>8, <1>9 DEF Store!Acquire

(* getblk or geteblk gives the oldest free buffer another block, or none.  *)
LEMMA ReassignStore ==
  ASSUME IInv, IInv', CInv, NEW p \in Proc, Reassign(p)
  PROVE  CInv' /\ (UNCHANGED Store!storevars \/ \E k \in Block : Store!Acquire(p, k))
<1> USE DEF Reassign, AtLoop
<1> DEFINE k == u[p].want
<1>1. 1 \in 1..Len(freelist)
  BY LenProperties, EmptySeq DEF IInv, TypeOK
<1>2. PICK c \in Buf : c = freelist[1] /\ c \notin ioq /\ \A q \in Proc : c \notin Owned(q)
  BY <1>1, FreeBuffer
<1>3. /\ flags'[c] \subseteq {"BUSY", "AGE"} /\ \A b \in Buf \ {c} : flags'[b] = flags[b]
      /\ blk'[c] = k /\ \A b \in Buf \ {c} : blk'[b] = blk[b]
      /\ pc'[p] = "got" /\ cur'[p] = c /\ prim'[p] = prim[p] /\ u' = u /\ Others(p)
  BY <1>2 DEF IInv, TypeOK, Others
<1>4. /\ u[p].call = "geteblk" => k = NoBlock
      /\ u[p].call # "geteblk" => k \in Block /\ \A b \in Buf : blk[b] # k
  BY DEF IInv, CallOK, GetPC, GetCalls, NoMatch, incore, Match, CInv, NoneStale
<1>5. Elsewhere({p}) /\ Owned(p)' = Owned(p) \cup {c}
  BY <1>2, <1>3 DEF Others, Elsewhere, Awoken, Owned
<1>6. PlacedAt(p)'
  <2>1. prim[p] # NoBuf => prim[p] \in Buf \ {c}
    BY <1>2 DEF IInv, TypeOK, Owned
  <2> QED BY <1>3, <2>1 DEF PlacedAt, CInv, NoneCloses, Placed
<1>7. /\ "DELWRI" \notin flags[c] /\ UNCHANGED <<data, disk, ioq>>
      /\ "DONE" \notin flags'[c]
  BY <1>2, <1>3
<1> HIDE DEF k, Reassign, AtLoop
<1>8. CInv'
  <2>1. NoneStale' /\ Agree'
    BY <1>3, <1>7 DEF CInv, NoneStale, Agree
  <2>2. \A q \in Proc : \A b \in Owned(q) : blk'[b] = blk[b]
    BY <1>2, <1>3, OwnedBuf
  <2> DEFINE ps == {p}
  <2>3. ps \in SUBSET Proc /\ Elsewhere(ps) /\ \A q \in ps : PlacedAt(q)'
    BY <1>5, <1>6
  <2> HIDE DEF ps
  <2> QED BY <2>1, <2>2, <2>3, CKept
<1>9. StoreValue' = StoreValue
  <2>1. ASSUME NEW j \in Block PROVE StoreValue'[j] = StoreValue[j]
    <3>1. CASE \E b \in Buf \ {c} : blk[b] = j
      <4>1. PICK b \in Buf \ {c} : blk[b] = j
        BY <3>1
      <4>2. Says(b)' = Says(b)
        BY <1>3, <1>7, <4>1 DEF Says, Speaks
      <4> QED BY <1>3, <1>8, <4>1, <4>2, ValueOf, ValueOfNext
    <3>2. CASE \A b \in Buf \ {c} : blk[b] # j
      <4>1. StoreValue[j] = disk[j]
        <5>1. CASE blk[c] = j
          <6>1. Says(c) = disk[j]
            BY <1>2, <1>7, <5>1 DEF Says, Speaks, CInv, Agree
          <6> QED BY <1>2, <5>1, <6>1, ValueOf
        <5>2. CASE blk[c] # j
          BY <3>2, <5>2, ValueOf
        <5> QED BY <5>1, <5>2
      <4>2. StoreValue'[j] = disk[j]
        <5>1. CASE blk'[c] = j
          <6>1. Says(c)' = disk[j]
            BY <1>2, <1>7, <5>1 DEF Says, Speaks
          <6> QED BY <1>2, <1>8, <5>1, <6>1, ValueOfNext
        <5>2. CASE blk'[c] # j
          BY <1>3, <1>7, <1>8, <3>2, <5>2, ValueOfNext
        <5> QED BY <5>1, <5>2
      <4> QED BY <4>1, <4>2
    <3> QED BY <3>1, <3>2
  <2> QED BY <2>1 DEF StoreValue
<1>10. StoreView' = StoreView
  <2>1. StoreView'[p] = StoreView[p]
    <3>1. pc[p] # "use" /\ pc'[p] # "use"
      BY <1>3 DEF Reassign, AtLoop
    <3> QED BY <3>1 DEF StoreView
  <2> QED BY <1>5, <1>7, <2>1, ViewSame
<1>11. CASE u[p].call = "geteblk"
  <2>1. ASSUME NEW j \in Block PROVE StoreOwner'[j] = StoreOwner[j]
    <3>1. \A q \in Proc : \A b \in Owned(q) : b # c /\ blk'[b] = blk[b]
      BY <1>2, <1>3, OwnedBuf
    <3>2. \A q \in Proc \ {p} : Owned(q)' = Owned(q)
      BY <1>5, ElsewhereOwned
    <3>3. blk'[c] # j
      BY <1>3, <1>4, <1>11, BlockAssumption
    <3>4. \A q \in Proc : Has(q, j)' <=> Has(q, j)
      BY <1>5, <3>1, <3>2, <3>3 DEF Has
    <3> QED BY <1>8, <3>4, SameOwner
  <2>2. StoreOwner' = StoreOwner
    BY <2>1 DEF StoreOwner
  <2> QED BY <1>8, <1>9, <1>10, <2>2 DEF Store!storevars
<1>12. CASE u[p].call # "geteblk"
  <2>1. StoreOwner[k] = {} /\ StoreOwner' = [StoreOwner EXCEPT ![k] = {p}]
    BY <1>2, <1>3, <1>4, <1>5, <1>8, <1>12, OwnerTaken
  <2> QED BY <1>4, <1>8, <1>9, <1>10, <1>12, <2>1 DEF Store!Acquire
<1> QED BY <1>11, <1>12

-----------------------------------------------------------------------------
(* Reading and giving back.                                                *)
LEMMA ThePlaced ==
  ASSUME NEW p \in Proc, PlacedAt(p)'
  PROVE  {p} \in SUBSET Proc /\ \A q \in {p} : PlacedAt(q)'
OBVIOUS

(* p goes on with the buffer c it has, whose transfer may start.           *)
LEMMA HoldsOn ==
  ASSUME IInv, IInv', CInv, NEW p \in Proc, Elsewhere({p}), NEW c \in Buf, PlacedAt(p)',
         UNCHANGED <<blk, data, disk>>, Owned(p)' = Owned(p), pc[p] # "use",
         \A b \in Buf \ {c} : flags'[b] = flags[b] /\ (b \in ioq' <=> b \in ioq),
         \/ flags'[c] = flags[c] /\ (c \in ioq' <=> c \in ioq)
         \/ "DONE" \notin flags[c] /\ c \notin ioq /\ flags'[c] = flags[c] \cup {"READ"}
  PROVE  CInv' /\ StoreValue' = StoreValue /\ StoreOwner' = StoreOwner
<1>1. /\ "STALE" \notin flags'[c] /\ "ERROR" \notin flags'[c]
      /\ Says(c)' = Says(c)
      /\ "DONE" \in flags'[c] /\ "DELWRI" \notin flags'[c] /\ blk[c] \in Block => data[c] = disk[blk[c]]
  BY DEF Says, Speaks, CInv, NoneStale, Agree
<1>2. CInv' /\ StoreValue' = StoreValue
  BY <1>1, ThePlaced, BufferKept
<1> QED BY <1>2, OwnerKept, ElsewhereOwned

(* bread returns what the store has.                                       *)
LEMMA ReadsStore ==
  ASSUME IInv, IInv', CInv, CInv', NEW p \in Proc, Elsewhere({p}), NEW c \in Owned(p), blk[c] \in Block,
         UNCHANGED <<data, StoreValue, StoreOwner>>, "DONE" \in flags[c],
         pc'[p] = "use", cur'[p] = c, u'[p].call = "bread"
  PROVE  \E k \in Block : Store!Read(p, k)
<1>1. c \in Buf /\ StoreValue[blk[c]] = data[c]
  BY OwnedBuf, ValueOf DEF Says, Speaks
<1>2. StoreView'[p] = data[c]
  BY DEF StoreView
<1>3. StoreView' = [StoreView EXCEPT ![p] = data[c]]
  BY <1>2, ViewSet
<1> QED BY <1>1, <1>3, OwnerHas DEF Store!Read

LEMMA ViewStays ==
  ASSUME IInv, NEW p \in Proc, Elsewhere({p}), \A q \in Proc \ {p} : \A b \in Owned(q) \ ioq : data'[b] = data[b],
         pc[p] = "use" => u[p].call # "bread", pc'[p] = "use" => u'[p].call # "bread"
  PROVE  StoreView' = StoreView
<1>1. StoreView'[p] = StoreView[p]
  BY DEF StoreView
<1> QED BY <1>1, ViewSame

LEMMA BreadGotStore ==
  ASSUME IInv, IInv', CInv, NEW p \in Proc, BreadGot(p)
  PROVE  CInv' /\ (UNCHANGED Store!storevars \/ \E k \in Block : Store!Read(p, k))
<1> USE DEF BreadGot
<1>1. PICK c \in Buf : c = cur[p] /\ c \notin ioq /\ c \in Owned(p) /\ blk[c] \in Block
  BY DEF IInv, CurOK, CurPC, OwnPC, HeldIdle, Owned, CallOK
<1>2. /\ pc'[p] \in {"use", "iowait"} /\ (pc'[p] = "use" <=> "DONE" \in flags[c]) /\ cur'[p] = c /\ u' = u
      /\ prim' = prim
      /\ Elsewhere({p}) /\ \A b \in Buf \ {c} : flags'[b] = flags[b] /\ (b \in ioq' <=> b \in ioq)
      /\ \/ flags'[c] = flags[c] /\ (c \in ioq' <=> c \in ioq)
         \/ "DONE" \notin flags[c] /\ c \notin ioq /\ flags'[c] = flags[c] \cup {"READ"}
  BY <1>1 DEF IInv, TypeOK, Elsewhere, Awoken, StartRead
<1>3. Owned(p)' = Owned(p)
  BY <1>1, <1>2 DEF Owned
<1>4. PlacedAt(p)'
  BY <1>1, <1>2 DEF PlacedAt, CInv, NoneCloses, Placed
<1>5. CInv' /\ StoreValue' = StoreValue /\ StoreOwner' = StoreOwner
  BY <1>1, <1>2, <1>3, <1>4, HoldsOn
<1>6. CASE pc'[p] = "use"
  BY <1>1, <1>2, <1>5, <1>6, ReadsStore
<1>7. CASE pc'[p] # "use"
  BY <1>2, <1>5, <1>7, ViewStays DEF Store!storevars
<1> QED BY <1>5, <1>6, <1>7

LEMMA BreadaGotStore ==
  ASSUME IInv, IInv', CInv, NEW p \in Proc, BreadaGot(p) PROVE CInv' /\ UNCHANGED Store!storevars
<1> USE DEF BreadaGot
<1>1. PICK c \in Buf : c = cur[p] /\ c \notin ioq /\ c \in Owned(p) /\ blk[c] \in Block /\ prim[p] = NoBuf
  BY DEF IInv, CurOK, CurPC, OwnPC, HeldIdle, Owned, CallOK, PrimOK
<1>2. /\ pc'[p] = "readahead" /\ cur'[p] = NoBuf /\ u' = u /\ prim'[p] = c
      /\ Elsewhere({p}) /\ \A b \in Buf \ {c} : flags'[b] = flags[b] /\ (b \in ioq' <=> b \in ioq)
      /\ \/ flags'[c] = flags[c] /\ (c \in ioq' <=> c \in ioq)
         \/ "DONE" \notin flags[c] /\ c \notin ioq /\ flags'[c] = flags[c] \cup {"READ"}
  BY <1>1 DEF IInv, TypeOK, Elsewhere, Awoken, StartRead
<1>3. Owned(p)' = Owned(p)
  BY <1>1, <1>2 DEF Owned, Buf, NoBuf
<1>4. PlacedAt(p)'
  BY <1>1, <1>2 DEF PlacedAt, CInv, NoneCloses, Placed
<1>5. CInv' /\ StoreValue' = StoreValue /\ StoreOwner' = StoreOwner
  BY <1>1, <1>2, <1>3, <1>4, HoldsOn
<1> QED BY <1>2, <1>5, ViewStays DEF Store!storevars

(* p gives up the buffer c; whether it waits, is released or is read into  *)
(* does not change what it says.                                           *)
LEMMA GivesUp ==
  ASSUME IInv, IInv', CInv, NEW p \in Proc, Elsewhere({p}), NEW c \in Owned(p), PlacedAt(p)',
         UNCHANGED <<blk, data, disk>>, Owned(p)' = Owned(p) \ {c}, pc'[p] # "use",
         \A b \in Buf \ {c} : flags'[b] = flags[b] /\ (b \in ioq' <=> b \in ioq),
         Says(c)' = Says(c) \/ blk[c] \notin Block, NoneStale',
         "DONE" \in flags'[c] => flags'[c] \subseteq flags[c] /\ ("DELWRI" \in flags[c] => "DELWRI" \in flags'[c])
  PROVE  CInv' /\ IF blk[c] \in Block THEN Store!Release(p, blk[c]) ELSE UNCHANGED Store!storevars
<1>1. c \in Buf
  BY OwnedBuf
<1>2. "DONE" \in flags'[c] /\ "DELWRI" \notin flags'[c] /\ blk[c] \in Block => data[c] = disk[blk[c]]
  BY <1>1 DEF CInv, Agree
<1>3. CInv' /\ StoreValue' = StoreValue
  BY <1>1, <1>2, ThePlaced, BufferKept DEF NoneStale
<1>4. StoreView' = [StoreView EXCEPT ![p] = Junk]
  <2>1. StoreView'[p] = Junk
    BY DEF StoreView
  <2> QED BY <2>1, ViewSet
<1>5. CASE blk[c] \in Block
  BY <1>3, <1>4, <1>5, OwnerGiven, OwnerHas DEF Store!Release
<1>6. CASE blk[c] \notin Block
  <2>1. StoreView[p] = Junk
    <3>1. CASE pc[p] = "use" /\ u[p].call = "bread"
      <4>1. blk[cur[p]] \in Block /\ cur[p] \in Buf
        BY <3>1 DEF CInv, Placed, IInv, CurOK, CurPC, OwnPC
      <4>2. c = cur[p]
        BY <3>1 DEF IInv, PrimOK, GetPC, Owned, Buf, NoBuf
      <4> QED BY <1>6, <4>1, <4>2
    <3>2. CASE ~(pc[p] = "use" /\ u[p].call = "bread")
      BY <3>2 DEF StoreView
    <3> QED BY <3>1, <3>2
  <2>2. StoreView' = StoreView
    BY <1>4, <2>1 DEF StoreView
  <2> QED BY <1>3, <1>6, <2>2, OwnerGiven DEF Store!storevars
<1> QED BY <1>3, <1>5, <1>6

(* brelse of a buffer that was not changed.                                *)
LEMMA ReleaseStore ==
  ASSUME IInv, IInv', CInv, NEW p \in Proc, Elsewhere({p}), NEW c \in Owned(p), PlacedAt(p)',
         UNCHANGED <<blk, data, disk, ioq>>, Owned(p)' = Owned(p) \ {c}, pc'[p] # "use",
         brelse(c, flags[c])
  PROVE  CInv' /\ IF blk[c] \in Block THEN Store!Release(p, blk[c]) ELSE UNCHANGED Store!storevars
<1>1. c \in Buf /\ flags[c] \in SUBSET Flag /\ "ERROR" \notin flags[c]
  BY OwnedBuf DEF IInv, TypeOK, CInv, NoneStale
<1>2. /\ flags'[c] = flags[c] \ {"WANTED", "BUSY", "ASYNC", "AGE"}
      /\ \A b \in Buf \ {c} : flags'[b] = flags[b]
  BY <1>1, ReleasedKept DEF brelse, IInv, TypeOK
<1>3. NoneStale' /\ Says(c)' = Says(c)
  BY <1>1, <1>2 DEF CInv, NoneStale, Says, Speaks
<1> QED BY <1>1, <1>2, <1>3, GivesUp

LEMMA WakesAwake ==
  ASSUME NEW b, NEW F, NEW q \in Proc, pc'[q] = ReleaseWakes(b, F)[q] PROVE Awoken(q)
BY DEF ReleaseWakes, Wakeup, Awoken

LEMMA ReadaheadGotStore ==
  ASSUME IInv, IInv', CInv, NEW p \in Proc, ReadaheadGot(p)
  PROVE  CInv' /\ \E k \in Block : Store!Release(p, k)
<1> USE DEF ReadaheadGot
<1>1. PICK c \in Buf : c = cur[p] /\ c \notin ioq /\ c \in Owned(p) /\ blk[c] \in Block
  BY DEF IInv, CurOK, CurPC, OwnPC, HeldIdle, Owned, CallOK
<1>2. /\ cur' = [cur EXCEPT ![p] = NoBuf] /\ u' = [u EXCEPT ![p].ra = NoBlock]
      /\ UNCHANGED <<blk, data, disk, prim>> /\ prim[p] # c
  BY <1>1 DEF IInv, TypeOK, PrimOK, Buf, NoBuf
<1>3. u'[p].call = u[p].call
  <2>1. u[p] \in Frame /\ u'[p] = [u[p] EXCEPT !.ra = NoBlock]
    BY <1>2 DEF IInv, TypeOK
  <2> QED BY <2>1 DEF Frame
<1>4. CASE "DONE" \in flags[c]
  <2>1. brelse(c, flags[c]) /\ pc' = [ReleaseWakes(c, flags[c]) EXCEPT ![p] = "readahead"] /\ ioq' = ioq
    BY <1>1, <1>4
  <2>2. pc'[p] = "readahead" /\ \A q \in Proc \ {p} : pc'[q] = ReleaseWakes(c, flags[c])[q]
    BY <2>1 DEF ReleaseWakes, Wakeup
  <2>3. Elsewhere({p})
    <3>1. \A q \in Proc \ {p} : cur'[q] = cur[q] /\ prim'[q] = prim[q] /\ u'[q] = u[q]
      BY <1>2 DEF IInv, TypeOK
    <3> QED BY <2>2, <3>1, WakesAwake DEF Elsewhere
  <2>4. Owned(p)' = Owned(p) \ {c}
    BY <1>1, <1>2, <2>2 DEF Owned, IInv, TypeOK
  <2>5. PlacedAt(p)'
    BY <1>2, <1>3, <2>2 DEF PlacedAt, CInv, NoneCloses, Placed
  <2> HIDE DEF ReadaheadGot
  <2> QED BY <1>1, <1>2, <2>1, <2>2, <2>3, <2>4, <2>5, ReleaseStore
<1>5. CASE "DONE" \notin flags[c]
  <2>1. StartRead(c, {"ASYNC"}) /\ pc' = [pc EXCEPT ![p] = "readahead"]
    BY <1>1, <1>5
  <2>2. pc'[p] = "readahead" /\ Elsewhere({p})
    BY <1>2, <2>1 DEF IInv, TypeOK, Elsewhere, Awoken
  <2>3. Owned(p)' = Owned(p) \ {c}
    BY <1>1, <1>2, <2>2 DEF Owned, IInv, TypeOK
  <2>4. PlacedAt(p)'
    BY <1>2, <1>3, <2>2 DEF PlacedAt, CInv, NoneCloses, Placed
  <2>5. /\ flags'[c] = flags[c] \cup {"READ", "ASYNC"}
        /\ \A b \in Buf \ {c} : flags'[b] = flags[b] /\ (b \in ioq' <=> b \in ioq)
    BY <1>1, <2>1 DEF StartRead, IInv, TypeOK
  <2>6. NoneStale' /\ Says(c)' = Says(c) /\ "DONE" \notin flags'[c]
    BY <1>1, <1>2, <1>5, <2>5 DEF CInv, NoneStale, Says, Speaks
  <2> HIDE DEF ReadaheadGot
  <2> QED BY <1>1, <1>2, <2>2, <2>3, <2>4, <2>5, <2>6, GivesUp
<1> QED BY <1>4, <1>5

LEMMA BrelseStore ==
  ASSUME IInv, IInv', CInv, NEW p \in Proc, Brelse(p)
  PROVE  CInv' /\ (UNCHANGED Store!storevars \/ \E k \in Block : Store!Release(p, k))
<1> USE DEF Brelse
<1>1. PICK c \in Buf : c = cur[p] /\ c \notin ioq /\ c \in Owned(p) /\ prim[p] = NoBuf
  BY HeldFacts
<1>2. /\ brelse(c, flags[c]) /\ UNCHANGED <<blk, data, ioq, disk, prim>>
      /\ pc'[p] = "idle" /\ \A q \in Proc \ {p} : pc'[q] = ReleaseWakes(c, flags[c])[q]
  BY <1>1 DEF ReleaseWakes, Wakeup
<1>3. Elsewhere({p}) /\ cur'[p] = NoBuf /\ u'[p].call = "none"
  <2>1. \A q \in Proc \ {p} : cur'[q] = cur[q] /\ u'[q] = u[q]
    BY DEF IInv, TypeOK
  <2>2. u'[p].call = "none"
    BY DEF IInv, TypeOK, NoCall
  <2> QED BY <1>2, <2>1, <2>2, WakesAwake DEF Elsewhere, IInv, TypeOK
<1>4. Owned(p)' = Owned(p) \ {c}
  BY <1>1, <1>2, <1>3 DEF Owned, Buf, NoBuf, Holds
<1>5. PlacedAt(p)'
  BY <1>1, <1>2, <1>3 DEF PlacedAt
<1> HIDE DEF Brelse
<1>6. CInv' /\ IF blk[c] \in Block THEN Store!Release(p, blk[c]) ELSE UNCHANGED Store!storevars
  BY <1>1, <1>2, <1>3, <1>4, <1>5, ReleaseStore
<1> QED BY <1>6

LEMMA IowaitReturnStore ==
  ASSUME IInv, IInv', CInv, NEW p \in Proc, IowaitReturn(p)
  PROVE  CInv' /\ (UNCHANGED Store!storevars \/ \E k \in Block : Store!Release(p, k) \/ Store!Read(p, k))
<1> USE DEF IowaitReturn
<1>1. PICK c \in Buf : c = cur[p] /\ c \in Owned(p) /\ prim[p] = NoBuf /\ blk[c] \in Block
  BY DEF IInv, CurOK, CurPC, OwnPC, Owned, PrimOK, GetPC, CInv, Placed
<1>2. UNCHANGED <<blk, data, ioq, disk, prim>> /\ "DONE" \in flags[c]
  BY <1>1
<1>3. CASE u[p].call = "bwrite"
  <2>1. /\ brelse(c, flags[c])
        /\ pc'[p] = "idle" /\ \A q \in Proc \ {p} : pc'[q] = ReleaseWakes(c, flags[c])[q]
    BY <1>1, <1>3 DEF ReleaseWakes, Wakeup
  <2>2. cur' = [cur EXCEPT ![p] = NoBuf] /\ \E e : u' = [u EXCEPT ![p] = [NoCall EXCEPT !.err = e]]
    BY <1>3
  <2>3. u'[p].call = "none" /\ cur'[p] = NoBuf
    BY <2>2 DEF NoCall, IInv, TypeOK
  <2>4. Elsewhere({p})
    <3>1. \A q \in Proc \ {p} : cur'[q] = cur[q] /\ u'[q] = u[q]
      BY <2>2 DEF IInv, TypeOK
    <3> QED BY <1>2, <2>1, <3>1, WakesAwake DEF Elsewhere
  <2>5. Owned(p)' = Owned(p) \ {c}
    BY <1>1, <1>2, <2>1, <2>3 DEF Owned, Buf, NoBuf
  <2>6. PlacedAt(p)'
    BY <1>1, <1>2, <2>1, <2>3 DEF PlacedAt
  <2> HIDE DEF IowaitReturn
  <2>7. CInv' /\ Store!Release(p, blk[c])
    BY <1>1, <1>2, <2>1, <2>4, <2>5, <2>6, ReleaseStore
  <2> QED BY <1>1, <2>7
<1>4. CASE u[p].call # "bwrite"
  <2>1. pc'[p] = "use" /\ cur' = cur /\ flags' = flags /\ \E e \in BOOLEAN : u' = [u EXCEPT ![p].err = e]
    <3>1. ("ERROR" \in flags[cur[p]]) \in BOOLEAN
      OBVIOUS
    <3> QED BY <1>4, <3>1 DEF IInv, TypeOK
  <2>2. Elsewhere({p})
    BY <1>2, <1>4, <2>1 DEF Elsewhere, Awoken, IInv, TypeOK
  <2>3. u'[p].call = u[p].call
    <3>1. PICK e \in BOOLEAN : u' = [u EXCEPT ![p].err = e]
      BY <2>1
    <3>2. u[p] \in Frame /\ u'[p] = [u[p] EXCEPT !.err = e]
      BY <3>1 DEF IInv, TypeOK
    <3> QED BY <3>2, Frames
  <2>4. Owned(p)' = Owned(p)
    BY <1>2, <2>1 DEF Owned
  <2>5. PlacedAt(p)'
    BY <1>1, <1>2, <2>1, <2>3 DEF PlacedAt, CInv, NoneCloses, Placed
  <2>6. CInv' /\ StoreValue' = StoreValue /\ StoreOwner' = StoreOwner
    BY <1>2, <2>1, <2>2, <2>4, <2>5, HoldsOn
  <2>7. CASE u[p].call = "bread"
    <3>1. cur'[p] = c
      BY <1>1, <2>1
    <3> HIDE DEF IowaitReturn
    <3> QED BY <1>1, <1>2, <2>1, <2>2, <2>3, <2>6, <2>7, <3>1, ReadsStore
  <2>8. CASE u[p].call # "bread"
    BY <1>2, <2>1, <2>2, <2>3, <2>6, <2>8, ViewStays DEF Store!storevars
  <2> QED BY <2>6, <2>7, <2>8
<1> QED BY <1>3, <1>4

-----------------------------------------------------------------------------
(* Writing.                                                                *)
LEMMA WritesStore ==
  ASSUME IInv, IInv', CInv, NEW p \in Proc, Elsewhere({p}), NEW c \in Owned(p), blk[c] \in Block,
         NEW v \in Value, PlacedAt(p)', UNCHANGED <<blk, disk>>,
         Owned(p)' \in {Owned(p), Owned(p) \ {c}}, pc'[p] # "use",
         \A b \in Buf \ {c} : flags'[b] = flags[b] /\ (b \in ioq' <=> b \in ioq) /\ data'[b] = data[b],
         data'[c] = v, NoneStale', Speaks(c)', "DONE" \in flags'[c] => "DELWRI" \in flags'[c]
  PROVE  CInv' /\ Store!Write(p, blk[c], v)
<1>1. c \in Buf
  BY OwnedBuf
<1>2. CInv'
  <2>1. Agree'
    BY <1>1 DEF CInv, Agree
  <2> QED BY <2>1, ThePlaced, CKept
<1>3. StoreValue' = [StoreValue EXCEPT ![blk[c]] = v]
  <2>1. Says(c)' = v
    BY DEF Says
  <2>2. \A b \in Buf \ {c} : Says(b)' = Says(b)
    BY DEF Says, Speaks
  <2> QED BY <1>1, <1>2, <2>1, <2>2, ValueWritten
<1>4. StoreOwner' \in {StoreOwner, [StoreOwner EXCEPT ![blk[c]] = {}]}
  <2>1. CASE Owned(p)' = Owned(p)
    BY <1>2, <2>1, OwnerKept, ElsewhereOwned
  <2>2. CASE Owned(p)' = Owned(p) \ {c}
    BY <1>2, <2>2, OwnerGiven
  <2> QED BY <2>1, <2>2
<1>5. StoreView' = [StoreView EXCEPT ![p] = Junk]
  <2>1. StoreView'[p] = Junk
    BY DEF StoreView
  <2>2. \A q \in Proc \ {p} : \A b \in Owned(q) : b # c
    BY DEF IInv, Exclusive, Owned
  <2> QED BY <2>1, <2>2, OwnedBuf, ViewSet
<1> QED BY <1>2, <1>3, <1>4, <1>5, OwnerHas DEF Store!Write

LEMMA WriteStore ==
  ASSUME IInv, IInv', CInv, NEW p \in Proc, NEW v \in Value, NEW async \in BOOLEAN, MayWrite(p),
         bwrite(p, v, async)
  PROVE  CInv' /\ \E k \in Block : Store!Write(p, k, v)
<1> USE DEF bwrite, MayWrite
<1>1. PICK c \in Buf : c = cur[p] /\ c \notin ioq /\ c \in Owned(p) /\ prim[p] = NoBuf
  BY HeldFacts
<1>2. blk[c] \in Block /\ pc[p] = "use" /\ u[p] \in Frame
  BY <1>1 DEF Holds, IInv, TypeOK
<1> DEFINE call == IF async THEN "bawrite" ELSE "bwrite"
<1>3. /\ UNCHANGED <<blk, disk, cur, prim>> /\ u' = [u EXCEPT ![p].call = call]
      /\ pc'[p] \in {"iowait", "aged", "asyncerr"}
      /\ data'[c] = v /\ c \in ioq'
      /\ \E f \in SUBSET {"ASYNC"} : flags'[c] = WriteFlags(flags[c] \cup f)
      /\ \A b \in Buf \ {c} : flags'[b] = flags[b] /\ (b \in ioq' <=> b \in ioq) /\ data'[b] = data[b]
  BY <1>1 DEF IInv, TypeOK
<1>4. Elsewhere({p})
  BY <1>3 DEF Elsewhere, Awoken, IInv, TypeOK
<1>5. u'[p].call = call
  <2>1. u'[p] = [u[p] EXCEPT !.call = call]
    BY <1>3 DEF IInv, TypeOK
  <2> QED BY <1>2, <2>1 DEF Frame
<1>6. Owned(p)' \in {Owned(p), Owned(p) \ {c}}
  BY <1>1, <1>2, <1>3 DEF Owned, Buf, NoBuf
<1>7. PlacedAt(p)'
  BY <1>1, <1>2, <1>3, <1>5 DEF PlacedAt
<1>8. NoneStale' /\ Speaks(c)' /\ "DONE" \notin flags'[c]
  BY <1>1, <1>3 DEF CInv, NoneStale, Speaks, WriteFlags
<1> HIDE DEF bwrite, MayWrite, call
<1>9. CInv' /\ Store!Write(p, blk[c], v)
  BY <1>1, <1>2, <1>3, <1>4, <1>6, <1>7, <1>8, WritesStore
<1> QED BY <1>2, <1>9

LEMMA BdwriteStore ==
  ASSUME IInv, IInv', CInv, NEW p \in Proc, NEW v \in Value, Bdwrite(p, v)
  PROVE  CInv' /\ \E k \in Block : Store!Write(p, k, v)
<1> USE DEF Bdwrite, MayWrite
<1>1. PICK c \in Buf : c = cur[p] /\ c \notin ioq /\ c \in Owned(p) /\ prim[p] = NoBuf
  BY HeldFacts
<1>2. blk[c] \in Block /\ pc[p] = "use"
  BY <1>1 DEF Holds, IInv, TypeOK
<1>3. PICK F \in SUBSET Flag : F = flags[c] \cup {"DELWRI", "DONE"}
  BY DEF IInv, TypeOK, Flag
<1>4. /\ brelse(c, F) /\ UNCHANGED <<blk, ioq, disk, prim>> /\ data'[c] = v
      /\ \A b \in Buf \ {c} : data'[b] = data[b]
      /\ pc'[p] = "idle" /\ \A q \in Proc \ {p} : pc'[q] = ReleaseWakes(c, F)[q]
  BY <1>1, <1>3 DEF IInv, TypeOK, ReleaseWakes, Wakeup
<1>5. Elsewhere({p}) /\ cur'[p] = NoBuf /\ u'[p].call = "none"
  <2>1. \A q \in Proc \ {p} : cur'[q] = cur[q] /\ u'[q] = u[q]
    BY DEF IInv, TypeOK
  <2>2. u'[p].call = "none"
    BY DEF IInv, TypeOK, NoCall
  <2> QED BY <1>4, <2>1, <2>2, WakesAwake DEF Elsewhere, IInv, TypeOK
<1>6. Owned(p)' = Owned(p) \ {c}
  BY <1>1, <1>2, <1>4, <1>5 DEF Owned, Buf, NoBuf
<1>7. PlacedAt(p)'
  BY <1>1, <1>4, <1>5 DEF PlacedAt
<1>8. /\ flags'[c] = F \ {"WANTED", "BUSY", "ASYNC", "AGE"}
      /\ \A b \in Buf \ {c} : flags'[b] = flags[b]
  <2>1. "ERROR" \notin F
    BY <1>1, <1>3 DEF CInv, NoneStale
  <2> QED BY <1>1, <1>4, <2>1, ReleasedKept DEF brelse, IInv, TypeOK
<1>9. NoneStale' /\ Speaks(c)' /\ "DELWRI" \in flags'[c]
  BY <1>1, <1>3, <1>8 DEF CInv, NoneStale, Speaks
<1> HIDE DEF Bdwrite, MayWrite
<1>10. CInv' /\ Store!Write(p, blk[c], v)
  BY <1>1, <1>2, <1>4, <1>5, <1>6, <1>7, <1>8, <1>9, WritesStore
<1> QED BY <1>2, <1>10

-----------------------------------------------------------------------------
(* The end of a transfer makes the disk and the buffer agree.              *)
LEMMA DiskInterruptStore ==
  ASSUME IInv, IInv', CInv, NEW b \in Buf, DiskInterrupt(b, FALSE)
  PROVE  CInv' /\ UNCHANGED Store!storevars
<1> DEFINE F == flags[b] \cup {"DONE"}
<1> USE DEF DiskInterrupt
<1>1. /\ b \in ioq /\ ioq' = ioq \ {b} /\ UNCHANGED <<blk, cur, prim, u>>
      /\ "DONE" \notin flags[b] /\ "DELWRI" \notin flags[b] /\ blk[b] \in Block
      /\ "ERROR" \notin flags[b] /\ "STALE" \notin flags[b]
      /\ F \in SUBSET Flag /\ \A q \in Proc : "ASYNC" \in flags[b] => b \notin Owned(q)
  BY DEF IInv, TypeOK, BusyOK, OwnedOK, CInv, NoneStale, Flag
<1>2. PICK G \in SUBSET Flag : G = F
  BY <1>1
<1> HIDE DEF F
<1>3. (brelse(b, G) /\ pc' = ReleaseWakes(b, G)) \/ (flags' = [flags EXCEPT ![b] = G \ {"WANTED"}] /\ pc' = Wakeup({b}, FALSE))
  BY <1>2 DEF iodone, F
<1>4. /\ flags'[b] \in {G \ {"WANTED"}, G \ {"WANTED", "BUSY", "ASYNC", "AGE"}}
      /\ \A c \in Buf \ {b} : flags'[c] = flags[c]
  BY <1>1, <1>2, <1>3, ReleasedKept DEF brelse, IInv, TypeOK, F
<1>5. Elsewhere({})
  BY <1>1, <1>3 DEF Elsewhere, Awoken, ReleaseWakes, Wakeup
<1>6. /\ \A c \in Buf \ {b} : data'[c] = data[c]
      /\ \A k \in Block \ {blk[b]} : disk'[k] = disk[k]
      /\ data'[b] = disk'[blk[b]]
      /\ data'[b] = IF "READ" \in flags[b] THEN disk[blk[b]] ELSE data[b]
  BY <1>1 DEF Transfer, IInv, TypeOK
<1>7. "DONE" \in flags'[b] /\ "STALE" \notin flags'[b] /\ "ERROR" \notin flags'[b]
  BY <1>1, <1>2, <1>4 DEF F
<1> HIDE DEF DiskInterrupt
<1>8. \A c \in Buf \ {b} : blk[c] \in Block => blk[c] # blk[b]
  BY <1>1, OneBuffer
<1>9. CInv'
  <2>1. NoneStale'
    BY <1>4, <1>7 DEF CInv, NoneStale
  <2>2. Agree'
    <3> SUFFICES ASSUME NEW c \in Buf, blk[c] \in Block, "DONE" \in flags'[c], "DELWRI" \notin flags'[c]
                 PROVE  data'[c] = disk'[blk[c]]
      BY <1>1 DEF Agree
    <3>1. CASE c = b
      BY <1>6, <3>1
    <3>2. CASE c # b
      BY <1>4, <1>6, <1>8, <3>2 DEF CInv, Agree
    <3> QED BY <3>1, <3>2
  <2> QED BY <1>1, <1>5, <2>1, <2>2, CKept
<1>10. StoreValue' = StoreValue
  <2>1. ASSUME NEW c \in Buf, blk[c] \in Block PROVE Says(c)' = Says(c)
    <3>1. CASE c = b
      BY <1>1, <1>6, <1>7, <3>1 DEF Says, Speaks
    <3>2. CASE c # b
      BY <1>1, <1>4, <1>6, <1>8, <2>1, <3>2 DEF Says, Speaks
    <3> QED BY <3>1, <3>2
  <2> QED BY <1>1, <1>6, <1>9, <2>1, ValueKept
<1>11. StoreOwner' = StoreOwner
  BY <1>1, <1>5, <1>9, OwnerKept, ElsewhereOwned
<1>12. StoreView' = StoreView
  <2>1. \A q \in Proc : \A c \in Owned(q) \ ioq : data'[c] = data[c]
    BY <1>1, <1>6, OwnedBuf
  <2>2. \A q \in Proc : StoreView'[q] = StoreView[q]
    BY <1>5, <2>1, ViewElsewhere
  <2> QED BY <2>2, ViewFun
<1> QED BY <1>9, <1>10, <1>11, <1>12 DEF Store!storevars

-----------------------------------------------------------------------------
(* The refinement.                                                         *)
Seen == UNCHANGED Store!storevars \/ Store!StoreNext

LEMMA InitStore == ASSUME Init, IInv PROVE CInv /\ Store!StoreInit
<1>1. /\ \A b \in Buf : flags[b] = {} /\ blk[b] = NoBlock
      /\ \A p \in Proc : pc[p] = "idle" /\ prim[p] = NoBuf /\ u[p].call = "none"
      /\ ioq = {} /\ disk \in [Block -> Value]
  BY DEF Init, NoCall
<1>2. CInv
  BY <1>1, BlockAssumption DEF CInv, NoneStale, NoneCloses, Agree, Placed
<1>3. \A b \in Buf : blk[b] \notin Block
  BY <1>1, BlockAssumption
<1>4. StoreValue \in [Block -> Value]
  <2>1. \A k \in Block : StoreValue[k] = disk[k]
    BY <1>2, <1>3, ValueOf
  <2> QED BY <1>1, <2>1 DEF StoreValue
<1>5. StoreOwner = [k \in Block |-> {}]
  <2>1. \A k \in Block : StoreOwner[k] = {}
    BY <1>2, <1>3, OwnedBuf, OwnerOf DEF Has
  <2> QED BY <2>1 DEF StoreOwner
<1>6. StoreView = [p \in Proc |-> Junk]
  BY <1>1 DEF StoreView
<1> QED BY <1>2, <1>4, <1>5, <1>6 DEF Store!StoreInit

LEMMA KernelStore == ASSUME IInv, IInv', CInv, Quiet, NEW p \in Proc, Kernel(p) PROVE CInv' /\ Seen
<1>1. ~Binval(p)
  BY DEF Binval, CInv, NoneCloses
<1>2. CASE \/ GetblkFound(p) \/ GetblkBusy(p) \/ FreelistEmpty(p) \/ FlushHead(p) \/ AgeMark(p)
           \/ GetblkReturn(p) \/ BreadaGot(p) \/ Readahead(p) \/ ReadaheadDone(p)
           \/ IowaitSleep(p) \/ AsyncError(p) \/ FlushOne(p) \/ FlushDone(p)
  <2>1. CInv' /\ UNCHANGED Store!storevars
    BY <1>2, GetblkFoundStore, GetblkBusyStore, FreelistEmptyStore, FlushHeadStore, AgeMarkStore,
       GetblkReturnStore, BreadaGotStore, ReadaheadStore, ReadaheadDoneStore,
       IowaitSleepStore, AsyncErrorStore, FlushOneStore, FlushDoneStore
  <2> QED BY <2>1 DEF Seen
<1>3. CASE GetblkHit(p) \/ Reassign(p)
  BY <1>3, GetblkHitStore, ReassignStore DEF Seen, Store!StoreNext
<1>4. CASE BreadGot(p) \/ IowaitReturn(p) \/ ReadaheadGot(p)
  BY <1>4, BreadGotStore, IowaitReturnStore, ReadaheadGotStore DEF Seen, Store!StoreNext
<1> QED BY <1>1, <1>2, <1>3, <1>4 DEF Kernel

LEMMA CallerStore == ASSUME IInv, IInv', CInv, NEW p \in Proc, Caller(p) PROVE CInv' /\ Seen
<1>1. CASE Brelse(p)
  BY <1>1, BrelseStore DEF Seen, Store!StoreNext
<1>2. CASE \E v \in Value : Bwrite(p, v) \/ Bawrite(p, v) \/ Bdwrite(p, v) \/ BdwriteTape(p, v)
  <2>1. PICK v \in Value : Bwrite(p, v) \/ Bawrite(p, v) \/ Bdwrite(p, v) \/ BdwriteTape(p, v)
    BY <1>2
  <2>2. (freecount > AsyncFree) \in BOOLEAN
    BY ThresholdAssumption DEF IInv, TypeOK
  <2>3. CInv' /\ \E k \in Block : Store!Write(p, k, v)
    BY <2>1, <2>2, WriteStore, BdwriteStore DEF Bwrite, Bawrite, BdwriteTape, bawrite
  <2> QED BY <2>3 DEF Seen, Store!StoreNext
<1> QED BY <1>1, <1>2 DEF Caller

LEMMA CallStore == ASSUME IInv, IInv', CInv, Quiet, NEW p \in Proc, Call(p) PROVE CInv' /\ Seen
<1>1. \A k \in Block : ~Umount(p, k)
  BY DEF Umount, NewCall, Quiet
<1>2. \A kr \in RaPairs : kr[1] \in Block /\ kr[2] \in Block \cup {NoBlock}
  BY RaAssumption
<1>3. CInv' /\ UNCHANGED Store!storevars
  BY <1>1, <1>2, GeteblkStore, SyncStore, GetblkStore, BreadStore, BreadaStore DEF Call
<1> QED BY <1>3 DEF Seen

LEMMA NextStore == ASSUME IInv, IInv', CInv, Quiet, [Next]_vars PROVE CInv' /\ Seen
<1>1. CASE Disk
  <2>1. PICK b \in Buf : DiskInterrupt(b, FALSE)
    BY <1>1 DEF Disk, Quiet
  <2> QED BY <2>1, DiskInterruptStore DEF Seen
<1>2. CASE \E p \in Proc : Kernel(p) \/ Caller(p) \/ Call(p)
  BY <1>2, KernelStore, CallerStore, CallStore
<1>3. CASE UNCHANGED vars
  <2>1. CInv'
    BY <1>3 DEF vars, CInv, NoneStale, NoneCloses, Agree, Placed
  <2>2. UNCHANGED Store!storevars
    BY <1>3 DEF vars, Store!storevars, StoreValue, StoreOwner, StoreView, Valid, Match, Owned
  <2> QED BY <2>1, <2>2 DEF Seen
<1> QED BY <1>1, <1>2, <1>3 DEF Next

(* Reading through the cache returns the last write, for any pool, blocks, *)
(* processes and contents, and whatever getblk, geteblk, bread, breada,    *)
(* bwrite, bdwrite, bawrite and sync do at once, while no transfer fails   *)
(* and no device is closed: a process cannot tell the cache from a store   *)
(* of blocks with one owner each.                                          *)
THEOREM CacheCoherent == Quiet => (Spec => Coherent)
<1> SUFFICES ASSUME Quiet PROVE Spec => Coherent
  OBVIOUS
<1>1. Init => CInv /\ Store!StoreInit
  BY InitInv, InitStore
<1>2. IInv /\ CInv /\ [Next]_vars => IInv' /\ CInv' /\ [Store!StoreNext]_Store!storevars
  BY NextInv, NextStore DEF Seen
<1> QED BY <1>1, <1>2, InitInv, PTL DEF Spec, Coherent, Store!StoreSpec

=============================================================================
