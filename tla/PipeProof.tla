------------------------------ MODULE PipeProof ------------------------------
(***************************************************************************)
(* Proofs about the FIFO, for any number of processes, blocks and bytes.   *)
(***************************************************************************)
EXTENDS Pipe, FiniteSetTheorems, TLAPS

(* The loop of writei fits: what is left of this part of the write.        *)
Fits == \A p \in Proc : pc[p] = "write" =>
  ip.size + u[p].count <= PIPSIZ /\ u[p].moved + u[p].count <= PIPSIZ

(* Where a process sleeps on each channel.                                 *)
Places == \A p \in Proc :
  /\ asleep[p] = "lock" => pc[p] \in {"rlock", "wlock", "clock"}
  /\ asleep[p] = "frcnt" => pc[p] \in {"rlock", "openw"}
  /\ asleep[p] = "fwcnt" => pc[p] \in {"wlock", "openr"}

Hold == {"read", "write", "wagain"}
Locked ==
  /\ ip.lock <=> \E p \in Proc : pc[p] \in Hold
  /\ \A p, q \in Proc : pc[p] \in Hold /\ pc[q] \in Hold => p = q
Wanted ==
  /\ ip.want <=> \E p \in Proc : asleep[p] = "lock"
  /\ ip.want => ip.lock

(* NoLostWakeup with the process that will wake the sleeper.               *)
Awaits(p) ==
  /\ asleep[p] = "frcnt" /\ pc[p] = "rlock" =>
       ip.fir /\ ip.fwcnt > 0 /\ (ip.size = 0 \/ \E q \in Proc : pc[q] = "write")
  /\ asleep[p] = "fwcnt" /\ pc[p] = "wlock" =>
       ip.fiw /\ ip.frcnt > 0 /\ (NoRoom(p) \/ \E q \in Proc : pc[q] = "read")
  /\ asleep[p] = "frcnt" /\ pc[p] = "openw" => ip.frcnt = 0
  /\ asleep[p] = "fwcnt" /\ pc[p] = "openr" => ip.fwcnt = 0
Waiting == \A p \in Proc : Awaits(p)

IInv == TypeOK /\ Fits /\ Places /\ Locked /\ Wanted /\ EndsCounted /\ Waiting

LEMMA Sizes == NFADDR \in Nat /\ BSIZE \in Nat /\ NFADDR > 0 /\ BSIZE > 0 /\ PIPSIZ \in Nat /\ PIPSIZ > 0
<1>1. NFADDR \in Nat /\ BSIZE \in Nat /\ NFADDR > 0 /\ BSIZE > 0
  BY SizeAssumption
<1>2. NFADDR * BSIZE \in Nat /\ NFADDR * BSIZE > 0
  BY <1>1
<1> QED BY <1>1, <1>2 DEF PIPSIZ

LEMMA MinTwo ==
  ASSUME NEW a \in Nat, NEW b \in Nat
  PROVE  Min({a, b}) \in {a, b} /\ Min({a, b}) <= a /\ Min({a, b}) <= b
<1>1. \E x \in {a, b} : \A y \in {a, b} : x <= y
  <2>1. CASE a <= b  BY <2>1
  <2>2. CASE b <= a  BY <2>2
  <2> QED BY <2>1, <2>2
<1> QED BY <1>1 DEF Min

LEMMA MinThree ==
  ASSUME NEW a \in Nat, NEW b \in Nat, NEW c \in Nat
  PROVE  LET m == Min({a, b, c}) IN m \in {a, b, c} /\ m <= a /\ m <= b /\ m <= c
<1>1. \E x \in {a, b, c} : \A y \in {a, b, c} : x <= y
  <2>1. CASE a <= b /\ a <= c  BY <2>1
  <2>2. CASE b <= a /\ b <= c  BY <2>2
  <2>3. CASE c <= a /\ c <= b  BY <2>3
  <2> QED BY <2>1, <2>2, <2>3
<1> QED BY <1>1 DEF Min

(* An offset below PIPSIZ lies in a block of the FIFO.                      *)
LEMMA Place ==
  ASSUME NEW o \in 0..PIPSIZ-1
  PROVE  o % BSIZE \in 0..BSIZE-1 /\ o \div BSIZE \in Blk
<1>1. o \in Nat /\ o < NFADDR * BSIZE
  BY Sizes DEF PIPSIZ
<1>2. o % BSIZE \in 0..BSIZE-1 /\ o \div BSIZE \in Nat /\ o = BSIZE * (o \div BSIZE) + (o % BSIZE)
  BY <1>1, Sizes
<1> DEFINE q == o \div BSIZE
<1>3. q < NFADDR
  <2> SUFFICES ASSUME q >= NFADDR PROVE FALSE
    BY <1>2, Sizes
  <2>1. BSIZE * q >= BSIZE * NFADDR
    <3> HIDE DEF q
    <3>1. q \in Nat BY <1>2 DEF q
    <3> QED BY <3>1, Sizes
  <2> QED BY <1>1, <1>2, <2>1, Sizes
<1> QED BY <1>2, <1>3, Sizes DEF Blk

LEMMA OverwrittenType ==
  ASSUME NEW bytes \in Bytes, NEW on \in Nat, NEW n \in Nat, NEW new \in [1..n -> Byte]
  PROVE  Overwritten(bytes, on, n, new) \in Bytes
BY Sizes DEF Overwritten, Bytes

LEMMA BlankType == Blank \in Bytes /\ NoBuffer \in Buffer
BY DEF Blank, Bytes, Byte, NoBuffer, Buffer

-----------------------------------------------------------------------------
(* What the operators of the actions return.                               *)
LEMMA WokenType ==
  ASSUME asleep \in [Proc -> Channel], NEW chans
  PROVE  /\ Woken(chans) \in [Proc -> Channel]
         /\ \A q \in Proc : asleep[q] \in chans => Woken(chans)[q] = "no"
         /\ \A q \in Proc : asleep[q] \notin chans => Woken(chans)[q] = asleep[q]
BY DEF Woken, Channel

LEMMA FreshType ==
  ASSUME u \in [Proc -> Call], NEW p \in Proc
  PROVE  Fresh(p) \in Call /\ Fresh(p).mode = u[p].mode /\ NoCall \in Call
BY Sizes DEF Fresh, Call, NoCall, Mode, NoMode

LEMMA ReturnType ==
  ASSUME u \in [Proc -> Call], pc \in [Proc -> PC], NEW p \in Proc, Return(p)
  PROVE  /\ u' \in [Proc -> Call] /\ pc' \in [Proc -> PC] /\ pc'[p] = "open"
         /\ \A q \in Proc : u'[q].mode = u[q].mode
         /\ \A q \in Proc : q # p => pc'[q] = pc[q] /\ u'[q] = u[q]
BY FreshType DEF Return, Goto, PC

LEMMA ReleasedType ==
  ASSUME NEW i \in Inode
  PROVE  /\ Released(i) \in Inode /\ ~Released(i).lock /\ ~Released(i).want
         /\ Released(i).size = i.size /\ Released(i).frcnt = i.frcnt /\ Released(i).fwcnt = i.fwcnt
         /\ Released(i).fir = i.fir /\ Released(i).fiw = i.fiw
         /\ Released(i).frptr = i.frptr /\ Released(i).fwptr = i.fwptr
BY DEF Released, Inode

LEMMA ContentsType ==
  ASSUME TypeOK, NEW b \in Blk
  PROVE  Contents(b) \in Bytes
BY DEF TypeOK, Contents, Buffer

(* Nobody opens or closes: the counts of the ends still count.             *)
LEMMA SameEnds ==
  ASSUME EndsCounted, ip'.frcnt = ip.frcnt, ip'.fwcnt = ip.fwcnt,
         \A q \in Proc : u'[q].mode = u[q].mode /\ (pc'[q] = "idle" <=> pc[q] = "idle")
  PROVE  EndsCounted'
<1>1. UsesIt' = UsesIt
  BY DEF UsesIt
<1>2. {p \in UsesIt' : u'[p].mode.rd} = {p \in UsesIt : u[p].mode.rd}
  BY <1>1 DEF UsesIt
<1>3. {p \in UsesIt' : u'[p].mode.wr} = {p \in UsesIt : u[p].mode.wr}
  BY <1>1 DEF UsesIt
<1> QED BY <1>2, <1>3 DEF EndsCounted

(* Who has an end open is counted.                                         *)
LEMMA EndOpen ==
  ASSUME IInv, NEW p \in Proc, pc[p] # "idle"
  PROVE  /\ u[p].mode.rd => ip.frcnt > 0
         /\ u[p].mode.wr => ip.fwcnt > 0
<1> DEFINE R == {q \in UsesIt : u[q].mode.rd}
           W == {q \in UsesIt : u[q].mode.wr}
<1>1. IsFiniteSet(R) /\ IsFiniteSet(W)
  BY ProcAssumption, FS_Subset DEF UsesIt
<1>2. u[p].mode.rd => R # {}
  BY DEF UsesIt
<1>3. u[p].mode.wr => W # {}
  BY DEF UsesIt
<1>4. (R # {} => Cardinality(R) > 0) /\ (W # {} => Cardinality(W) > 0)
  BY <1>1, FS_EmptySet, FS_CardinalityType
<1> QED BY <1>2, <1>3, <1>4 DEF IInv, EndsCounted

-----------------------------------------------------------------------------
(* The initial state.                                                      *)
LEMMA InitInv == ASSUME Init PROVE IInv
<1>1. TypeOK
  <2>1. Closed \in Inode
    BY Sizes DEF Closed, Inode
  <2>2. NoCall \in Call
    BY Sizes DEF NoCall, Call, NoMode, Mode
  <2>3. 0 \in 0..Rounds-1
    BY Sizes DEF Rounds
  <2>4. pc \in [Proc -> PC] /\ asleep \in [Proc -> Channel]
    BY DEF Init, PC, Channel
  <2> QED BY <2>1, <2>2, <2>3, <2>4, BlankType DEF Init, TypeOK
<1>2. Fits /\ Places /\ Locked /\ Wanted /\ Waiting
  BY DEF Init, Fits, Places, Locked, Hold, Wanted, Waiting, Awaits, Closed
<1>3. EndsCounted
  <2>1. {p \in UsesIt : u[p].mode.rd} = {} /\ {p \in UsesIt : u[p].mode.wr} = {}
    BY DEF Init, UsesIt
  <2> QED BY <2>1, FS_EmptySet DEF Init, EndsCounted, Closed
<1> QED BY <1>1, <1>2, <1>3 DEF IInv

LEMMA StutterInv == ASSUME IInv, UNCHANGED vars PROVE IInv'
BY SameEnds DEF IInv, vars, blocks, TypeOK, Fits, Places, Locked, Wanted, Waiting, Awaits, NoRoom, TooMuch, InParts

LEMMA AwaitLockInv ==
  ASSUME IInv, NEW p \in Proc, AwaitLock(p)
  PROVE  IInv'
<1> USE DEF IInv
<1>1. ip' = [ip EXCEPT !.want = TRUE] /\ ip.lock /\ pc[p] \in {"rlock", "wlock", "clock"} /\ asleep[p] = "no"
  BY DEF AwaitLock, At
<1>2. asleep' = [asleep EXCEPT ![p] = "lock"]
  BY DEF AwaitLock, Sleep, WakeAndSleep, Woken, TypeOK
<1>3. UNCHANGED <<blocks, pc, u, faults, broken>>
  BY DEF AwaitLock
<1>4. TypeOK'
  BY <1>1, <1>2, <1>3 DEF TypeOK, Inode, Channel, blocks
<1>5. Fits' /\ Places' /\ Locked'
  BY <1>1, <1>2, <1>3 DEF TypeOK, Inode, Fits, Places, Locked
<1>6. Wanted'
  BY <1>1, <1>2, <1>3 DEF TypeOK, Inode, Wanted
<1>7. EndsCounted'
  BY <1>1, <1>3, SameEnds DEF TypeOK, Inode
<1>8. Waiting'
  BY <1>1, <1>2, <1>3 DEF TypeOK, Inode, Waiting, Awaits, NoRoom, TooMuch, InParts
<1> QED BY <1>4, <1>5, <1>6, <1>7, <1>8

LEMMA EvictInv ==
  ASSUME IInv, NEW b \in Blk, Evict(b)
  PROVE  IInv'
<1> USE DEF IInv
<1>1. TypeOK'
  BY BlankType DEF Evict, TypeOK, Buffer
<1>2. UNCHANGED <<ip, pc, u, asleep>>
  BY DEF Evict
<1>3. EndsCounted'
  BY <1>2, SameEnds
<1> QED BY <1>1, <1>2, <1>3 DEF Fits, Places, Locked, Wanted, Waiting, Awaits, NoRoom, TooMuch, InParts

LEMMA EvictFailsInv ==
  ASSUME IInv, NEW b \in Blk, EvictFails(b)
  PROVE  IInv'
<1> USE DEF IInv
<1>1. TypeOK'
  BY BlankType DEF EvictFails, TypeOK, Buffer
<1>2. UNCHANGED <<ip, pc, u, asleep>>
  BY DEF EvictFails
<1>3. EndsCounted'
  BY <1>2, SameEnds
<1> QED BY <1>1, <1>2, <1>3 DEF Fits, Places, Locked, Wanted, Waiting, Awaits, NoRoom, TooMuch, InParts

-----------------------------------------------------------------------------
(* Opening.                                                                *)
LEMMA OpenInv ==
  ASSUME IInv, NEW p \in Proc, NEW m \in Modes[p], Open(p, m)
  PROVE  IInv'
<1> USE DEF IInv
<1>1. m \in Mode
  BY ProcAssumption
<1>2. /\ ip' = Counted(ip, m) /\ u' = [u EXCEPT ![p].mode = m]
      /\ UNCHANGED <<blocks, faults, broken>> /\ pc[p] = "idle" /\ asleep[p] = "no"
  BY DEF Open, At
<1>3. /\ ip' \in Inode
      /\ ip'.frcnt = ip.frcnt + (IF m.rd THEN 1 ELSE 0) /\ ip'.fwcnt = ip.fwcnt + (IF m.wr THEN 1 ELSE 0)
      /\ ip'.size = ip.size /\ ip'.lock = ip.lock /\ ip'.want = ip.want /\ ip'.fir = ip.fir /\ ip'.fiw = ip.fiw
  <2> DEFINE r == IF m.rd THEN 1 ELSE 0
             w == IF m.wr THEN 1 ELSE 0
  <2>1. r \in Int /\ w \in Int /\ ip' = [ip EXCEPT !.frcnt = @ + r, !.fwcnt = @ + w]
    BY <1>2 DEF Counted
  <2> HIDE DEF r, w
  <2>2. /\ ip' \in Inode /\ ip'.frcnt = ip.frcnt + r /\ ip'.fwcnt = ip.fwcnt + w
        /\ ip'.size = ip.size /\ ip'.lock = ip.lock /\ ip'.want = ip.want /\ ip'.fir = ip.fir /\ ip'.fiw = ip.fiw
    <3>1. ip \in Inode
      BY DEF TypeOK
    <3> DEFINE a == ip.frcnt + r
               b == ip.fwcnt + w
    <3>2. a \in Int /\ b \in Int
      BY <2>1, <3>1 DEF Inode
    <3>3. ip' = [ip EXCEPT !.frcnt = a, !.fwcnt = b]
      BY <2>1
    <3> HIDE DEF a, b
    <3>4. /\ ip' \in Inode /\ ip'.frcnt = a /\ ip'.fwcnt = b
          /\ ip'.size = ip.size /\ ip'.lock = ip.lock /\ ip'.want = ip.want
          /\ ip'.fir = ip.fir /\ ip'.fiw = ip.fiw
      <4>1. ip' \in Inode
        BY <3>1, <3>2, <3>3 DEF Inode
      <4>2. /\ ip'.frcnt = a /\ ip'.fwcnt = b
            /\ ip'.size = ip.size /\ ip'.lock = ip.lock /\ ip'.want = ip.want
            /\ ip'.fir = ip.fir /\ ip'.fiw = ip.fiw
        BY <3>1, <3>3 DEF Inode
      <4> QED BY <4>1, <4>2
    <3> QED BY <3>4 DEF a, b
  <2> QED BY <2>2 DEF r, w
<1>4. /\ u' \in [Proc -> Call] /\ u'[p].mode = m
      /\ \A q \in Proc : q # p => u'[q] = u[q]
  BY <1>1, <1>2 DEF TypeOK, Call
<1>5. PICK l \in {"openr", "openw", "open"} :
        /\ pc' = [pc EXCEPT ![p] = l]
        /\ l = "openr" => NoWriterYet(ip', m) /\ WakeAndSleep(Arrivals(ip, m), p, "fwcnt")
        /\ l = "openw" => NoReaderYet(ip', m) /\ WakeAndSleep(Arrivals(ip, m), p, "frcnt")
        /\ l = "open" => Wakeup(Arrivals(ip, m))
  BY DEF Open, Goto
<1>6. /\ asleep' \in [Proc -> Channel]
      /\ \A q \in Proc : q # p => asleep'[q] = Woken(Arrivals(ip, m))[q]
      /\ asleep'[p] = IF l = "openr" THEN "fwcnt" ELSE IF l = "openw" THEN "frcnt" ELSE "no"
  <2>1. Woken(Arrivals(ip, m)) \in [Proc -> Channel] /\ "no" \notin Arrivals(ip, m)
    BY WokenType DEF TypeOK, Arrivals
  <2>2. Woken(Arrivals(ip, m))[p] = "no"
    BY <1>2 DEF Woken
  <2> QED BY <1>5, <2>1, <2>2 DEF WakeAndSleep, Wakeup, Channel
<1>7. \A q \in Proc : q # p => asleep'[q] = asleep[q] \/
         (asleep'[q] = "no" /\ asleep[q] \in {"frcnt", "fwcnt"})
  BY <1>6, WokenType DEF TypeOK, Arrivals
<1>8. pc' \in [Proc -> PC]
  BY <1>5 DEF TypeOK, PC
<1>9. TypeOK'
  BY <1>2, <1>3, <1>4, <1>6, <1>8 DEF TypeOK, blocks
<1>10. Fits'
  BY <1>3, <1>4, <1>5, <1>9 DEF Fits, TypeOK
<1>11. Places'
  BY <1>5, <1>6, <1>7 DEF Places, TypeOK
<1>12. Locked'
  BY <1>2, <1>3, <1>5 DEF Locked, Hold, TypeOK
<1>13. Wanted'
  BY <1>2, <1>3, <1>5, <1>6, <1>7 DEF Wanted
<1>14. EndsCounted'
  <2> DEFINE R == {q \in UsesIt : u[q].mode.rd}
             W == {q \in UsesIt : u[q].mode.wr}
  <2>1. IsFiniteSet(R) /\ IsFiniteSet(W) /\ p \notin R /\ p \notin W
    BY <1>2, ProcAssumption, FS_Subset DEF UsesIt
  <2>2. R' = (IF m.rd THEN R \cup {p} ELSE R) /\ W' = (IF m.wr THEN W \cup {p} ELSE W)
    BY <1>2, <1>4, <1>5 DEF UsesIt, TypeOK
  <2>3. Cardinality(R \cup {p}) = Cardinality(R) + 1 /\ Cardinality(W \cup {p}) = Cardinality(W) + 1
    BY <2>1, FS_AddElement
  <2>4. ip.frcnt = Cardinality(R) /\ ip.fwcnt = Cardinality(W)
    BY DEF EndsCounted
  <2>5. Cardinality(R) \in Nat /\ Cardinality(W) \in Nat
    BY <2>1, FS_CardinalityType
  <2> HIDE DEF R, W
  <2>6. ip'.frcnt = Cardinality(R')
    <3>1. CASE m.rd  BY <3>1, <1>3, <2>2, <2>3, <2>4
    <3>2. CASE ~m.rd  BY <3>2, <1>3, <2>2, <2>4, <2>5
    <3> QED BY <3>1, <3>2
  <2>7. ip'.fwcnt = Cardinality(W')
    <3>1. CASE m.wr  BY <3>1, <1>3, <2>2, <2>3, <2>4
    <3>2. CASE ~m.wr  BY <3>2, <1>3, <2>2, <2>4, <2>5
    <3> QED BY <3>1, <3>2
  <2> QED BY <2>6, <2>7 DEF EndsCounted, R, W
<1>15. Waiting'
  <2> SUFFICES ASSUME NEW q \in Proc PROVE Awaits(q)'
    BY DEF Waiting
  <2>1. CASE q = p
    BY <2>1, <1>5, <1>6, <1>3 DEF TypeOK, Awaits, NoWriterYet, NoReaderYet
  <2>2. CASE q # p
    <3>1. pc'[q] = pc[q] /\ u'[q] = u[q] /\ (NoRoom(q)' <=> NoRoom(q))
      BY <2>2, <1>3, <1>4, <1>5 DEF TypeOK, NoRoom, TooMuch, InParts
    <3>2. asleep'[q] = "frcnt" /\ ip.frcnt = 0 => ~m.rd
      BY <2>2, <1>6, WokenType DEF TypeOK, Arrivals
    <3>3. asleep'[q] = "fwcnt" /\ ip.fwcnt = 0 => ~m.wr
      BY <2>2, <1>6, WokenType DEF TypeOK, Arrivals
    <3>4. asleep'[q] # "no" => asleep'[q] = asleep[q]
      BY <2>2, <1>7
    <3>5. \A r \in Proc : pc[r] \in Hold => pc'[r] = pc[r]
      BY <1>2, <1>5 DEF Hold, TypeOK
    <3>6. ip.frcnt \in Int /\ ip.fwcnt \in Int
      BY DEF TypeOK, Inode
    <3> QED BY <3>1, <3>2, <3>3, <3>4, <3>5, <3>6, <1>3 DEF Waiting, Awaits, Hold
  <2> QED BY <2>1, <2>2
<1> QED BY <1>9, <1>10, <1>11, <1>12, <1>13, <1>14, <1>15

LEMMA OpenWokenInv ==
  ASSUME IInv, NEW p \in Proc, OpenWoken(p)
  PROVE  IInv'
<1> USE DEF IInv
<1>1. UNCHANGED <<ip, blocks, u, faults, broken>> /\ pc[p] \in {"openr", "openw"} /\ asleep[p] = "no"
  BY DEF OpenWoken, At
<1>2. CASE asleep' = asleep /\ pc' = [pc EXCEPT ![p] = "open"]
  <2>1. TypeOK' /\ Places' /\ Wanted'
    BY <1>1, <1>2 DEF TypeOK, PC, blocks, Places, Wanted
  <2>2. Fits' /\ Locked'
    BY <1>1, <1>2 DEF TypeOK, Fits, Locked, Hold
  <2>3. EndsCounted'
    BY <1>1, <1>2, SameEnds DEF TypeOK
  <2>4. Waiting'
    BY <1>1, <1>2 DEF TypeOK, Waiting, Awaits, NoRoom, TooMuch, InParts
  <2> QED BY <2>1, <2>2, <2>3, <2>4
<1>3. CASE /\ pc' = pc
           /\ IF pc[p] = "openr" THEN ip.fwcnt = 0 /\ asleep' = [asleep EXCEPT ![p] = "fwcnt"]
                                 ELSE ip.frcnt = 0 /\ asleep' = [asleep EXCEPT ![p] = "frcnt"]
  <2>1. TypeOK' /\ Places' /\ Wanted'
    BY <1>1, <1>3 DEF TypeOK, Channel, blocks, Places, Wanted
  <2>2. Fits' /\ Locked'
    BY <1>1, <1>3 DEF Fits, Locked
  <2>3. EndsCounted'
    BY <1>1, <1>3, SameEnds
  <2>4. Waiting'
    BY <1>1, <1>3 DEF TypeOK, Waiting, Awaits, NoRoom, TooMuch, InParts
  <2> QED BY <2>1, <2>2, <2>3, <2>4
<1> QED BY <1>1, <1>2, <1>3
        DEF OpenWoken, Goto, Sleep, WakeAndSleep, Woken, TypeOK, NoWriterYet, NoReaderYet

LEMMA InterruptInv ==
  ASSUME IInv, NEW p \in Proc, Interrupt(p)
  PROVE  IInv'
<1> USE DEF IInv
<1>1. /\ UNCHANGED <<ip, blocks, faults, broken>>
      /\ asleep[p] \in {"frcnt", "fwcnt"} /\ asleep' = [asleep EXCEPT ![p] = "no"]
      /\ u' = [u EXCEPT ![p] = Fresh(p)]
  BY DEF Interrupt
<1>2. PICK l \in {"clock", "open"} : pc' = [pc EXCEPT ![p] = l]
  BY DEF Interrupt, Goto
<1>3. pc[p] \in {"rlock", "wlock", "openr", "openw"}
  BY <1>1 DEF Places
<1>4. u' \in [Proc -> Call] /\ \A q \in Proc : u'[q].mode = u[q].mode /\ (q # p => u'[q] = u[q])
  BY <1>1, FreshType DEF TypeOK
<1>5. TypeOK'
  BY <1>1, <1>2, <1>4 DEF TypeOK, PC, Channel, blocks
<1>6. Fits' /\ Places' /\ Locked'
  BY <1>1, <1>2, <1>3, <1>4 DEF TypeOK, Fits, Places, Locked, Hold
<1>7. Wanted'
  BY <1>1 DEF TypeOK, Wanted
<1>8. EndsCounted'
  BY <1>1, <1>2, <1>3, <1>4, SameEnds DEF TypeOK
<1>9. Waiting'
  BY <1>1, <1>2, <1>3, <1>4 DEF TypeOK, Waiting, Awaits, NoRoom, TooMuch, InParts
<1> QED BY <1>5, <1>6, <1>7, <1>8, <1>9

(* A process that holds nothing and sleeps nowhere goes from one place     *)
(* outside the FIFO to another.                                            *)
LEMMA CallInv ==
  ASSUME IInv, NEW p \in Proc, NEW l \in PC, NEW c \in Call,
         pc[p] \in {"open", "rlock"}, asleep[p] = "no", l \in {"open", "rlock", "wlock", "clock"}, c.mode = u[p].mode,
         pc' = [pc EXCEPT ![p] = l], u' = [u EXCEPT ![p] = c],
         UNCHANGED <<ip, blocks, asleep, faults, broken>>
  PROVE  IInv'
<1> USE DEF IInv
<1>1. TypeOK'
  BY DEF TypeOK, blocks
<1>2. Fits' /\ Places' /\ Locked' /\ Wanted'
  BY DEF TypeOK, Fits, Places, Locked, Hold, Wanted
<1>3. EndsCounted'
  BY SameEnds DEF TypeOK
<1>4. Waiting'
  BY DEF TypeOK, Waiting, Awaits, NoRoom, TooMuch, InParts
<1> QED BY <1>1, <1>2, <1>3, <1>4

LEMMA CallReadInv ==
  ASSUME IInv, NEW p \in Proc, NEW n \in Counts, CallRead(p, n)
  PROVE  IInv'
<1>1. [Fresh(p) EXCEPT !.count = n] \in Call /\ [Fresh(p) EXCEPT !.count = n].mode = u[p].mode
  BY FreshType, SizeAssumption DEF IInv, TypeOK, Call
<1> QED BY <1>1, CallInv DEF CallRead, At, Goto, PC

LEMMA CallWriteInv ==
  ASSUME IInv, NEW p \in Proc, NEW n \in Counts, CallWrite(p, n)
  PROVE  IInv'
<1>1. /\ [Fresh(p) EXCEPT !.asked = n, !.count = n] \in Call
      /\ [Fresh(p) EXCEPT !.asked = n, !.count = n].mode = u[p].mode
  BY FreshType, SizeAssumption DEF IInv, TypeOK, Call
<1> QED BY <1>1, CallInv DEF CallWrite, At, Goto, PC

LEMMA CallCloseInv ==
  ASSUME IInv, NEW p \in Proc, CallClose(p)
  PROVE  IInv'
<1>1. u[p] \in Call /\ u' = [u EXCEPT ![p] = u[p]]
  BY DEF IInv, TypeOK, CallClose
<1> QED BY <1>1, CallInv DEF CallClose, At, Goto, PC

-----------------------------------------------------------------------------
(* Reading and writing. Either no process is inside, or p is the one.      *)
LEMMA Alone ==
  ASSUME IInv, NEW p \in Proc, pc[p] \in Hold \/ ~ip.lock, NEW q \in Proc, q # p
  PROVE  pc[q] \notin Hold
BY DEF IInv, Locked

(* p leaves the inode, with the lock or without having taken it.           *)
LEMMA LeaveInv ==
  ASSUME IInv, TypeOK', NEW p \in Proc, NEW chans,
         pc[p] \in Hold \/ ~ip.lock, pc[p] # "idle", asleep[p] = "no",
         ~ip'.lock, ~ip'.want, ip'.frcnt = ip.frcnt, ip'.fwcnt = ip.fwcnt,
         Return(p), asleep' = Woken(chans), ip.want => "lock" \in chans, "no" \notin chans,
         "frcnt" \in chans \/ ~ip.fir \/ (ip'.fir = ip.fir /\ pc[p] # "write" /\ ip'.size <= ip.size),
         "fwcnt" \in chans \/ ~ip.fiw \/ (ip'.fiw = ip.fiw /\ pc[p] # "read" /\ ip'.size >= ip.size)
  PROVE  IInv'
<1> USE DEF IInv
<1>1. /\ pc'[p] = "open" /\ \A q \in Proc : q # p => pc'[q] = pc[q] /\ u'[q] = u[q]
      /\ \A q \in Proc : u'[q].mode = u[q].mode
  BY ReturnType DEF TypeOK
<1>2. \A q \in Proc : pc'[q] \notin Hold
  BY <1>1, Alone DEF Hold
<1>3. /\ \A q \in Proc : asleep'[q] \in {"no", asleep[q]}
      /\ \A q \in Proc : asleep'[q] # "no" => asleep[q] = asleep'[q] /\ asleep[q] \notin chans
      /\ asleep'[p] = "no"
  BY WokenType DEF TypeOK
<1>4. Fits'
  BY <1>2 DEF Fits, Hold
<1>5. Places'
  BY <1>1, <1>3 DEF Places
<1>6. Locked'
  BY <1>2 DEF Locked
<1>7. Wanted'
  BY <1>3 DEF Wanted
<1>8. EndsCounted'
  BY <1>1, SameEnds
<1>9. Waiting'
  <2> SUFFICES ASSUME NEW q \in Proc, asleep'[q] # "no" PROVE Awaits(q)'
    BY DEF Waiting, Awaits
  <2>1. q # p /\ pc'[q] = pc[q] /\ u'[q] = u[q] /\ asleep'[q] = asleep[q] /\ asleep[q] \notin chans /\ Awaits(q)
    BY <1>1, <1>3 DEF Waiting
  <2>2. ip.size \in 0..PIPSIZ /\ ip'.size \in 0..PIPSIZ /\ u[q].count \in Nat
    BY Sizes DEF TypeOK, Inode, Call
  <2>3. CASE asleep[q] = "frcnt" /\ pc[q] = "rlock"
    <3>1. ip'.fir = ip.fir /\ pc[p] # "write" /\ ip'.size <= ip.size
      BY <2>1, <2>3 DEF Awaits
    <3>2. \A r \in Proc : pc[r] # "write"
      BY <3>1, Alone DEF Hold
    <3>3. ip.size = 0
      BY <2>1, <2>3, <3>2 DEF Awaits
    <3> QED BY <2>1, <2>2, <2>3, <3>1, <3>3 DEF Awaits
  <2>4. CASE asleep[q] = "fwcnt" /\ pc[q] = "wlock"
    <3>1. ip'.fiw = ip.fiw /\ pc[p] # "read" /\ ip'.size >= ip.size
      BY <2>1, <2>4 DEF Awaits
    <3>2. \A r \in Proc : pc[r] # "read"
      BY <3>1, Alone DEF Hold
    <3>3. NoRoom(q)
      BY <2>1, <2>4, <3>2 DEF Awaits
    <3>4. NoRoom(q)'
      BY <2>1, <2>2, <3>1, <3>3, Sizes DEF NoRoom, TooMuch, InParts
    <3> QED BY <2>1, <2>4, <3>1, <3>4 DEF Awaits
  <2> QED BY <2>1, <2>3, <2>4 DEF Awaits
<1> QED BY <1>4, <1>5, <1>6, <1>7, <1>8, <1>9

(* p goes on inside, or takes the lock.                                    *)
LEMMA InsideInv ==
  ASSUME IInv, TypeOK', NEW p \in Proc, NEW chans, NEW l \in Hold,
         pc[p] \in Hold \/ ~ip.lock, pc[p] # "idle", asleep[p] = "no",
         ip'.lock, ip'.want = ip.want, ip'.frcnt = ip.frcnt, ip'.fwcnt = ip.fwcnt, ip'.fiw = ip.fiw,
         pc' = [pc EXCEPT ![p] = l], asleep' = Woken(chans), chans \subseteq {"frcnt"},
         u'[p].mode = u[p].mode, \A q \in Proc : q # p => u'[q] = u[q],
         l = "write" => ip'.size + u'[p].count <= PIPSIZ /\ u'[p].moved + u'[p].count <= PIPSIZ,
         \/ "frcnt" \in chans \/ ~ip.fir
         \/ ip'.fir = ip.fir /\ (l = "write" \/ (pc[p] # "write" /\ ip'.size <= ip.size)),
         l = "read" \/ (pc[p] # "read" /\ ip'.size >= ip.size)
  PROVE  IInv'
<1> USE DEF IInv
<1>1. pc'[p] = l /\ \A q \in Proc : q # p => pc'[q] = pc[q]
  BY DEF TypeOK
<1>2. \A q \in Proc : q # p => pc'[q] \notin Hold
  BY <1>1, Alone
<1>3. /\ \A q \in Proc : asleep'[q] # "no" => asleep[q] = asleep'[q] /\ asleep[q] \notin chans
      /\ \A q \in Proc : asleep[q] = "lock" => asleep'[q] = "lock"
      /\ asleep'[p] = "no"
  BY WokenType DEF TypeOK
<1>4. Fits'
  BY <1>1, <1>2 DEF Fits, Hold
<1>5. Places'
  BY <1>1, <1>3 DEF Places
<1>6. Locked'
  BY <1>1, <1>2 DEF Locked
<1>7. Wanted'
  BY <1>3 DEF Wanted
<1>8. EndsCounted'
  <2>1. \A q \in Proc : u'[q].mode = u[q].mode /\ (pc'[q] = "idle" <=> pc[q] = "idle")
    BY <1>1 DEF Hold
  <2> QED BY <2>1, SameEnds
<1>9. Waiting'
  <2> SUFFICES ASSUME NEW q \in Proc, asleep'[q] # "no" PROVE Awaits(q)'
    BY DEF Waiting, Awaits
  <2>1. q # p /\ pc'[q] = pc[q] /\ u'[q] = u[q] /\ asleep'[q] = asleep[q] /\ asleep[q] \notin chans /\ Awaits(q)
    BY <1>1, <1>3 DEF Waiting
  <2>2. ip.size \in 0..PIPSIZ /\ ip'.size \in 0..PIPSIZ /\ u[q].count \in Nat
    BY Sizes DEF TypeOK, Inode, Call
  <2>3. CASE asleep[q] = "frcnt" /\ pc[q] = "rlock"
    <3>1. ip'.fir = ip.fir /\ (l = "write" \/ (pc[p] # "write" /\ ip'.size <= ip.size))
      BY <2>1, <2>3 DEF Awaits
    <3>2. l = "write" \/ (ip.size = 0 /\ ip'.size <= ip.size)
      <4>1. CASE pc[p] # "write"
        <5>1. \A r \in Proc : pc[r] # "write"
          BY <4>1, Alone DEF Hold
        <5> QED BY <2>1, <2>3, <3>1, <5>1 DEF Awaits
      <4> QED BY <3>1, <4>1
    <3> QED BY <1>1, <2>1, <2>2, <2>3, <3>1, <3>2 DEF Awaits
  <2>4. CASE asleep[q] = "fwcnt" /\ pc[q] = "wlock"
    <3>1. l = "read" \/ NoRoom(q)'
      <4>1. CASE pc[p] # "read" /\ ip'.size >= ip.size
        <5>1. \A r \in Proc : pc[r] # "read"
          BY <4>1, Alone DEF Hold
        <5>2. NoRoom(q)
          BY <2>1, <2>4, <5>1 DEF Awaits
        <5> QED BY <2>1, <2>2, <4>1, <5>2, Sizes DEF NoRoom, TooMuch, InParts
      <4> QED BY <4>1
    <3> QED BY <1>1, <2>1, <2>4, <3>1 DEF Awaits
  <2> QED BY <2>1, <2>3, <2>4 DEF Awaits
<1> QED BY <1>4, <1>5, <1>6, <1>7, <1>8, <1>9

LEMMA ReadTestInv ==
  ASSUME IInv, NEW p \in Proc, ReadTest(p)
  PROVE  IInv'
<1> USE DEF IInv
<1>1. pc[p] = "rlock" /\ asleep[p] = "no" /\ ~ip.lock /\ UNCHANGED <<blocks, faults, broken>> /\ ip \in Inode
  BY DEF ReadTest, At, TypeOK
<1>2. CASE ip.size > 0
  <2>1. /\ ip' = [ip EXCEPT !.lock = TRUE] /\ u' = [u EXCEPT ![p].offset = ip.frptr]
        /\ pc' = [pc EXCEPT ![p] = "read"] /\ asleep' = asleep
    BY <1>2 DEF ReadTest, Goto
  <2>2. u' \in [Proc -> Call] /\ u'[p].mode = u[p].mode /\ \A q \in Proc : q # p => u'[q] = u[q]
    BY <1>1, <2>1 DEF TypeOK, Call, Inode
  <2>3. ip' \in Inode
    BY <1>1, <2>1 DEF Inode
  <2>4. /\ ip'.lock /\ ip'.want = ip.want /\ ip'.frcnt = ip.frcnt /\ ip'.fwcnt = ip.fwcnt /\ ip'.fiw = ip.fiw
        /\ ip'.fir = ip.fir /\ ip'.size = ip.size
    BY <1>1, <2>1 DEF Inode
  <2>5. TypeOK'
    BY <1>1, <2>1, <2>2, <2>3 DEF TypeOK, PC, blocks
  <2>6. asleep' = Woken({})
    BY <2>1 DEF Woken, TypeOK
  <2>7. ip.size \in Int
    BY <1>1, Sizes DEF Inode
  <2>8. pc' = [pc EXCEPT ![p] = "read"] /\ ip'.size <= ip.size
    BY <2>1, <2>4, <2>7
  <2>9. pc[p] \in Hold \/ ~ip.lock
    BY <1>1
  <2> HIDE DEF IInv
  <2> QED BY <1>1, <2>2, <2>4, <2>5, <2>6, <2>8, <2>9, InsideInv DEF Hold
<1>3. CASE ~(ip.size > 0) /\ (ip.fwcnt = 0 \/ u[p].mode.ndelay)
  <2>1. Return(p) /\ UNCHANGED <<ip, asleep>>
    BY <1>3 DEF ReadTest
  <2>2. Fresh(p) \in Call /\ Fresh(p).mode = u[p].mode
    BY FreshType DEF TypeOK
  <2> HIDE DEF IInv
  <2> QED BY <1>1, <2>1, <2>2, CallInv DEF Return, Goto, PC
<1>4. CASE ~(ip.size > 0) /\ ~(ip.fwcnt = 0 \/ u[p].mode.ndelay)
  <2>1. /\ ip' = [ip EXCEPT !.fir = TRUE] /\ asleep' = [asleep EXCEPT ![p] = "frcnt"] /\ UNCHANGED <<pc, u>>
    BY <1>4 DEF ReadTest, Sleep, WakeAndSleep, Woken, TypeOK
  <2>2. ip' \in Inode
    BY <1>1, <2>1 DEF Inode
  <2>3. /\ ip'.lock = ip.lock /\ ip'.want = ip.want /\ ip'.frcnt = ip.frcnt /\ ip'.fwcnt = ip.fwcnt /\ ip'.fiw = ip.fiw
        /\ ip'.fir /\ ip'.size = ip.size
    BY <1>1, <2>1 DEF Inode
  <2>4. TypeOK'
    BY <1>1, <2>1, <2>2 DEF TypeOK, Channel, blocks
  <2>5. Fits' /\ Places' /\ Locked' /\ Wanted'
    BY <1>1, <2>1, <2>3 DEF TypeOK, Fits, Places, Locked, Wanted
  <2>6. EndsCounted'
    BY <2>1, <2>3, SameEnds
  <2>7. ip.fwcnt > 0
    <3>1. ip.fwcnt \in Nat
      <4>1. IsFiniteSet({q \in UsesIt : u[q].mode.wr})
        BY ProcAssumption, FS_Subset DEF UsesIt
      <4> QED BY <4>1, FS_CardinalityType DEF EndsCounted
    <3> QED BY <3>1, <1>4
  <2>8. ip.size = 0
    BY <1>1, <1>4, Sizes DEF Inode
  <2>9. Waiting'
    BY <1>1, <2>1, <2>3, <2>7, <2>8 DEF TypeOK, Waiting, Awaits, NoRoom, TooMuch, InParts
  <2> QED BY <2>4, <2>5, <2>6, <2>9
<1> QED BY <1>2, <1>3, <1>4

LEMMA ReadDoneType ==
  ASSUME NEW i \in Inode, NEW o \in 0..PIPSIZ-1
  PROVE  /\ ReadDone(i, o) \in Inode /\ ~ReadDone(i, o).lock /\ ~ReadDone(i, o).want
         /\ ReadDone(i, o).size = i.size /\ ReadDone(i, o).frcnt = i.frcnt /\ ReadDone(i, o).fwcnt = i.fwcnt
         /\ ReadDone(i, o).fir = i.fir /\ ReadDone(i, o).fiw = FALSE
<1> DEFINE r == Released(i)
           a == IF i.size > 0 THEN o ELSE 0
           b == IF i.size > 0 THEN i.fwptr ELSE 0
           j == [r EXCEPT !.frptr = a, !.fwptr = b, !.fiw = FALSE]
<1>1. /\ r \in Inode /\ ~r.lock /\ ~r.want
      /\ r.size = i.size /\ r.frcnt = i.frcnt /\ r.fwcnt = i.fwcnt /\ r.fir = i.fir /\ r.fwptr = i.fwptr
  BY ReleasedType
<1>2. a \in 0..PIPSIZ-1 /\ b \in 0..PIPSIZ-1
  BY Sizes DEF Inode
<1>3. ReadDone(i, o) = j
  BY <1>1 DEF ReadDone
<1> HIDE DEF r, a, b
<1>4. j \in Inode
  BY <1>1, <1>2 DEF Inode
<1>5. /\ ~j.lock /\ ~j.want /\ j.size = i.size /\ j.frcnt = i.frcnt /\ j.fwcnt = i.fwcnt
      /\ j.fir = i.fir /\ j.fiw = FALSE
  BY <1>1 DEF Inode
<1> QED BY <1>3, <1>4, <1>5

LEMMA ReadHoleInv ==
  ASSUME IInv, NEW p \in Proc, ReadHole(p)
  PROVE  IInv'
<1>1. /\ pc[p] = "read" /\ asleep[p] = "no" /\ Return(p) /\ ip' = ReadDone(ip, u[p].offset)
      /\ UNCHANGED <<blocks, faults, broken>>
      /\ asleep' = Woken(WakeWriters(ip) \cup Wanters(ip))
  BY DEF ReadHole, At, Wakeup
<1>2. ip \in Inode /\ u[p].offset \in 0..PIPSIZ-1
  BY DEF IInv, TypeOK, Call
<1>3. /\ ip' \in Inode /\ ~ip'.lock /\ ~ip'.want /\ ip'.size = ip.size /\ ip'.frcnt = ip.frcnt /\ ip'.fwcnt = ip.fwcnt
      /\ ip'.fir = ip.fir
  BY <1>1, <1>2, ReadDoneType
<1>4. TypeOK'
  BY <1>1, <1>3, ReturnType, WokenType DEF IInv, TypeOK, blocks
<1>5. /\ ip.want => "lock" \in WakeWriters(ip) \cup Wanters(ip)
      /\ "no" \notin WakeWriters(ip) \cup Wanters(ip)
      /\ "fwcnt" \in WakeWriters(ip) \cup Wanters(ip) \/ ~ip.fiw
  BY DEF WakeWriters, Wanters
<1>6. ip.size \in Int
  BY <1>2, Sizes DEF Inode
<1> QED BY <1>1, <1>3, <1>4, <1>5, <1>6, LeaveInv DEF Hold

LEMMA ReadFailsInv ==
  ASSUME IInv, NEW p \in Proc, ReadFails(p)
  PROVE  IInv'
<1> DEFINE on == u[p].offset % BSIZE
           most == Min({BSIZE - on, u[p].count, ip.size})
<1>1. pc[p] = "read" /\ asleep[p] = "no" /\ UNCHANGED <<faddr, cache, disk>>
  BY DEF ReadFails, At
<1>2. ip \in Inode /\ u[p].offset \in 0..PIPSIZ-1 /\ u[p].count \in Nat /\ ip.size \in 0..PIPSIZ
  BY Sizes DEF IInv, TypeOK, Call, Inode
<1>3. most \in Nat /\ most <= ip.size
  <2>1. BSIZE - on \in Nat /\ u[p].count \in Nat /\ ip.size \in Nat
    BY <1>2, Place, Sizes
  <2> QED BY <2>1, MinThree
<1>4. PICK n \in {0, most}, copied \in BOOLEAN :
        LET i == [ip EXCEPT !.size = @ - n]
        IN /\ ip' = ReadDone(i, IF copied THEN Wrap(u[p].offset + n) ELSE u[p].offset)
           /\ asleep' = Woken(WakeWriters(i) \cup Wanters(i)) /\ Return(p)
           /\ broken' = (broken \/ n # 0)
           /\ serial' = IF i.size = 0 THEN 0 ELSE serial
  BY DEF ReadFails, Wakeup
<1> HIDE DEF most
<1> DEFINE size == ip.size - n
           i == [ip EXCEPT !.size = size]
           o == IF copied THEN Wrap(u[p].offset + n) ELSE u[p].offset
<1>5. size \in 0..PIPSIZ /\ size <= ip.size /\ o \in 0..PIPSIZ-1
  BY <1>2, <1>3, Sizes DEF Wrap
<1>6. /\ ip' = ReadDone(i, o) /\ asleep' = Woken(WakeWriters(i) \cup Wanters(i)) /\ Return(p)
      /\ broken' = (broken \/ n # 0) /\ serial' = IF i.size = 0 THEN 0 ELSE serial
  BY <1>4
<1> HIDE DEF size, o
<1>7. i \in Inode
  BY <1>2, <1>5 DEF Inode
<1>8. /\ i.size = size /\ i.lock = ip.lock /\ i.want = ip.want /\ i.frcnt = ip.frcnt /\ i.fwcnt = ip.fwcnt
      /\ i.fir = ip.fir /\ i.fiw = ip.fiw
  BY <1>2 DEF Inode
<1> HIDE DEF i
<1>9. /\ ip' \in Inode /\ ~ip'.lock /\ ~ip'.want /\ ip'.size = i.size /\ ip'.frcnt = i.frcnt
      /\ ip'.fwcnt = i.fwcnt /\ ip'.fir = i.fir
  BY <1>5, <1>6, <1>7, ReadDoneType
<1>10. serial' \in 0..Rounds-1 /\ broken' \in BOOLEAN
  <2>1. 0 \in 0..Rounds-1
    BY Sizes DEF Rounds
  <2> QED BY <1>6, <2>1 DEF IInv, TypeOK
<1>11. TypeOK'
  BY <1>1, <1>6, <1>9, <1>10, ReturnType, WokenType DEF IInv, TypeOK
<1>12. /\ ip.want => "lock" \in WakeWriters(i) \cup Wanters(i)
       /\ "no" \notin WakeWriters(i) \cup Wanters(i)
       /\ "fwcnt" \in WakeWriters(i) \cup Wanters(i) \/ ~ip.fiw
  BY <1>8 DEF WakeWriters, Wanters
<1>13. ip'.size <= ip.size
  BY <1>5, <1>8, <1>9
<1> QED BY <1>1, <1>6, <1>8, <1>9, <1>11, <1>12, <1>13, LeaveInv DEF Hold

LEMMA ReadBlockInv ==
  ASSUME IInv, NEW p \in Proc, NEW fails \in BOOLEAN, ReadBlock(p, fails)
  PROVE  IInv'
<1> DEFINE on == u[p].offset % BSIZE
           b == u[p].offset \div BSIZE
           n == Min({BSIZE - on, u[p].count, ip.size})
           offset == IF fails THEN u[p].offset ELSE Wrap(u[p].offset + n)
           size == ip.size - n
           i == [ip EXCEPT !.size = size]
           count == IF fails THEN u[p].count ELSE u[p].count - n
           drop == on + n = BSIZE /\ size < PIPSIZ - BSIZE
           over == fails \/ count = 0 \/ size = 0
<1>1. pc[p] = "read" /\ asleep[p] = "no" /\ UNCHANGED <<faddr, disk>> /\ b \in faddr
  BY DEF ReadBlock, At
<1>2. /\ cache' = [cache EXCEPT ![b] =
           [in |-> TRUE, dirty |-> cache[b].dirty /\ ~drop,
            bytes |-> IF fails THEN Contents(b) ELSE Overwritten(Contents(b), on, n, [k \in 1..n |-> Junk])]]
      /\ serial' = IF size = 0 THEN 0 ELSE serial
  BY DEF ReadBlock
<1>3. ip \in Inode /\ u[p] \in Call /\ u[p].offset \in 0..PIPSIZ-1 /\ u[p].count \in Nat /\ ip.size \in 0..PIPSIZ
  BY Sizes DEF IInv, TypeOK, Call, Inode
<1>4. on \in 0..BSIZE-1 /\ b \in Blk
  BY <1>3, Place
<1>5. n \in Nat /\ n <= u[p].count /\ n <= ip.size
  <2>1. BSIZE - on \in Nat /\ u[p].count \in Nat /\ ip.size \in Nat
    BY <1>3, <1>4, Sizes
  <2> QED BY <2>1, MinThree
<1> HIDE DEF on, b, n
<1>6. size \in 0..PIPSIZ /\ size <= ip.size /\ offset \in 0..PIPSIZ-1 /\ count \in Nat
  BY <1>3, <1>5, Sizes DEF Wrap
<1>7. cache' \in [Blk -> Buffer]
  <2>1. Contents(b) \in Bytes
    BY <1>4, ContentsType DEF IInv
  <2>2. Overwritten(Contents(b), on, n, [k \in 1..n |-> Junk]) \in Bytes
    <3>1. [k \in 1..n |-> Junk] \in [1..n -> Byte] /\ on \in Nat
      BY <1>4, Sizes DEF Byte
    <3> QED BY <2>1, <3>1, <1>5, OverwrittenType
  <2>3. cache[b].dirty \in BOOLEAN
    BY <1>4 DEF IInv, TypeOK, Buffer
  <2> QED BY <1>2, <1>4, <2>1, <2>2, <2>3 DEF IInv, TypeOK, Buffer
<1>8. serial' \in 0..Rounds-1 /\ broken' \in BOOLEAN
  <2>1. 0 \in 0..Rounds-1
    BY Sizes DEF Rounds
  <2> QED BY <1>2, <2>1 DEF IInv, TypeOK, ReadBlock
<1> HIDE DEF size, offset, count, drop
<1>9. i \in Inode
  BY <1>3, <1>6 DEF Inode
<1>10. /\ i.size = size /\ i.lock = ip.lock /\ i.want = ip.want /\ i.frcnt = ip.frcnt /\ i.fwcnt = ip.fwcnt
       /\ i.fir = ip.fir /\ i.fiw = ip.fiw
  BY <1>3 DEF Inode
<1>11. CASE over
  <2>1. ip' = ReadDone(i, offset) /\ Return(p) /\ asleep' = Woken(WakeWriters(i) \cup Wanters(i))
    BY <1>11 DEF ReadBlock, Wakeup, on, b, n, size, offset, count
  <2> HIDE DEF i
  <2>2. /\ ip' \in Inode /\ ~ip'.lock /\ ~ip'.want /\ ip'.size = i.size /\ ip'.frcnt = i.frcnt
        /\ ip'.fwcnt = i.fwcnt /\ ip'.fir = i.fir
    BY <2>1, <1>6, <1>9, ReadDoneType
  <2>3. TypeOK'
    BY <1>1, <1>7, <1>8, <2>1, <2>2, ReturnType, WokenType DEF IInv, TypeOK
  <2>4. /\ ip.want => "lock" \in WakeWriters(i) \cup Wanters(i)
        /\ "no" \notin WakeWriters(i) \cup Wanters(i)
        /\ "fwcnt" \in WakeWriters(i) \cup Wanters(i) \/ ~ip.fiw
    BY <1>10 DEF WakeWriters, Wanters
  <2>5. ip'.size <= ip.size
    BY <1>6, <1>10, <2>2
  <2> QED BY <1>1, <1>10, <2>1, <2>2, <2>3, <2>4, <2>5, LeaveInv DEF Hold
<1>12. CASE ~over
  <2>1. /\ ip' = i /\ u' = [u EXCEPT ![p].offset = offset, ![p].count = count] /\ UNCHANGED <<pc, asleep>>
    BY <1>12 DEF ReadBlock, on, b, n, size, offset, count
  <2>2. u' \in [Proc -> Call] /\ u'[p].mode = u[p].mode /\ \A q \in Proc : q # p => u'[q] = u[q]
    BY <2>1, <1>6, <1>3 DEF IInv, TypeOK, Call
  <2>3. TypeOK'
    BY <1>1, <1>7, <1>8, <1>9, <2>1, <2>2 DEF IInv, TypeOK
  <2>4. pc' = [pc EXCEPT ![p] = "read"] /\ asleep' = Woken({})
    BY <1>1, <2>1 DEF IInv, TypeOK, Woken
  <2>5. ip.lock
    BY <1>1 DEF IInv, Locked, Hold
  <2> HIDE DEF i
  <2> QED BY <1>1, <1>6, <1>10, <2>1, <2>2, <2>3, <2>4, <2>5, InsideInv DEF Hold
<1> QED BY <1>11, <1>12

LEMMA WriteTestInv ==
  ASSUME IInv, NEW p \in Proc, WriteTest(p)
  PROVE  IInv'
<1>1. /\ pc[p] \in {"wlock", "wagain"} /\ asleep[p] = "no" /\ (pc[p] \in Hold \/ ~ip.lock)
      /\ UNCHANGED <<blocks, faults, broken>>
  BY DEF WriteTest, At, Hold
<1>2. ip \in Inode /\ u[p] \in Call /\ u[p].count \in Nat /\ ip.size \in 0..PIPSIZ /\ ip.size \in Int
  BY Sizes DEF IInv, TypeOK, Call, Inode
<1>3. Wanters(ip) \subseteq {"lock"} /\ (ip.want => "lock" \in Wanters(ip))
  BY DEF Wanters
<1>4. CASE ip.frcnt = 0 \/ (NoRoom(p) /\ u[p].mode.ndelay)
  <2>1. ip' = Released(ip) /\ asleep' = Woken(Wanters(ip)) /\ Return(p)
    BY <1>4 DEF WriteTest, Wakeup
  <2>2. /\ ip' \in Inode /\ ~ip'.lock /\ ~ip'.want /\ ip'.size = ip.size /\ ip'.frcnt = ip.frcnt
        /\ ip'.fwcnt = ip.fwcnt /\ ip'.fir = ip.fir /\ ip'.fiw = ip.fiw
    BY <1>2, <2>1, ReleasedType
  <2>3. TypeOK'
    BY <1>1, <2>1, <2>2, ReturnType, WokenType DEF IInv, TypeOK, blocks
  <2>4. ip'.size <= ip.size /\ ip'.size >= ip.size
    BY <1>2, <2>2
  <2> QED BY <1>1, <1>3, <2>1, <2>2, <2>3, <2>4, LeaveInv DEF Hold
<1>5. CASE ~(ip.frcnt = 0 \/ (NoRoom(p) /\ u[p].mode.ndelay)) /\ NoRoom(p)
  <2>1. /\ ip' = [Released(ip) EXCEPT !.fiw = TRUE] /\ u' = [u EXCEPT ![p].usave = 0]
        /\ pc' = [pc EXCEPT ![p] = "wlock"] /\ asleep' = [Woken(Wanters(ip)) EXCEPT ![p] = "fwcnt"]
    BY <1>5 DEF WriteTest, WakeAndSleep, Goto
  <2>2. ip' \in Inode
    BY <1>2, <2>1, ReleasedType DEF Inode
  <2>3. /\ ~ip'.lock /\ ~ip'.want /\ ip'.size = ip.size /\ ip'.frcnt = ip.frcnt
        /\ ip'.fwcnt = ip.fwcnt /\ ip'.fir = ip.fir /\ ip'.fiw
    BY <1>2, <2>1, ReleasedType DEF Inode
  <2>4. /\ u' \in [Proc -> Call] /\ u'[p].mode = u[p].mode /\ u'[p].count = u[p].count
        /\ \A q \in Proc : q # p => u'[q] = u[q]
    BY <1>2, <2>1 DEF IInv, TypeOK, Call
  <2>5. /\ asleep' \in [Proc -> Channel] /\ asleep'[p] = "fwcnt"
        /\ \A q \in Proc : q # p => asleep'[q] \in {"no", asleep[q]}
        /\ \A q \in Proc : asleep'[q] # "lock" \/ ~ip.want
    BY <1>3, <2>1, WokenType DEF IInv, TypeOK, Channel
  <2>6. pc' \in [Proc -> PC] /\ pc'[p] = "wlock" /\ \A q \in Proc : q # p => pc'[q] = pc[q]
    BY <2>1 DEF IInv, TypeOK, PC
  <2>7. TypeOK'
    BY <1>1, <2>2, <2>4, <2>5, <2>6 DEF IInv, TypeOK, blocks
  <2>8. \A q \in Proc : pc'[q] \notin Hold
    BY <1>1, <2>6, Alone DEF Hold
  <2>9. Fits' /\ Locked'
    BY <2>3, <2>8 DEF Fits, Locked, Hold
  <2>10. Places' /\ Wanted'
    BY <2>3, <2>5, <2>6 DEF IInv, Places, Wanted
  <2>11. EndsCounted'
    <3>1. \A q \in Proc : u'[q].mode = u[q].mode /\ (pc'[q] = "idle" <=> pc[q] = "idle")
      BY <1>1, <2>4, <2>6
    <3> QED BY <2>3, <3>1, SameEnds DEF IInv
  <2>12. Waiting'
    <3> SUFFICES ASSUME NEW q \in Proc, asleep'[q] # "no" PROVE Awaits(q)'
      BY DEF Waiting, Awaits
    <3>1. NoRoom(q)' <=> NoRoom(q)
      BY <2>3, <2>4 DEF NoRoom, TooMuch, InParts
    <3>2. CASE q = p
      <4>1. ip.frcnt > 0
        <5>1. IsFiniteSet({r \in UsesIt : u[r].mode.rd})
          BY ProcAssumption, FS_Subset DEF UsesIt
        <5> QED BY <1>5, <5>1, FS_CardinalityType DEF IInv, EndsCounted
      <4> QED BY <1>5, <2>3, <2>5, <2>6, <3>1, <3>2, <4>1 DEF Awaits
    <3>3. CASE q # p
      <4>1. asleep'[q] = asleep[q] /\ pc'[q] = pc[q] /\ Awaits(q)
        BY <2>5, <2>6, <3>3 DEF IInv, Waiting
      <4>2. \A r \in Proc : pc[r] \notin {"read", "write"}
        BY <1>1, Alone DEF Hold
      <4> QED BY <2>3, <3>1, <4>1, <4>2 DEF Awaits
    <3> QED BY <3>2, <3>3
  <2> QED BY <2>7, <2>9, <2>10, <2>11, <2>12 DEF IInv
<1>6. CASE ~(ip.frcnt = 0 \/ (NoRoom(p) /\ u[p].mode.ndelay)) /\ ~NoRoom(p)
  <2> DEFINE n == IF TooMuch(p) THEN PIPSIZ - ip.size ELSE u[p].count
             c == [u[p] EXCEPT !.count = n, !.usave = u[p].count - n, !.moved = 0, !.offset = ip.fwptr]
  <2>1. /\ ip' = [ip EXCEPT !.lock = TRUE] /\ pc' = [pc EXCEPT ![p] = "write"] /\ asleep' = asleep
        /\ u' = [u EXCEPT ![p] = c]
    BY <1>2, <1>6 DEF WriteTest, Goto, IInv, TypeOK, Call
  <2>2. n \in Nat /\ u[p].count - n \in Nat /\ ip.size + n <= PIPSIZ /\ n <= PIPSIZ
    BY <1>2, <1>6, Sizes DEF NoRoom, TooMuch, InParts
  <2> HIDE DEF n
  <2>3. c \in Call
    <3>1. 0 \in 0..PIPSIZ /\ ip.fwptr \in 0..PIPSIZ-1
      BY <1>2, Sizes DEF Inode
    <3> QED BY <1>2, <2>2, <3>1 DEF Call
  <2>4. c.mode = u[p].mode /\ c.count = n /\ c.moved = 0
    BY <1>2 DEF Call
  <2>5. ip' \in Inode
    BY <1>2, <2>1 DEF Inode
  <2>6. /\ ip'.lock /\ ip'.want = ip.want /\ ip'.frcnt = ip.frcnt /\ ip'.fwcnt = ip.fwcnt /\ ip'.fiw = ip.fiw
        /\ ip'.fir = ip.fir /\ ip'.size = ip.size
    BY <1>2, <2>1 DEF Inode
  <2> HIDE DEF c
  <2>7. u' \in [Proc -> Call] /\ u'[p] = c /\ \A q \in Proc : q # p => u'[q] = u[q]
    BY <2>1, <2>3 DEF IInv, TypeOK
  <2>8. TypeOK'
    BY <1>1, <2>1, <2>5, <2>7 DEF IInv, TypeOK, PC, blocks
  <2>9. asleep' = Woken({})
    BY <2>1 DEF IInv, TypeOK, Woken
  <2>10. ip'.size + u'[p].count <= PIPSIZ /\ u'[p].moved + u'[p].count <= PIPSIZ /\ ip'.size >= ip.size
    BY <1>2, <2>2, <2>4, <2>6, <2>7
  <2>11. pc[p] # "read" /\ pc[p] # "idle" /\ u'[p].mode = u[p].mode /\ pc' = [pc EXCEPT ![p] = "write"]
    BY <1>1, <2>1, <2>4, <2>7
  <2> QED BY <1>1, <2>6, <2>7, <2>8, <2>9, <2>10, <2>11, InsideInv DEF Hold
<1> QED BY <1>4, <1>5, <1>6

(* The end of writei, at whatever size it leaves.                          *)
LEMMA WriteDoneInv ==
  ASSUME IInv, NEW p \in Proc, NEW i \in Inode, NEW o \in 0..PIPSIZ-1, NEW err \in BOOLEAN,
         pc[p] = "write", asleep[p] = "no", i.size >= ip.size, i.frcnt = ip.frcnt, i.fwcnt = ip.fwcnt,
         i.lock = ip.lock, i.want = ip.want, i.fir = ip.fir, i.fiw = ip.fiw,
         WriteDone(p, i, o, err),
         faddr' \subseteq Blk, cache' \in [Blk -> Buffer], disk' \in [Blk -> Bytes],
         serial' \in 0..Rounds-1, broken' \in BOOLEAN
  PROVE  IInv'
<1> DEFINE done == [i EXCEPT !.fwptr = o, !.fir = FALSE]
           readers == IF i.fir THEN {"frcnt"} ELSE {}
<1>1. done \in Inode
  BY DEF Inode
<1>2. /\ done.size = i.size /\ done.lock = i.lock /\ done.want = i.want /\ done.fiw = i.fiw
      /\ done.frcnt = i.frcnt /\ done.fwcnt = i.fwcnt
  BY DEF Inode
<1>3. i.size \in Int /\ ip.size \in Int /\ ip.lock
  BY Sizes DEF IInv, TypeOK, Inode, Locked, Hold
<1>4. CASE ~err /\ u[p].usave > 0
  <2> DEFINE c == [u[p] EXCEPT !.count = u[p].usave, !.usave = 0, !.moved = 0, !.offset = 0]
  <2>1. /\ ip' = done /\ pc' = [pc EXCEPT ![p] = "wagain"] /\ asleep' = Woken(readers)
        /\ u' = [u EXCEPT ![p] = c]
    BY <1>4 DEF WriteDone, Goto, Wakeup, IInv, TypeOK, Call
  <2>2. u[p] \in Call
    BY DEF IInv, TypeOK
  <2>3. c \in Call
    <3>1. 0 \in 0..PIPSIZ /\ 0 \in 0..PIPSIZ-1 /\ 0 \in Nat
      BY Sizes
    <3> QED BY <2>2, <3>1 DEF Call
  <2>4. c.mode = u[p].mode
    BY <2>2 DEF Call
  <2> HIDE DEF c, done
  <2>5. u' \in [Proc -> Call] /\ u'[p].mode = u[p].mode /\ \A q \in Proc : q # p => u'[q] = u[q]
    BY <2>1, <2>3, <2>4 DEF IInv, TypeOK
  <2>6. TypeOK'
    BY <1>1, <2>1, <2>5, WokenType DEF IInv, TypeOK, PC
  <2>7. readers \subseteq {"frcnt"} /\ ("frcnt" \in readers \/ ~ip.fir)
    OBVIOUS
  <2> HIDE DEF readers
  <2>8. /\ ip'.lock /\ ip'.want = ip.want /\ ip'.frcnt = ip.frcnt /\ ip'.fwcnt = ip.fwcnt /\ ip'.fiw = ip.fiw
        /\ ip'.size >= ip.size /\ pc' = [pc EXCEPT ![p] = "wagain"] /\ asleep' = Woken(readers)
    BY <1>2, <1>3, <2>1
  <2>9. pc[p] \in Hold /\ pc[p] # "idle" /\ pc[p] # "read" /\ "wagain" \in Hold
    BY DEF Hold
  <2> QED BY <2>5, <2>6, <2>7, <2>8, <2>9, InsideInv
<1>5. CASE ~(~err /\ u[p].usave > 0)
  <2>1. ip' = Released(done) /\ Return(p) /\ asleep' = Woken(readers \cup Wanters(i))
    BY <1>5 DEF WriteDone, Wakeup
  <2> HIDE DEF done
  <2>2. /\ ip' \in Inode /\ ~ip'.lock /\ ~ip'.want /\ ip'.size = i.size /\ ip'.frcnt = ip.frcnt
        /\ ip'.fwcnt = ip.fwcnt /\ ip'.fiw = ip.fiw
    BY <1>1, <1>2, <2>1, ReleasedType
  <2>3. TypeOK'
    BY <2>1, <2>2, ReturnType, WokenType DEF IInv, TypeOK
  <2>4. /\ ip.want => "lock" \in readers \cup Wanters(i)
        /\ "no" \notin readers \cup Wanters(i)
        /\ "frcnt" \in readers \cup Wanters(i) \/ ~ip.fir
    BY DEF Wanters
  <2> HIDE DEF readers
  <2>5. ip'.size >= ip.size /\ pc[p] \in Hold /\ pc[p] # "idle" /\ pc[p] # "read"
    BY <2>2 DEF Hold
  <2> QED BY <2>1, <2>2, <2>3, <2>4, <2>5, LeaveInv
<1> QED BY <1>4, <1>5

LEMMA WriteNoSpaceInv ==
  ASSUME IInv, NEW p \in Proc, WriteNoSpace(p)
  PROVE  IInv'
<1>1. /\ pc[p] = "write" /\ asleep[p] = "no" /\ UNCHANGED <<blocks, broken>>
      /\ WriteDone(p, ip, u[p].offset, TRUE)
  BY DEF WriteNoSpace, At
<1>2. ip \in Inode /\ u[p].offset \in 0..PIPSIZ-1 /\ ip.size >= ip.size
  BY Sizes DEF IInv, TypeOK, Call, Inode
<1>3. /\ faddr' \subseteq Blk /\ cache' \in [Blk -> Buffer] /\ disk' \in [Blk -> Bytes]
      /\ serial' \in 0..Rounds-1 /\ broken' \in BOOLEAN
  BY <1>1 DEF IInv, TypeOK, blocks
<1> QED BY <1>1, <1>2, <1>3, WriteDoneInv

LEMMA WriteFailsInv ==
  ASSUME IInv, NEW p \in Proc, WriteFails(p)
  PROVE  IInv'
<1> DEFINE on == u[p].offset % BSIZE
           n == Min({BSIZE - on, u[p].count})
<1>1. pc[p] = "write" /\ asleep[p] = "no" /\ UNCHANGED blocks /\ broken' = TRUE
  BY DEF WriteFails, At
<1>2. /\ ip \in Inode /\ u[p].offset \in 0..PIPSIZ-1 /\ u[p].count \in Nat /\ ip.size \in 0..PIPSIZ
      /\ ip.size + u[p].count <= PIPSIZ
  BY <1>1, Sizes DEF IInv, TypeOK, Call, Inode, Fits
<1>3. n \in Nat /\ n <= u[p].count
  <2>1. BSIZE - on \in Nat
    BY <1>2, Place, Sizes
  <2> QED BY <1>2, <2>1, MinTwo
<1>4. PICK copied \in BOOLEAN :
        WriteDone(p, [ip EXCEPT !.size = @ + n], IF copied THEN Wrap(u[p].offset + n) ELSE u[p].offset, TRUE)
  BY DEF WriteFails
<1> HIDE DEF n
<1> DEFINE size == ip.size + n
           i == [ip EXCEPT !.size = size]
           o == IF copied THEN Wrap(u[p].offset + n) ELSE u[p].offset
<1>5. size \in 0..PIPSIZ /\ size >= ip.size /\ o \in 0..PIPSIZ-1
  BY <1>2, <1>3, Sizes DEF Wrap
<1>6. WriteDone(p, i, o, TRUE)
  BY <1>4
<1> HIDE DEF size, o
<1>7. i \in Inode
  BY <1>2, <1>5 DEF Inode
<1>8. /\ i.size = size /\ i.lock = ip.lock /\ i.want = ip.want /\ i.frcnt = ip.frcnt /\ i.fwcnt = ip.fwcnt
      /\ i.fir = ip.fir /\ i.fiw = ip.fiw
  BY <1>2 DEF Inode
<1> HIDE DEF i
<1>9. /\ faddr' \subseteq Blk /\ cache' \in [Blk -> Buffer] /\ disk' \in [Blk -> Bytes]
      /\ serial' \in 0..Rounds-1 /\ broken' \in BOOLEAN
  BY <1>1 DEF IInv, TypeOK, blocks
<1> QED BY <1>1, <1>5, <1>6, <1>7, <1>8, <1>9, WriteDoneInv

LEMMA WriteBlockInv ==
  ASSUME IInv, NEW p \in Proc, NEW fails \in BOOLEAN, WriteBlock(p, fails)
  PROVE  IInv'
<1> DEFINE on == u[p].offset % BSIZE
           b == u[p].offset \div BSIZE
           n == Min({BSIZE - on, u[p].count})
           fresh == b \notin faddr
           old == IF fresh \/ (NoRead(on, n) /\ ~cache[b].in) THEN Blank ELSE Contents(b)
           bytes == [k \in 1..n |-> (serial + k - 1) % Rounds]
           new == Overwritten(old, on, n, bytes)
           i == [ip EXCEPT !.size = @ + n]
           offset == Wrap(u[p].offset + n)
<1>1. pc[p] = "write" /\ asleep[p] = "no"
  BY DEF WriteBlock, At
<1>2. /\ faddr' = faddr \cup {b}
      /\ disk' = [disk EXCEPT ![b] = IF fails THEN @ ELSE Blank]
      /\ serial' = IF fails THEN serial ELSE (serial + n) % Rounds
  BY DEF WriteBlock
<1>3. /\ ip \in Inode /\ u[p] \in Call /\ u[p].offset \in 0..PIPSIZ-1 /\ u[p].count \in Nat
      /\ ip.size \in 0..PIPSIZ /\ u[p].moved \in Nat /\ serial \in Nat
      /\ ip.size + u[p].count <= PIPSIZ /\ u[p].moved + u[p].count <= PIPSIZ
  BY <1>1, Sizes DEF IInv, TypeOK, Call, Inode, Fits, Rounds
<1>4. on \in 0..BSIZE-1 /\ b \in Blk
  BY <1>3, Place
<1>5. n \in Nat /\ n <= u[p].count
  <2>1. BSIZE - on \in Nat
    BY <1>4, Sizes
  <2> QED BY <1>3, <2>1, MinTwo
<1> HIDE DEF on, b, n
<1>6. offset \in 0..PIPSIZ-1 /\ ip.size + n \in 0..PIPSIZ
  BY <1>3, <1>5, Sizes DEF Wrap
<1>7. Blank \in Bytes /\ Contents(b) \in Bytes /\ cache[b] \in Buffer
  BY <1>4, BlankType, ContentsType DEF IInv, TypeOK
<1>8. new \in Bytes
  <2>1. old \in Bytes
    BY <1>7
  <2>2. Rounds \in Nat /\ Rounds > 0
    BY Sizes DEF Rounds
  <2>3. \A k \in 1..n : (serial + k - 1) % Rounds \in 0..Rounds-1
    BY <1>3, <1>5, <2>2
  <2>4. bytes \in [1..n -> Byte] /\ on \in Nat
    BY <1>4, <2>3, Sizes DEF Byte
  <2> HIDE DEF old, bytes
  <2> QED BY <1>5, <2>1, <2>4, OverwrittenType
<1>9. faddr' \subseteq Blk /\ disk' \in [Blk -> Bytes] /\ serial' \in 0..Rounds-1
  <2>1. Rounds \in Nat /\ Rounds > 0
    BY Sizes DEF Rounds
  <2>2. (serial + n) % Rounds \in 0..Rounds-1
    BY <1>3, <1>5, <2>1
  <2> QED BY <1>2, <1>4, <1>7, <2>2 DEF IInv, TypeOK
<1> HIDE DEF new, offset
<1>10. i \in Inode
  <2> DEFINE s == ip.size + n
  <2> HIDE DEF s
  <2>1. [ip EXCEPT !.size = s] \in Inode
    BY <1>3, <1>6 DEF Inode, s
  <2> QED BY <2>1 DEF s
<1>11. /\ i.size = ip.size + n /\ i.lock = ip.lock /\ i.want = ip.want /\ i.frcnt = ip.frcnt /\ i.fwcnt = ip.fwcnt
       /\ i.fir = ip.fir /\ i.fiw = ip.fiw
  BY <1>3 DEF Inode
<1>12. i.size >= ip.size
  BY <1>3, <1>5, <1>11, Sizes
<1>13. CASE fails
  <2>1. /\ cache' = [cache EXCEPT ![b] =
             IF fresh THEN [in |-> TRUE, dirty |-> TRUE, bytes |-> Blank]
             ELSE IF NoRead(on, n) THEN cache[b]
             ELSE [in |-> TRUE, dirty |-> cache[b].dirty, bytes |-> Contents(b)]]
        /\ WriteDone(p, i, u[p].offset, TRUE) /\ broken' = TRUE
    BY <1>13 DEF WriteBlock, on, b, n
  <2>2. cache' \in [Blk -> Buffer]
    BY <1>4, <1>7, <2>1 DEF IInv, TypeOK, Buffer
  <2> HIDE DEF i
  <2> QED BY <1>1, <1>3, <1>9, <1>10, <1>11, <1>12, <2>1, <2>2, WriteDoneInv
<1>14. CASE ~fails
  <2>1. /\ cache' = [cache EXCEPT ![b] = [in |-> TRUE, dirty |-> TRUE, bytes |-> new]]
        /\ broken' = broken
    BY <1>14 DEF WriteBlock, on, b, n, new
  <2>2. cache' \in [Blk -> Buffer] /\ broken' \in BOOLEAN
    BY <1>4, <1>8, <2>1 DEF IInv, TypeOK, Buffer
  <2>3. CASE u[p].count = n
    <3>1. WriteDone(p, i, offset, FALSE)
      BY <1>14, <2>3 DEF WriteBlock, on, b, n, offset
    <3> HIDE DEF i
    <3> QED BY <1>1, <1>6, <1>9, <1>10, <1>11, <1>12, <2>2, <3>1, WriteDoneInv
  <2>4. CASE u[p].count # n
    <3> DEFINE c == [u[p] EXCEPT !.offset = offset, !.count = @ - n, !.moved = @ + n]
    <3>1. /\ ip' = i /\ u' = [u EXCEPT ![p] = c] /\ UNCHANGED <<pc, asleep>>
      BY <1>3, <1>14, <2>4 DEF WriteBlock, on, b, n, offset, IInv, TypeOK, Call
    <3>2. u[p].count - n \in Nat /\ u[p].moved + n \in 0..PIPSIZ
      BY <1>3, <1>5, Sizes
    <3>3. c \in Call
      <4> DEFINE x == u[p].count - n
                 y == u[p].moved + n
      <4> HIDE DEF x, y
      <4>1. [u[p] EXCEPT !.offset = offset, !.count = x, !.moved = y] \in Call
        BY <1>3, <1>6, <3>2 DEF Call, x, y
      <4> QED BY <4>1 DEF x, y
    <3>4. c.mode = u[p].mode /\ c.count = u[p].count - n /\ c.moved = u[p].moved + n
      BY <1>3 DEF Call
    <3> HIDE DEF c, i
    <3>5. u' \in [Proc -> Call] /\ u'[p] = c /\ \A q \in Proc : q # p => u'[q] = u[q]
      BY <3>1, <3>3 DEF IInv, TypeOK
    <3>6. TypeOK'
      BY <1>9, <1>10, <2>2, <3>1, <3>5 DEF IInv, TypeOK
    <3>7. pc' = [pc EXCEPT ![p] = "write"] /\ asleep' = Woken({})
      BY <1>1, <3>1 DEF IInv, TypeOK, Woken
    <3>8. ip.lock
      BY <1>1 DEF IInv, Locked, Hold
    <3>9. ip'.size + u'[p].count <= PIPSIZ /\ u'[p].moved + u'[p].count <= PIPSIZ /\ u'[p].mode = u[p].mode
      BY <1>3, <1>5, <1>11, <3>1, <3>4, <3>5, Sizes
    <3>10. /\ ip'.lock /\ ip'.want = ip.want /\ ip'.frcnt = ip.frcnt /\ ip'.fwcnt = ip.fwcnt
           /\ ip'.fiw = ip.fiw /\ ip'.fir = ip.fir /\ ip'.size >= ip.size
      BY <1>11, <1>12, <3>1, <3>8
    <3>11. pc[p] \in Hold /\ "write" \in Hold /\ pc[p] # "idle" /\ pc[p] # "read"
      BY <1>1 DEF Hold
    <3> QED BY <1>1, <3>5, <3>6, <3>7, <3>9, <3>10, <3>11, InsideInv
  <2> QED BY <2>3, <2>4
<1> QED BY <1>13, <1>14

-----------------------------------------------------------------------------
(* Closing.                                                                *)
LEMMA CloseInv ==
  ASSUME IInv, NEW p \in Proc, Close(p)
  PROVE  IInv'
<1> DEFINE m == u[p].mode
           i == Leaving(ip, m)
           wakew == m.rd /\ i.frcnt = 0 /\ ip.fiw
           waker == m.wr /\ i.fwcnt = 0 /\ ip.fir
           last == i.frcnt = 0 /\ i.fwcnt = 0
           chans == (IF wakew THEN {"fwcnt"} ELSE {}) \cup (IF waker THEN {"frcnt"} ELSE {})
<1>1. /\ pc[p] = "clock" /\ asleep[p] = "no" /\ ~ip.lock
      /\ asleep' = Woken(chans) /\ u' = [u EXCEPT ![p] = NoCall] /\ pc' = [pc EXCEPT ![p] = "idle"]
  BY DEF Close, At, Wakeup, Goto
<1>2. ip \in Inode /\ m \in Mode /\ ip.frcnt \in Int /\ ip.fwcnt \in Int /\ ip.size \in 0..PIPSIZ
  BY DEF IInv, TypeOK, Inode, Call
<1>3. /\ i.frcnt = ip.frcnt - (IF m.rd THEN 1 ELSE 0) /\ i.fwcnt = ip.fwcnt - (IF m.wr THEN 1 ELSE 0)
      /\ i.frcnt \in Int /\ i.fwcnt \in Int
      /\ i \in Inode /\ i.size = ip.size /\ i.lock = ip.lock /\ i.want = ip.want /\ i.fir = ip.fir /\ i.fiw = ip.fiw
      /\ i.frptr = ip.frptr /\ i.fwptr = ip.fwptr
  <2> DEFINE x == ip.frcnt - (IF m.rd THEN 1 ELSE 0)
             y == ip.fwcnt - (IF m.wr THEN 1 ELSE 0)
  <2>1. x \in Int /\ y \in Int
    BY <1>2
  <2>2. i = [ip EXCEPT !.frcnt = x, !.fwcnt = y]
    BY <1>2 DEF Leaving, Inode
  <2> HIDE DEF x, y, i
  <2>3. i \in Inode
    BY <1>2, <2>1, <2>2 DEF Inode
  <2>4. /\ i.frcnt = x /\ i.fwcnt = y
        /\ i.size = ip.size /\ i.lock = ip.lock /\ i.want = ip.want /\ i.fir = ip.fir /\ i.fiw = ip.fiw
        /\ i.frptr = ip.frptr /\ i.fwptr = ip.fwptr
    BY <1>2, <2>2 DEF Inode
  <2> QED BY <2>1, <2>3, <2>4 DEF x, y
<1> DEFINE a == i.fiw /\ ~wakew
           c == i.fir /\ ~waker
           s == IF last THEN 0 ELSE i.size
           r == IF last THEN 0 ELSE i.frptr
           w == IF last THEN 0 ELSE i.fwptr
<1>4. ip' = [i EXCEPT !.fiw = a, !.fir = c, !.size = s, !.frptr = r, !.fwptr = w]
  BY DEF Close
<1>5. a \in BOOLEAN /\ c \in BOOLEAN /\ s \in 0..PIPSIZ /\ r \in 0..PIPSIZ-1 /\ w \in 0..PIPSIZ-1
  <2>1. i.size \in 0..PIPSIZ /\ i.frptr \in 0..PIPSIZ-1 /\ i.fwptr \in 0..PIPSIZ-1
    BY <1>3 DEF Inode
  <2> QED BY <2>1, Sizes
<1> HIDE DEF i, a, c, s, r, w
<1>6. ip' \in Inode
  BY <1>3, <1>4, <1>5 DEF Inode
<1>7. /\ ip'.frcnt = i.frcnt /\ ip'.fwcnt = i.fwcnt /\ ip'.lock = ip.lock /\ ip'.want = ip.want
      /\ ip'.size = s /\ ip'.fiw = a /\ ip'.fir = c
  BY <1>3, <1>4 DEF Inode
<1>8. faddr' \subseteq Blk /\ cache' \in [Blk -> Buffer] /\ disk' \in [Blk -> Bytes] /\ serial' \in 0..Rounds-1 /\ broken' \in BOOLEAN
  <2>1. 0 \in 0..Rounds-1 /\ NoBuffer \in Buffer /\ Blank \in Bytes
    BY Sizes, BlankType DEF Rounds
  <2>2. CASE last
    BY <2>1, <2>2 DEF Close, i
  <2>3. CASE ~last
    BY <2>3 DEF Close, i, blocks, IInv, TypeOK
  <2> QED BY <2>2, <2>3
<1>9. u' \in [Proc -> Call] /\ \A q \in Proc : q # p => u'[q] = u[q]
  BY <1>1, FreshType DEF IInv, TypeOK
<1>10. pc' \in [Proc -> PC] /\ pc'[p] = "idle" /\ \A q \in Proc : q # p => pc'[q] = pc[q]
  BY <1>1 DEF IInv, TypeOK, PC
<1>11. TypeOK'
  BY <1>1, <1>6, <1>8, <1>9, <1>10, WokenType DEF IInv, TypeOK
<1>12. \A q \in Proc : pc'[q] \notin Hold
  BY <1>1, <1>10, Alone DEF Hold
<1>13. Fits' /\ Locked'
  BY <1>1, <1>7, <1>12 DEF Fits, Locked, Hold
<1>14. /\ \A q \in Proc : asleep'[q] # "no" => asleep'[q] = asleep[q] /\ asleep[q] \notin chans
       /\ asleep'[p] = "no"
  BY <1>1, WokenType DEF IInv, TypeOK
<1>15. ~ip.want
  BY <1>1 DEF IInv, Wanted
<1>16. Places' /\ Wanted'
  BY <1>7, <1>10, <1>14, <1>15 DEF IInv, Places, Wanted
<1>17. EndsCounted'
  <2> DEFINE R == {q \in UsesIt : u[q].mode.rd}
             W == {q \in UsesIt : u[q].mode.wr}
  <2>1. IsFiniteSet(R) /\ IsFiniteSet(W)
    BY ProcAssumption, FS_Subset DEF UsesIt
  <2>2. R' = R \ {p} /\ W' = W \ {p} /\ (p \in R <=> m.rd) /\ (p \in W <=> m.wr)
    BY <1>1, <1>9, <1>10 DEF UsesIt
  <2>3. ip.frcnt = Cardinality(R) /\ ip.fwcnt = Cardinality(W)
    BY DEF IInv, EndsCounted
  <2>4. /\ Cardinality(R \ {p}) = IF p \in R THEN Cardinality(R) - 1 ELSE Cardinality(R)
        /\ Cardinality(W \ {p}) = IF p \in W THEN Cardinality(W) - 1 ELSE Cardinality(W)
    BY <2>1, FS_RemoveElement
  <2> HIDE DEF R, W
  <2>5. i.frcnt = IF m.rd THEN ip.frcnt - 1 ELSE ip.frcnt
    BY <1>2, <1>3
  <2>6. i.fwcnt = IF m.wr THEN ip.fwcnt - 1 ELSE ip.fwcnt
    BY <1>2, <1>3
  <2>7. ip'.frcnt = Cardinality(R') /\ ip'.fwcnt = Cardinality(W')
    BY <1>7, <2>2, <2>3, <2>4, <2>5, <2>6
  <2> QED BY <2>7 DEF EndsCounted, R, W
<1>18. Waiting'
  <2> SUFFICES ASSUME NEW q \in Proc, asleep'[q] # "no" PROVE Awaits(q)'
    BY DEF Waiting, Awaits
  <2>1. q # p /\ asleep'[q] = asleep[q] /\ pc'[q] = pc[q] /\ u'[q] = u[q] /\ asleep[q] \notin chans /\ Awaits(q)
    BY <1>9, <1>10, <1>14 DEF IInv, Waiting
  <2>2. \A x \in Proc : pc[x] \notin {"read", "write"}
    BY <1>1, Alone DEF Hold
  <2>3. (m.rd => ip.frcnt > 0) /\ (m.wr => ip.fwcnt > 0)
    BY <1>1, EndOpen
  <2>4. CASE asleep[q] = "frcnt" /\ pc[q] = "rlock"
    <3>1. ip.fir /\ ip.fwcnt > 0 /\ ip.size = 0
      BY <2>1, <2>2, <2>4 DEF Awaits
    <3>2. ~waker
      BY <2>1, <2>4
    <3>3. i.fwcnt > 0
      <4>1. CASE m.wr  BY <1>2, <1>3, <3>1, <3>2, <4>1
      <4>2. CASE ~m.wr  BY <1>2, <1>3, <3>1, <4>2
      <4> QED BY <4>1, <4>2
    <3>4. c /\ s = 0
      BY <1>3, <3>1, <3>2 DEF c, s
    <3> QED BY <1>7, <2>1, <2>4, <3>3, <3>4 DEF Awaits
  <2>5. CASE asleep[q] = "fwcnt" /\ pc[q] = "wlock"
    <3>1. ip.fiw /\ ip.frcnt > 0 /\ NoRoom(q)
      BY <2>1, <2>2, <2>5 DEF Awaits
    <3>2. ~wakew
      BY <2>1, <2>5
    <3>3. i.frcnt > 0
      <4>1. CASE m.rd  BY <1>2, <1>3, <3>1, <3>2, <4>1
      <4>2. CASE ~m.rd  BY <1>2, <1>3, <3>1, <4>2
      <4> QED BY <4>1, <4>2
    <3>4. a /\ s = ip.size
      BY <1>3, <3>1, <3>2, <3>3 DEF a, s
    <3>5. NoRoom(q)'
      BY <1>7, <2>1, <3>1, <3>4 DEF NoRoom, TooMuch, InParts
    <3> QED BY <1>7, <2>1, <2>5, <3>3, <3>4, <3>5 DEF Awaits
  <2>6. CASE asleep[q] = "frcnt" /\ pc[q] = "openw"
    <3>1. ip.frcnt = 0 /\ ~m.rd
      BY <2>1, <2>3, <2>6 DEF Awaits
    <3>2. i.frcnt = IF m.rd THEN ip.frcnt - 1 ELSE ip.frcnt
      BY <1>2, <1>3
    <3>3. i.frcnt = 0
      BY <3>1, <3>2
    <3> QED BY <1>7, <2>1, <2>6, <3>3 DEF Awaits
  <2>7. CASE asleep[q] = "fwcnt" /\ pc[q] = "openr"
    <3>1. ip.fwcnt = 0 /\ ~m.wr
      BY <2>1, <2>3, <2>7 DEF Awaits
    <3>2. i.fwcnt = IF m.wr THEN ip.fwcnt - 1 ELSE ip.fwcnt
      BY <1>2, <1>3
    <3>3. i.fwcnt = 0
      BY <3>1, <3>2
    <3> QED BY <1>7, <2>1, <2>7, <3>3 DEF Awaits
  <2> QED BY <2>1, <2>4, <2>5, <2>6, <2>7 DEF Awaits
<1> QED BY <1>11, <1>13, <1>16, <1>17, <1>18 DEF IInv

-----------------------------------------------------------------------------
(* The invariant.                                                          *)
LEMMA NextInv == ASSUME IInv, [Next]_vars PROVE IInv'
<1>1. ASSUME NEW p \in Proc, Kernel(p) PROVE IInv'
  BY <1>1, AwaitLockInv, OpenWokenInv, ReadTestInv, ReadHoleInv, WriteTestInv, WriteNoSpaceInv,
     CloseInv, ReadBlockInv, WriteBlockInv, ReadFailsInv, WriteFailsInv DEF Kernel
<1>2. ASSUME NEW p \in Proc, CallClose(p) \/ Interrupt(p) PROVE IInv'
  BY <1>2, CallCloseInv, InterruptInv
<1>3. ASSUME NEW p \in Proc, NEW m \in Modes[p], Open(p, m) PROVE IInv'
  BY <1>3, OpenInv
<1>4. ASSUME NEW p \in Proc, NEW n \in Counts, CallRead(p, n) \/ CallWrite(p, n) PROVE IInv'
  BY <1>4, CallReadInv, CallWriteInv
<1>5. ASSUME NEW b \in Blk, Evict(b) \/ EvictFails(b) PROVE IInv'
  BY <1>5, EvictInv, EvictFailsInv
<1> QED BY <1>1, <1>2, <1>3, <1>4, <1>5, StutterInv DEF Next

LEMMA SpecInv == Spec => []IInv
<1>1. Init => IInv
  BY InitInv
<1>2. IInv /\ [Next]_vars => IInv'
  BY NextInv
<1> QED BY <1>1, <1>2, PTL DEF Spec

(* The size, the pointers and what is in the blocks keep their types for   *)
(* any number of blocks of any size: readi never takes more than i_size,   *)
(* and writei never adds more than PIPSIZ less i_size.                     *)
THEOREM TypeCorrect == Spec => []TypeOK
<1>1. IInv => TypeOK
  BY DEF IInv
<1> QED BY <1>1, SpecInv, PTL

(* i_frcnt and i_fwcnt count those who have an end open.                   *)
THEOREM CountsCorrect == Spec => []EndsCounted
<1>1. IInv => EndsCounted
  BY DEF IInv
<1> QED BY <1>1, SpecInv, PTL

(* One process at a time is inside, and IWANT is set while one waits.      *)
THEOREM LockCorrect == Spec => []LockHeld
<1>1. ASSUME IInv PROVE LockHeld
  <2>1. ip.want <=> \E p \in Proc : asleep[p] = "lock"
    BY <1>1 DEF IInv, Wanted
  <2>2. CASE ip.lock
    <3>1. PICK p \in Proc : pc[p] \in Hold
      BY <1>1, <2>2 DEF IInv, Locked
    <3>2. Holder = {p}
      BY <1>1, <3>1 DEF IInv, Locked, Holder, Hold
    <3> QED BY <2>1, <2>2, <3>2, FS_Singleton DEF LockHeld
  <2>3. CASE ~ip.lock
    <3>1. Holder = {}
      BY <1>1, <2>3 DEF IInv, Locked, Holder, Hold
    <3> QED BY <2>1, <2>3, <3>1, FS_EmptySet DEF LockHeld
  <2> QED BY <2>2, <2>3
<1> QED BY <1>1, SpecInv, PTL

(* Nobody sleeps for what is there.                                        *)
THEOREM WakeupsCorrect == Spec => []NoLostWakeup
<1>1. ASSUME IInv, NEW p \in Proc PROVE Awaits(p) /\ (asleep[p] = "lock" => ip.lock)
  BY <1>1 DEF IInv, Waiting, Wanted
<1>2. ASSUME IInv, NEW p \in Proc, pc[p] \in Hold PROVE ip.lock
  BY <1>2 DEF IInv, Locked
<1>3. IInv => NoLostWakeup
  BY <1>1, <1>2 DEF NoLostWakeup, Awaits, Hold
<1> QED BY <1>3, SpecInv, PTL

-----------------------------------------------------------------------------
(* The contents. Offsets below PIPSIZ are those of the FIFO, once round;   *)
(* o is Rel(f, o) bytes after f, and After(f, n) is n bytes after f.       *)
Offset == 0..PIPSIZ-1
Rel(f, o) == IF o >= f THEN o - f ELSE o - f + PIPSIZ
After(f, n) == IF f + n < PIPSIZ THEN f + n ELSE f + n - PIPSIZ

(* The number of the byte that was written d bytes before the one with     *)
(* number s, and v bytes of z when s is the number of the next byte.       *)
Number(s, d) == IF s >= d THEN s - d ELSE s - d + Rounds
Line(v, z, s) == [k \in 1..v |-> Number(s, z - k + 1)]

(* The byte at o is x, and losing its buffer does not change it.           *)
Held(o, x) ==
  LET b == o \div BSIZE
      k == o % BSIZE
  IN /\ b \in faddr /\ Contents(b)[k] = x
     /\ cache[b].in /\ ~cache[b].dirty => disk[b][k] = x

(* The bytes of the FIFO, those of a write under way included.             *)
Laid(f) == \A o \in Offset : Rel(f, o) < ip.size => Held(o, Number(serial, ip.size - Rel(f, o)))

(* Where they begin and end, for who reads or writes and at rest.          *)
Begins(f) ==
  /\ \A p \in Proc : pc[p] = "read" => u[p].offset = f /\ ip.size > 0
  /\ (\A p \in Proc : pc[p] # "read") => ip.frptr = f
Ends(f) ==
  /\ \A p \in Proc : pc[p] = "write" =>
       /\ u[p].offset = After(f, ip.size)
       /\ u[p].moved <= ip.size /\ (u[p].moved = ip.size => serial = ip.size)
  /\ (\A p \in Proc : pc[p] # "write") => ip.fwptr = After(f, ip.size) /\ (ip.size = 0 => serial = 0)
Filled == ~broken => \E f \in Offset : Begins(f) /\ Ends(f) /\ Laid(f)

(* What is left of a write that fits in the FIFO.                          *)
Asked(p) ==
  /\ pc[p] = "wlock" /\ u[p].asked <= PIPSIZ => u[p].count = u[p].asked
  /\ pc[p] = "write" /\ u[p].asked <= PIPSIZ => u[p].moved + u[p].count = u[p].asked /\ u[p].usave = 0
  /\ pc[p] = "wagain" => u[p].asked > PIPSIZ
  /\ pc[p] # "idle" => u[p].mode.rd \/ u[p].mode.wr
Asks == \A p \in Proc : Asked(p)

QInv == Filled /\ Asks /\ faults \in [copy : Nat, space : Nat, disk : Nat]

-----------------------------------------------------------------------------
(* Offsets, blocks and the way round.                                      *)
LEMMA Blocks ==
  ASSUME NEW o \in Offset
  PROVE  /\ o = BSIZE * (o \div BSIZE) + (o % BSIZE)
         /\ o % BSIZE \in 0..BSIZE-1 /\ o \div BSIZE \in Blk
         /\ o - (o % BSIZE) + BSIZE <= PIPSIZ /\ o \in Nat
<1> DEFINE q == o \div BSIZE
           r == o % BSIZE
<1>1. o \in Nat /\ o < PIPSIZ /\ PIPSIZ = BSIZE * NFADDR
  BY Sizes DEF PIPSIZ, Offset
<1>2. q \in Blk /\ r \in 0..BSIZE-1
  BY Place DEF Offset
<1>3. o = BSIZE * q + r
  BY <1>1, Sizes
<1> HIDE DEF q, r
<1>4. q \in Nat /\ q + 1 <= NFADDR
  BY <1>2, Sizes DEF Blk
<1>5. BSIZE * (q + 1) <= BSIZE * NFADDR /\ BSIZE * (q + 1) = BSIZE * q + BSIZE
  BY <1>4, Sizes
<1>6. BSIZE * q \in Nat
  BY <1>4, Sizes
<1>7. o - r + BSIZE <= PIPSIZ
  BY <1>1, <1>2, <1>3, <1>5, <1>6, Sizes
<1> QED BY <1>1, <1>2, <1>3, <1>7 DEF q, r

LEMMA SameBlock ==
  ASSUME NEW o \in Offset, NEW r \in Offset
  PROVE  /\ r \div BSIZE = o \div BSIZE => r - o = (r % BSIZE) - (o % BSIZE)
         /\ r >= o - (o % BSIZE) /\ r < o - (o % BSIZE) + BSIZE => r \div BSIZE = o \div BSIZE
<1> DEFINE a == o \div BSIZE
           b == r \div BSIZE
           x == o % BSIZE
           y == r % BSIZE
<1>1. /\ o = BSIZE * a + x /\ r = BSIZE * b + y /\ x \in 0..BSIZE-1 /\ y \in 0..BSIZE-1
      /\ a \in Nat /\ b \in Nat
  BY Blocks, Sizes DEF Blk
<1> HIDE DEF a, b, x, y
<1>2. BSIZE * a \in Nat /\ BSIZE * b \in Nat
  BY <1>1, Sizes
<1>3. a = b => r - o = y - x
  BY <1>1, <1>2, Sizes
<1>4. ASSUME r >= o - x, r < o - x + BSIZE PROVE a = b
  <2>1. CASE a < b
    <3>1. BSIZE * (a + 1) <= BSIZE * b /\ BSIZE * (a + 1) = BSIZE * a + BSIZE
      BY <1>1, <2>1, Sizes
    <3> QED BY <1>1, <1>2, <1>4, <3>1, Sizes
  <2>2. CASE b < a
    <3>1. BSIZE * (b + 1) <= BSIZE * a /\ BSIZE * (b + 1) = BSIZE * b + BSIZE
      BY <1>1, <2>2, Sizes
    <3> QED BY <1>1, <1>2, <1>4, <3>1, Sizes
  <2> QED BY <1>1, <2>1, <2>2
<1> QED BY <1>3, <1>4 DEF a, b, x, y

LEMMA SmallMod ==
  ASSUME NEW m \in Nat, m > 0, NEW x \in 0..m+m-1
  PROVE  x % m = IF x < m THEN x ELSE x - m
<1> DEFINE q == x \div m
           r == x % m
<1>1. x \in Nat /\ q \in Nat /\ r \in 0..m-1 /\ x = m * q + r
  OBVIOUS
<1> HIDE DEF q, r
<1>2. q < 2
  <2> SUFFICES ASSUME q >= 2 PROVE FALSE
    BY <1>1
  <2>1. m * q >= m * 2
    BY <1>1
  <2> QED BY <1>1, <2>1
<1>3. CASE q = 0  BY <1>1, <1>3 DEF r
<1>4. CASE q = 1  BY <1>1, <1>4 DEF r
<1> QED BY <1>1, <1>2, <1>3, <1>4

LEMMA AfterType ==
  ASSUME NEW f \in Offset, NEW n \in 0..PIPSIZ
  PROVE  After(f, n) \in Offset /\ (n < PIPSIZ => Rel(f, After(f, n)) = n)
BY Sizes DEF After, Offset, Rel

LEMMA RelType ==
  ASSUME NEW f \in Offset, NEW o \in Offset
  PROVE  Rel(f, o) \in Nat /\ Rel(f, o) < PIPSIZ
BY Sizes DEF Offset, Rel

(* What a reader leaves: n bytes of the block its offset is in.            *)
LEMMA Ahead ==
  ASSUME NEW f \in Offset, NEW z \in 0..PIPSIZ, NEW n \in Nat, n <= z, f + n <= PIPSIZ,
         NEW o \in Offset, Rel(Wrap(f + n), o) < z - n
  PROVE  Rel(f, o) = Rel(Wrap(f + n), o) + n /\ ~(o >= f /\ o < f + n)
BY Sizes DEF Offset, Rel, Wrap

LEMMA EndKept ==
  ASSUME NEW f \in Offset, NEW z \in 0..PIPSIZ, NEW n \in Nat, n <= z, f + n <= PIPSIZ
  PROVE  Wrap(f + n) \in Offset /\ (n < z => After(Wrap(f + n), z - n) = After(f, z))
BY Sizes DEF Offset, After, Wrap

LEMMA Dropped ==
  ASSUME NEW f \in Offset, NEW n \in Nat, n <= BSIZE, f + n >= BSIZE, f + n <= PIPSIZ, BSIZE <= PIPSIZ,
         NEW o \in Offset, o >= f + n - BSIZE, o < f + n
  PROVE  Rel(Wrap(f + n), o) >= PIPSIZ - BSIZE
BY Sizes DEF Offset, Rel, Wrap

(* What a writer adds.                                                     *)
LEMMA EndMoves ==
  ASSUME NEW f \in Offset, NEW z \in 0..PIPSIZ, NEW n \in Nat, z + n <= PIPSIZ, After(f, z) + n <= PIPSIZ
  PROVE  Wrap(After(f, z) + n) = After(f, z + n)
BY Sizes DEF Offset, After, Wrap

LEMMA Added ==
  ASSUME NEW f \in Offset, NEW z \in 0..PIPSIZ, NEW n \in Nat, z + n <= PIPSIZ, NEW o \in Offset,
         After(f, z) + n <= PIPSIZ
  PROVE  IF o >= After(f, z) /\ o < After(f, z) + n
         THEN Rel(f, o) = z + (o - After(f, z))
         ELSE Rel(f, o) < z + n => Rel(f, o) < z
BY Sizes DEF Offset, After, Rel

(* The rest of a block taken without a read has no bytes of the FIFO.      *)
LEMMA NothingThere ==
  ASSUME NEW f \in Offset, NEW z \in 0..PIPSIZ, z < PIPSIZ - BSIZE, NEW o \in Offset,
         o >= After(f, z), o < After(f, z) + BSIZE
  PROVE  Rel(f, o) >= z
BY Sizes DEF Offset, After, Rel

-----------------------------------------------------------------------------
(* The numbers of the bytes of the queue.                                  *)
LEMMA NumberMoves ==
  ASSUME NEW s \in 0..Rounds-1, NEW n \in 0..PIPSIZ
  PROVE  LET t == (s + n) % Rounds
         IN /\ t \in 0..Rounds-1
            /\ \A d \in 0..PIPSIZ : n + d <= PIPSIZ => Number(t, n + d) = Number(s, d)
            /\ \A d \in 1..n : Number(t, d) = (s + n - d) % Rounds
            /\ s + n < Rounds => t = s + n
<1> DEFINE t == (s + n) % Rounds
<1>1. Rounds \in Nat /\ Rounds > 0 /\ Rounds = PIPSIZ + PIPSIZ
  BY Sizes DEF Rounds
<1>2. t = IF s + n < Rounds THEN s + n ELSE s + n - Rounds
  BY <1>1, SmallMod, Sizes
<1>3. \A d \in 1..n : (s + n - d) % Rounds = IF s + n - d < Rounds THEN s + n - d ELSE s + n - d - Rounds
  <2> TAKE d \in 1..n
  <2>1. s + n - d \in 0..Rounds+Rounds-1
    BY <1>1, Sizes
  <2> QED BY <1>1, <2>1, SmallMod
<1>4. t \in 0..Rounds-1
  BY <1>1, <1>2, Sizes
<1> HIDE DEF t
<1>5. \A d \in 0..PIPSIZ : n + d <= PIPSIZ => Number(t, n + d) = Number(s, d)
  BY <1>1, <1>2, Sizes DEF Number
<1>6. \A d \in 1..n : Number(t, d) = (s + n - d) % Rounds
  <2> TAKE d \in 1..n
  <2>1. (s + n - d) % Rounds = IF s + n - d < Rounds THEN s + n - d ELSE s + n - d - Rounds
    BY <1>3
  <2> HIDE DEF Rounds
  <2> QED BY <1>1, <1>2, <2>1, Sizes DEF Number
<1>7. s + n < Rounds => t = s + n
  BY <1>2
<1> QED BY <1>4, <1>5, <1>6, <1>7 DEF t

(* What is written under way is not in the queue.                          *)
LEMMA LineKept ==
  ASSUME NEW z \in 0..PIPSIZ, NEW v \in 0..z, NEW s \in 0..Rounds-1, NEW n \in Nat, z + n <= PIPSIZ
  PROVE  Line(v, z + n, (s + n) % Rounds) = Line(v, z, s)
<1> SUFFICES ASSUME NEW k \in 1..v
             PROVE  Number((s + n) % Rounds, z + n - k + 1) = Number(s, z - k + 1)
  BY DEF Line
<1>1. n \in 0..PIPSIZ /\ z - k + 1 \in 0..PIPSIZ /\ n + (z - k + 1) <= PIPSIZ /\ z + n - k + 1 = n + (z - k + 1)
  BY Sizes
<1> QED BY <1>1, NumberMoves

(* The reader takes n bytes from the front.                                *)
LEMMA LineRemoved ==
  ASSUME NEW z \in 0..PIPSIZ, NEW s \in 0..Rounds-1, NEW t \in 0..Rounds-1, NEW n \in 0..z, n < z => t = s
  PROVE  Line(z - n, z - n, t) = SubSeq(Line(z, z, s), n + 1, Len(Line(z, z, s)))
<1>1. z \in Nat /\ z - n \in Nat /\ n \in Nat
  BY Sizes
<1>2. \A k \in 1..z : Number(s, z - k + 1) \in Int
  BY Sizes DEF Number, Rounds
<1>3. Line(z, z, s) \in Seq(Int) /\ Len(Line(z, z, s)) = z
  BY <1>1, <1>2 DEF Line
<1>4. SubSeq(Line(z, z, s), n + 1, z) = [k \in 1..z - n |-> Line(z, z, s)[n + k]]
  <2> DEFINE L == Line(z, z, s)
  <2>1. SubSeq(L, n + 1, z) = [k \in 1..z - (n + 1) + 1 |-> L[k + (n + 1) - 1]]
    BY <1>1, <1>3
  <2>2. z - (n + 1) + 1 = z - n /\ \A k \in 1..z - n : k + (n + 1) - 1 = n + k
    BY <1>1
  <2> HIDE DEF L
  <2> QED BY <2>1, <2>2
<1>5. \A k \in 1..z - n : Line(z, z, s)[n + k] = Number(t, z - n - k + 1)
  <2> TAKE k \in 1..z - n
  <2>1. n + k \in 1..z /\ n < z /\ z - (n + k) + 1 = z - n - k + 1
    BY <1>1
  <2> QED BY <2>1 DEF Line
<1> QED BY <1>3, <1>4, <1>5 DEF Line

(* The writer shows what it has written, m bytes of them.                  *)
LEMMA LineEntered ==
  ASSUME NEW z \in 0..PIPSIZ, NEW m \in 0..z, NEW s \in 0..Rounds-1, m = z => s = z
  PROVE  LET q == Line(z - m, z, s)
             first == IF q = <<>> THEN 0 ELSE q[Len(q)] + 1
         IN /\ Len(q) = z - m
            /\ Line(z, z, s) = q \o [i \in 1..m |-> (first + i - 1) % Rounds]
<1> DEFINE q == Line(z - m, z, s)
           first == IF q = <<>> THEN 0 ELSE q[Len(q)] + 1
           w == [i \in 1..m |-> (first + i - 1) % Rounds]
<1>1. z \in Nat /\ m \in Nat /\ z - m \in Nat /\ s \in Nat /\ Rounds \in Nat /\ Rounds > 0 /\ Rounds = PIPSIZ + PIPSIZ
  BY Sizes DEF Rounds
<1>2. \A k \in 1..z : Number(s, z - k + 1) \in 0..Rounds-1
  BY <1>1, Sizes DEF Number
<1>3. q \in Seq(Int) /\ Len(q) = z - m /\ DOMAIN q = 1..z - m
  BY <1>1, <1>2 DEF Line
<1>4. first = IF m = z THEN 0 ELSE Number(s, m + 1) + 1
  <2>1. CASE m = z
    BY <1>1, <1>3, <2>1
  <2>2. CASE m # z
    <3>1. z - m \in 1..z - m /\ z - (z - m) + 1 = m + 1
      BY <1>1, <2>2
    <3>2. q[z - m] = Number(s, m + 1)
      BY <3>1 DEF Line
    <3> QED BY <1>1, <1>3, <2>2, <3>2
  <2> QED BY <2>1, <2>2
<1> HIDE DEF first, q
<1>5. \A i \in 1..m : (first + i - 1) % Rounds = Number(s, m - i + 1)
  <2> TAKE i \in 1..m
  <2>1. first + i - 1 \in 0..Rounds+Rounds-1
    BY <1>1, <1>4, Sizes DEF Number
  <2>2. (first + i - 1) % Rounds = IF first + i - 1 < Rounds THEN first + i - 1 ELSE (first + i - 1) - Rounds
    <3> DEFINE x == first + i - 1
    <3>1. x \in 0..Rounds+Rounds-1
      BY <2>1
    <3> HIDE DEF x
    <3>2. x % Rounds = IF x < Rounds THEN x ELSE x - Rounds
      BY <1>1, <3>1, SmallMod
    <3> QED BY <3>2 DEF x
  <2>3. CASE m = z
    BY <1>1, <1>4, <2>2, <2>3, Sizes DEF Number
  <2>4. CASE m # z
    BY <1>1, <1>4, <2>2, <2>4, Sizes DEF Number
  <2> QED BY <2>3, <2>4
<1>6. w \in Seq(Int) /\ Len(w) = m
  BY <1>1, <1>5, <1>2
<1>7. q \o w = [k \in 1..z |-> IF k <= z - m THEN q[k] ELSE w[k - (z - m)]]
  <2> HIDE DEF w
  <2>1. q \in Seq(Int) /\ w \in Seq(Int)
    BY <1>3, <1>6
  <2>2. /\ q \o w \in Seq(Int) /\ Len(q \o w) = Len(q) + Len(w)
        /\ \A k \in 1..Len(q) + Len(w) : (q \o w)[k] = IF k <= Len(q) THEN q[k] ELSE w[k - Len(q)]
    BY <2>1
  <2>3. Len(q) + Len(w) = z
    BY <1>1, <1>3, <1>6
  <2> DEFINE r == q \o w
  <2>4. r \in Seq(Int) /\ Len(r) = z
    BY <2>2, <2>3
  <2>5. \A k \in 1..z : r[k] = IF k <= z - m THEN q[k] ELSE w[k - (z - m)]
    BY <1>3, <2>2, <2>3
  <2> HIDE DEF r
  <2>6. r = [k \in 1..z |-> r[k]]
    BY <2>4
  <2> QED BY <2>5, <2>6 DEF r
<1>8. \A k \in 1..z : Number(s, z - k + 1) = IF k <= z - m THEN q[k] ELSE w[k - (z - m)]
  <2> TAKE k \in 1..z
  <2>1. CASE k <= z - m
    BY <1>1, <2>1 DEF q, Line
  <2>2. CASE ~(k <= z - m)
    <3>1. k - (z - m) \in 1..m /\ m - (k - (z - m)) + 1 = z - k + 1
      BY <1>1, <2>2
    <3> QED BY <1>5, <2>2, <3>1
  <2> QED BY <2>1, <2>2
<1> QED BY <1>3, <1>7, <1>8 DEF Line, q, first

-----------------------------------------------------------------------------
(* The queue is what the blocks hold.                                      *)
LEMMA VisibleIs ==
  IInv => /\ \A p \in Proc : pc[p] = "write" => Visible = ip.size - u[p].moved
          /\ (\A p \in Proc : pc[p] # "write") => Visible = ip.size
<1> SUFFICES ASSUME IInv
             PROVE  /\ \A p \in Proc : pc[p] = "write" => Visible = ip.size - u[p].moved
                    /\ (\A p \in Proc : pc[p] # "write") => Visible = ip.size
  OBVIOUS
<1>1. ASSUME NEW p \in Proc, pc[p] = "write" PROVE Visible = ip.size - u[p].moved
  <2> DEFINE q == CHOOSE q \in Proc : pc[q] = "write"
  <2>1. q \in Proc /\ pc[q] = "write"
    BY <1>1
  <2>2. q = p
    BY <1>1, <2>1 DEF IInv, Locked, Hold
  <2> QED BY <1>1, <2>2 DEF Visible
<1>2. ASSUME \A p \in Proc : pc[p] # "write" PROVE Visible = ip.size
  <2>1. ip.size \in Int
    BY Sizes DEF IInv, TypeOK, Inode
  <2> QED BY <1>2, <2>1 DEF Visible
<1> QED BY <1>1, <1>2

LEMMA VisibleNext ==
  IInv' => /\ \A p \in Proc : pc'[p] = "write" => Visible' = ip'.size - u'[p].moved
           /\ (\A p \in Proc : pc'[p] # "write") => Visible' = ip'.size
<1>1. (IInv => /\ \A p \in Proc : pc[p] = "write" => Visible = ip.size - u[p].moved
               /\ (\A p \in Proc : pc[p] # "write") => Visible = ip.size)'
  BY VisibleIs, PTL
<1> QED BY <1>1

LEMMA FrontIs ==
  ASSUME IInv, NEW f, Begins(f)
  PROVE  Front = f
<1>1. ASSUME NEW p \in Proc, pc[p] = "read" PROVE Front = f
  <2> DEFINE q == CHOOSE q \in Proc : pc[q] = "read"
  <2>1. q \in Proc /\ pc[q] = "read"
    BY <1>1
  <2> QED BY <1>1, <2>1 DEF Front, Begins
<1>2. ASSUME \A p \in Proc : pc[p] # "read" PROVE Front = f
  BY <1>2 DEF Front, Begins
<1> QED BY <1>1, <1>2

LEMMA StoredIs ==
  IInv /\ Filled => broken \/ (Stored = Line(Visible, ip.size, serial) /\ Visible \in 0..ip.size)
<1> SUFFICES ASSUME IInv, Filled, ~broken
             PROVE  Stored = Line(Visible, ip.size, serial) /\ Visible \in 0..ip.size
  OBVIOUS
<1>1. PICK f \in Offset : Begins(f) /\ Ends(f) /\ Laid(f)
  BY DEF Filled
<1>2. Front = f
  BY <1>1, FrontIs
<1>3. ip.size \in 0..PIPSIZ /\ ip.size \in Nat
  BY Sizes DEF IInv, TypeOK, Inode
<1>4. Visible \in 0..ip.size
  <2>1. ASSUME NEW p \in Proc, pc[p] = "write" PROVE Visible \in 0..ip.size
    <3>1. u[p].moved \in Nat /\ u[p].moved <= ip.size
      BY <1>1, <2>1, Sizes DEF Ends, IInv, TypeOK, Call
    <3> QED BY <1>3, <2>1, <3>1, VisibleIs
  <2> QED BY <1>3, <2>1, VisibleIs
<1>5. ASSUME NEW k \in 1..Visible
      PROVE  LET o == (Front + k - 1) % PIPSIZ
             IN Contents(o \div BSIZE)[o % BSIZE] = Number(serial, ip.size - k + 1)
  <2> DEFINE x == f + (k - 1)
             o == x % PIPSIZ
  <2>1. k \in Nat /\ k > 0 /\ k <= ip.size /\ x \in 0..PIPSIZ+PIPSIZ-1 /\ k - 1 \in 0..PIPSIZ /\ k - 1 < PIPSIZ
    BY <1>3, <1>4, Sizes DEF Offset
  <2>2. o = After(f, k - 1)
    <3> HIDE DEF x
    <3>1. x % PIPSIZ = IF x < PIPSIZ THEN x ELSE x - PIPSIZ
      BY <2>1, Sizes, SmallMod
    <3>2. f \in Int /\ PIPSIZ \in Int /\ k - 1 \in Int
      BY <2>1, Sizes DEF Offset
    <3> QED BY <3>1, <3>2 DEF After, x
  <2>3. o \in Offset /\ Rel(f, o) = k - 1
    BY <2>1, <2>2, AfterType
  <2>4. Held(o, Number(serial, ip.size - Rel(f, o)))
    BY <1>1, <1>3, <2>1, <2>3 DEF Laid
  <2>5. ip.size - Rel(f, o) = ip.size - k + 1
    BY <1>3, <2>1, <2>3
  <2>6. (Front + k - 1) % PIPSIZ = o
    BY <1>2
  <2> HIDE DEF o
  <2> QED BY <2>4, <2>5, <2>6 DEF Held
<1> QED BY <1>4, <1>5 DEF Stored, Line

LEMMA StoredNext ==
  IInv' /\ Filled' => broken' \/ (Stored' = Line(Visible', ip'.size, serial') /\ Visible' \in 0..ip'.size)
<1>1. (IInv /\ Filled => broken \/ (Stored = Line(Visible, ip.size, serial) /\ Visible \in 0..ip.size))'
  BY StoredIs, PTL
<1> QED BY <1>1 DEF Line, Number, Rounds

-----------------------------------------------------------------------------
(* Steps that leave the bytes alone.                                       *)
LEMMA LaidKept ==
  ASSUME NEW f \in Offset, Laid(f), UNCHANGED blocks, ip'.size = ip.size
  PROVE  Laid(f)'
BY DEF Laid, Held, Contents, blocks

LEMMA FilledKept ==
  ASSUME Filled, UNCHANGED <<blocks, broken>>,
         ip'.size = ip.size, ip'.frptr = ip.frptr, ip'.fwptr = ip.fwptr,
         \A q \in Proc : /\ (pc'[q] = "read" <=> pc[q] = "read") /\ (pc'[q] = "write" <=> pc[q] = "write")
                         /\ pc[q] \in {"read", "write"} => u'[q] = u[q]
  PROVE  Filled'
<1> SUFFICES ASSUME ~broken PROVE \E f \in Offset : Begins(f)' /\ Ends(f)' /\ Laid(f)'
  BY DEF Filled
<1>1. PICK f \in Offset : Begins(f) /\ Ends(f) /\ Laid(f)
  BY DEF Filled
<1>2. Begins(f)'
  BY <1>1 DEF Begins
<1>3. Ends(f)'
  BY <1>1 DEF Ends, blocks
<1> QED BY <1>1, <1>2, <1>3, LaidKept

LEMMA AsksKept ==
  ASSUME Asks, NEW p \in Proc, Asked(p)', \A q \in Proc : q # p => pc'[q] = pc[q] /\ u'[q] = u[q]
  PROVE  Asks'
BY DEF Asks, Asked

LEMMA FaultKept ==
  ASSUME faults \in [copy : Nat, space : Nat, disk : Nat], NEW kind, Fault(kind)
  PROVE  faults' \in [copy : Nat, space : Nat, disk : Nat] /\ (kind = "space" => faults'.space > faults.space)
<1>1. kind \in {"copy", "space", "disk"} /\ faults' = [faults EXCEPT ![kind] = @ + 1]
  BY SizeAssumption DEF Fault
<1>2. CASE kind = "copy"
  BY <1>1, <1>2
<1>3. CASE kind = "space"
  BY <1>1, <1>3
<1>4. CASE kind = "disk"
  BY <1>1, <1>4
<1> QED BY <1>1, <1>2, <1>3, <1>4

-----------------------------------------------------------------------------
(* Each step keeps the invariant, and is a step of the queue or leaves it. *)
(* The queue stays when its bytes, their numbers and what is shown of them *)
(* do.                                                                     *)
LEMMA QueueStays ==
  ASSUME IInv, IInv', QInv, Filled', UNCHANGED <<serial, broken>>, ip'.size = ip.size, Visible' = Visible
  PROVE  Queue!QueueNext
<1>1. broken \/ Stored = Line(Visible, ip.size, serial)
  BY StoredIs DEF QInv
<1>2. broken' \/ Stored' = Line(Visible', ip'.size, serial')
  BY StoredNext
<1>3. broken' \/ Stored' = Stored
  BY <1>1, <1>2
<1> QED BY <1>3 DEF Queue!QueueNext

(* p is neither reading nor writing, before or after.                      *)
LEMMA RestKeeps ==
  ASSUME IInv, IInv', QInv, NEW p \in Proc, UNCHANGED <<blocks, faults, broken>>,
         ip'.size = ip.size, ip'.frptr = ip.frptr, ip'.fwptr = ip.fwptr,
         pc[p] \notin {"read", "write"}, pc'[p] \notin {"read", "write"},
         \A q \in Proc : q # p => pc'[q] = pc[q] /\ u'[q] = u[q],
         Asked(p)'
  PROVE  QInv' /\ Queue!QueueNext
<1>1. Filled'
  BY FilledKept DEF QInv
<1>2. Asks'
  BY AsksKept DEF QInv
<1>3. Visible' = Visible
  BY VisibleIs, VisibleNext
<1>4. QInv'
  BY <1>1, <1>2 DEF QInv
<1>5. Queue!QueueNext
  BY <1>1, <1>3, QueueStays DEF blocks
<1> QED BY <1>4, <1>5

LEMMA AwaitLockKeeps ==
  ASSUME IInv, IInv', QInv, NEW p \in Proc, AwaitLock(p)
  PROVE  QInv' /\ Queue!QueueNext
<1>1. /\ ip' = [ip EXCEPT !.want = TRUE] /\ pc[p] \in {"rlock", "wlock", "clock"}
      /\ UNCHANGED <<blocks, pc, u, faults, broken>>
  BY DEF AwaitLock, At
<1>2. ip'.size = ip.size /\ ip'.frptr = ip.frptr /\ ip'.fwptr = ip.fwptr
  BY <1>1 DEF IInv, TypeOK, Inode
<1>3. Asked(p)'
  BY <1>1 DEF QInv, Asks, Asked
<1> QED BY <1>1, <1>2, <1>3, RestKeeps

LEMMA OpenKeeps ==
  ASSUME IInv, IInv', QInv, NEW p \in Proc, NEW m \in Modes[p], Open(p, m)
  PROVE  QInv' /\ Queue!QueueNext
<1>1. m \in Mode /\ (m.rd \/ m.wr)
  BY ProcAssumption
<1>2. /\ ip' = Counted(ip, m) /\ u' = [u EXCEPT ![p].mode = m] /\ pc[p] = "idle"
      /\ UNCHANGED <<blocks, faults, broken>>
  BY DEF Open, At
<1>3. PICK l \in {"openr", "openw", "open"} : pc' = [pc EXCEPT ![p] = l]
  BY DEF Open, Goto
<1>4. ip'.size = ip.size /\ ip'.frptr = ip.frptr /\ ip'.fwptr = ip.fwptr
  <2> DEFINE r == ip.frcnt + (IF m.rd THEN 1 ELSE 0)
             w == ip.fwcnt + (IF m.wr THEN 1 ELSE 0)
  <2>1. ip' = [ip EXCEPT !.frcnt = r, !.fwcnt = w] /\ ip \in Inode
    BY <1>2 DEF Counted, IInv, TypeOK
  <2> HIDE DEF r, w
  <2> QED BY <2>1 DEF Inode
<1>5. u'[p].mode = m /\ \A q \in Proc : q # p => u'[q] = u[q]
  BY <1>1, <1>2 DEF IInv, TypeOK, Call
<1>6. pc'[p] = l /\ \A q \in Proc : q # p => pc'[q] = pc[q]
  BY <1>3 DEF IInv, TypeOK
<1>7. Asked(p)'
  BY <1>1, <1>5, <1>6 DEF Asked
<1> QED BY <1>2, <1>4, <1>5, <1>6, <1>7, RestKeeps

(* A step that changes one process only, and not what it has to write.     *)
LEMMA CallKeeps ==
  ASSUME IInv, IInv', QInv, NEW p \in Proc, NEW c \in Call, NEW l,
         UNCHANGED <<ip, blocks, faults, broken>>,
         pc[p] \notin {"idle", "read", "write"}, l \notin {"read", "write", "wlock", "wagain"},
         c.mode = u[p].mode, pc' = [pc EXCEPT ![p] = l], u' = [u EXCEPT ![p] = c]
  PROVE  QInv' /\ Queue!QueueNext
<1>1. pc'[p] = l /\ u'[p] = c /\ \A q \in Proc : q # p => pc'[q] = pc[q] /\ u'[q] = u[q]
  BY DEF IInv, TypeOK
<1>2. Asked(p)'
  BY <1>1 DEF QInv, Asks, Asked
<1> QED BY <1>1, <1>2, RestKeeps

LEMMA OpenWokenKeeps ==
  ASSUME IInv, IInv', QInv, NEW p \in Proc, OpenWoken(p)
  PROVE  QInv' /\ Queue!QueueNext
<1>1. pc[p] \in {"openr", "openw"} /\ UNCHANGED <<ip, blocks, u, faults, broken>>
  BY DEF OpenWoken, At
<1>2. \E l \in {pc[p], "open"} : pc' = [pc EXCEPT ![p] = l]
  BY DEF OpenWoken, Goto, IInv, TypeOK
<1>3. u[p] \in Call /\ u' = [u EXCEPT ![p] = u[p]]
  BY <1>1 DEF IInv, TypeOK
<1> QED BY <1>1, <1>2, <1>3, CallKeeps

LEMMA InterruptKeeps ==
  ASSUME IInv, IInv', QInv, NEW p \in Proc, Interrupt(p)
  PROVE  QInv' /\ Queue!QueueNext
<1>1. /\ asleep[p] \in {"frcnt", "fwcnt"} /\ UNCHANGED <<ip, blocks, faults, broken>>
      /\ u' = [u EXCEPT ![p] = Fresh(p)] /\ \E l \in {"clock", "open"} : pc' = [pc EXCEPT ![p] = l]
  BY DEF Interrupt, Goto
<1>2. pc[p] \in {"rlock", "openw", "wlock", "openr"}
  BY <1>1 DEF IInv, Places
<1>3. Fresh(p) \in Call /\ Fresh(p).mode = u[p].mode
  BY FreshType DEF IInv, TypeOK
<1> QED BY <1>1, <1>2, <1>3, CallKeeps

LEMMA CallReadKeeps ==
  ASSUME IInv, IInv', QInv, NEW p \in Proc, NEW n \in Counts, CallRead(p, n)
  PROVE  QInv' /\ Queue!QueueNext
<1>1. [Fresh(p) EXCEPT !.count = n] \in Call /\ [Fresh(p) EXCEPT !.count = n].mode = u[p].mode
  <2>1. n \in Nat
    BY SizeAssumption
  <2> QED BY <2>1, FreshType DEF IInv, TypeOK, Call
<1>2. /\ UNCHANGED <<ip, blocks, faults, broken>> /\ pc[p] = "open" /\ pc' = [pc EXCEPT ![p] = "rlock"]
      /\ u' = [u EXCEPT ![p] = [Fresh(p) EXCEPT !.count = n]]
  BY DEF CallRead, At, Goto
<1> QED BY <1>1, <1>2, CallKeeps

LEMMA CallWriteKeeps ==
  ASSUME IInv, IInv', QInv, NEW p \in Proc, NEW n \in Counts, CallWrite(p, n)
  PROVE  QInv' /\ Queue!QueueNext
<1> DEFINE c == [Fresh(p) EXCEPT !.asked = n, !.count = n]
<1>1. c.mode = u[p].mode /\ c.asked = n /\ c.count = n
  BY FreshType DEF IInv, TypeOK, Call
<1>2. /\ UNCHANGED <<ip, blocks, faults, broken>> /\ pc[p] = "open" /\ pc' = [pc EXCEPT ![p] = "wlock"]
      /\ u' = [u EXCEPT ![p] = c]
  BY DEF CallWrite, At, Goto
<1> HIDE DEF c
<1>3. pc'[p] = "wlock" /\ u'[p] = c /\ \A q \in Proc : q # p => pc'[q] = pc[q] /\ u'[q] = u[q]
  BY <1>2 DEF IInv, TypeOK
<1>4. Asked(p)'
  BY <1>1, <1>2, <1>3 DEF QInv, Asks, Asked
<1> QED BY <1>2, <1>3, <1>4, RestKeeps

LEMMA CallCloseKeeps ==
  ASSUME IInv, IInv', QInv, NEW p \in Proc, CallClose(p)
  PROVE  QInv' /\ Queue!QueueNext
<1>1. /\ UNCHANGED <<ip, blocks, u, faults, broken>> /\ pc[p] = "open" /\ pc' = [pc EXCEPT ![p] = "clock"]
  BY DEF CallClose, At, Goto
<1>2. u[p] \in Call /\ u' = [u EXCEPT ![p] = u[p]]
  BY <1>1 DEF IInv, TypeOK
<1> QED BY <1>1, <1>2, CallKeeps

LEMMA StutterKeeps == ASSUME QInv, UNCHANGED vars PROVE QInv'
<1>1. Filled'
  BY FilledKept DEF QInv, vars, blocks
<1>2. Asks'
  BY DEF QInv, vars, Asks, Asked
<1> QED BY <1>1, <1>2 DEF QInv, vars

(* A buffer is reused: the disk has its bytes.                             *)
LEMMA EvictKeeps ==
  ASSUME IInv, IInv', QInv, NEW b \in Blk, Evict(b)
  PROVE  QInv' /\ Queue!QueueNext
<1>1. /\ cache[b].in /\ UNCHANGED <<ip, faddr, serial, pc, u, faults, broken>>
      /\ disk' = [disk EXCEPT ![b] = IF cache[b].dirty THEN cache[b].bytes ELSE disk[b]]
      /\ cache' = [cache EXCEPT ![b] = NoBuffer]
  BY DEF Evict
<1>2. ASSUME NEW o \in Offset, NEW x, Held(o, x) PROVE Held(o, x)'
  <2>1. o \div BSIZE \in Blk /\ cache \in [Blk -> Buffer] /\ disk \in [Blk -> Bytes]
    BY Blocks DEF IInv, TypeOK
  <2>2. CASE o \div BSIZE = b
    <3>1. Contents(b)' = Contents(b) \/ (~cache[b].dirty /\ Contents(b)' = disk[b])
      BY <1>1, <2>1, <2>2 DEF Contents, NoBuffer
    <3>2. ~cache'[b].in
      BY <1>1, <2>1 DEF NoBuffer
    <3> QED BY <1>1, <1>2, <2>2, <3>1, <3>2 DEF Held
  <2>3. CASE o \div BSIZE # b
    BY <1>1, <1>2, <2>1, <2>3 DEF Held, Contents
  <2> QED BY <2>2, <2>3
<1>3. Filled'
  <2>1. \A f \in Offset : Begins(f) /\ Ends(f) /\ Laid(f) => Begins(f)' /\ Ends(f)' /\ Laid(f)'
    <3> TAKE f \in Offset
    <3> HAVE Begins(f) /\ Ends(f) /\ Laid(f)
    <3>1. Begins(f)' /\ Ends(f)'
      BY <1>1 DEF Begins, Ends
    <3>2. Laid(f)'
      BY <1>1, <1>2 DEF Laid
    <3> QED BY <3>1, <3>2
  <2> QED BY <1>1, <2>1 DEF QInv, Filled
<1>4. QInv'
  BY <1>1, <1>3 DEF QInv, Asks, Asked
<1>5. Visible' = Visible
  BY <1>1 DEF Visible
<1> QED BY <1>1, <1>3, <1>4, <1>5, QueueStays

(* A buffer is lost, and its bytes with it.                                *)
LEMMA EvictFailsKeeps ==
  ASSUME IInv, IInv', QInv, NEW b \in Blk, EvictFails(b)
  PROVE  QInv' /\ Queue!QueueNext
<1>1. Fault("disk") /\ broken' = TRUE /\ UNCHANGED <<pc, u>>
  BY DEF EvictFails
<1>2. QInv'
  BY <1>1, FaultKept DEF QInv, Filled, Asks, Asked
<1> QED BY <1>1, <1>2 DEF Queue!QueueNext

(* p takes the lock or leaves it to others, at the test of readi.          *)
LEMMA ReadTestKeeps ==
  ASSUME IInv, IInv', QInv, NEW p \in Proc, ReadTest(p)
  PROVE  QInv' /\ Queue!QueueNext
<1>1. /\ pc[p] = "rlock" /\ ~ip.lock /\ UNCHANGED <<blocks, faults, broken>> /\ ip \in Inode
      /\ UNCHANGED <<faddr, cache, disk, serial>>
  BY DEF ReadTest, At, blocks, IInv, TypeOK
<1>2. CASE ip.size > 0
  <2>1. ip' = [ip EXCEPT !.lock = TRUE] /\ u' = [u EXCEPT ![p].offset = ip.frptr] /\ pc' = [pc EXCEPT ![p] = "read"]
    BY <1>2 DEF ReadTest, Goto
  <2>2. ip'.size = ip.size /\ ip'.frptr = ip.frptr /\ ip'.fwptr = ip.fwptr
    BY <1>1, <2>1 DEF Inode
  <2>3. /\ u'[p].offset = ip.frptr /\ u'[p].mode = u[p].mode /\ pc'[p] = "read"
        /\ \A q \in Proc : q # p => pc'[q] = pc[q] /\ u'[q] = u[q]
    BY <2>1 DEF IInv, TypeOK, Call
  <2>4. \A q \in Proc : pc[q] \notin {"read", "write"}
    BY <1>1, Alone DEF Hold
  <2>5. \A q \in Proc : pc'[q] # "write"
    BY <2>3, <2>4
  <2>6. Filled'
    <3>1. \A f \in Offset : Begins(f) /\ Ends(f) /\ Laid(f) => Begins(f)' /\ Ends(f)' /\ Laid(f)'
      <4> TAKE f \in Offset
      <4> HAVE Begins(f) /\ Ends(f) /\ Laid(f)
      <4>1. ip.frptr = f /\ ip.fwptr = After(f, ip.size)
        BY <2>4 DEF Begins, Ends
      <4>2. Begins(f)'
        BY <1>2, <2>2, <2>3, <2>4, <4>1 DEF Begins
      <4>3. Ends(f)'
        BY <1>1, <2>2, <2>4, <2>5 DEF Ends
      <4> QED BY <1>1, <2>2, <4>2, <4>3, LaidKept
    <3> QED BY <1>1, <3>1 DEF QInv, Filled
  <2>7. Asked(p)'
    BY <1>1, <2>3 DEF QInv, Asks, Asked
  <2>8. QInv'
    BY <1>1, <2>3, <2>6, <2>7, AsksKept DEF QInv
  <2>9. Visible' = Visible
    BY <2>2, <2>4, <2>5, VisibleIs, VisibleNext
  <2> QED BY <1>1, <2>2, <2>6, <2>8, <2>9, QueueStays
<1>3. CASE ~(ip.size > 0) /\ (ip.fwcnt = 0 \/ u[p].mode.ndelay)
  <2>1. Return(p) /\ UNCHANGED <<ip, asleep>>
    BY <1>3 DEF ReadTest
  <2>2. Fresh(p) \in Call /\ Fresh(p).mode = u[p].mode
    BY FreshType DEF IInv, TypeOK
  <2> QED BY <1>1, <2>1, <2>2, CallKeeps DEF Return, Goto
<1>4. CASE ~(ip.size > 0) /\ ~(ip.fwcnt = 0 \/ u[p].mode.ndelay)
  <2>1. ip' = [ip EXCEPT !.fir = TRUE] /\ UNCHANGED <<pc, u>>
    BY <1>4 DEF ReadTest
  <2>2. ip'.size = ip.size /\ ip'.frptr = ip.frptr /\ ip'.fwptr = ip.fwptr
    BY <1>1, <2>1 DEF Inode
  <2>3. Asked(p)'
    BY <2>1 DEF QInv, Asks, Asked
  <2> QED BY <1>1, <2>1, <2>2, <2>3, RestKeeps
<1> QED BY <1>2, <1>3, <1>4

LEMMA ReturnAsked ==
  ASSUME IInv, Asks, NEW p \in Proc, pc[p] # "idle", Return(p)
  PROVE  Asks'
<1>1. /\ pc'[p] = "open" /\ u'[p].mode = u[p].mode
      /\ \A q \in Proc : q # p => pc'[q] = pc[q] /\ u'[q] = u[q]
  BY ReturnType DEF IInv, TypeOK
<1>2. Asked(p)'
  BY <1>1 DEF Asks, Asked
<1> QED BY <1>1, <1>2, AsksKept

(* The same at the test of writei.                                         *)
LEMMA WriteTestKeeps ==
  ASSUME IInv, IInv', QInv, NEW p \in Proc, WriteTest(p)
  PROVE  QInv' /\ Queue!QueueNext
<1>1. /\ pc[p] \in {"wlock", "wagain"} /\ (pc[p] \in Hold \/ ~ip.lock) /\ ip \in Inode /\ u[p] \in Call
      /\ UNCHANGED <<blocks, faults, broken>> /\ UNCHANGED <<faddr, cache, disk, serial>>
  BY DEF WriteTest, At, Hold, blocks, IInv, TypeOK
<1>2. CASE ip.frcnt = 0 \/ (NoRoom(p) /\ u[p].mode.ndelay)
  <2>1. ip' = Released(ip) /\ Return(p)
    BY <1>2 DEF WriteTest
  <2>2. ip'.size = ip.size /\ ip'.frptr = ip.frptr /\ ip'.fwptr = ip.fwptr
    BY <1>1, <2>1, ReleasedType
  <2>3. pc'[p] = "open" /\ u'[p].mode = u[p].mode /\ \A q \in Proc : q # p => pc'[q] = pc[q] /\ u'[q] = u[q]
    BY <2>1, ReturnType DEF IInv, TypeOK
  <2>4. Asked(p)'
    BY <1>1, <2>3 DEF QInv, Asks, Asked
  <2> QED BY <1>1, <2>2, <2>3, <2>4, RestKeeps
<1>3. CASE ~(ip.frcnt = 0 \/ (NoRoom(p) /\ u[p].mode.ndelay)) /\ NoRoom(p)
  <2>1. /\ ip' = [Released(ip) EXCEPT !.fiw = TRUE] /\ u' = [u EXCEPT ![p].usave = 0]
        /\ pc' = [pc EXCEPT ![p] = "wlock"]
    BY <1>3 DEF WriteTest, Goto
  <2>2. ip'.size = ip.size /\ ip'.frptr = ip.frptr /\ ip'.fwptr = ip.fwptr
    BY <1>1, <2>1, ReleasedType DEF Inode
  <2>3. /\ pc'[p] = "wlock" /\ u'[p].mode = u[p].mode /\ u'[p].asked = u[p].asked /\ u'[p].count = u[p].count
        /\ \A q \in Proc : q # p => pc'[q] = pc[q] /\ u'[q] = u[q]
    BY <1>1, <2>1 DEF IInv, TypeOK, Call
  <2>4. u[p].asked \in Nat /\ PIPSIZ \in Nat
    BY <1>1, Sizes DEF Call
  <2>5. Asked(p)'
    BY <1>1, <2>3, <2>4 DEF QInv, Asks, Asked
  <2> QED BY <1>1, <2>2, <2>3, <2>5, RestKeeps
<1>4. CASE ~(ip.frcnt = 0 \/ (NoRoom(p) /\ u[p].mode.ndelay)) /\ ~NoRoom(p)
  <2> DEFINE n == IF TooMuch(p) THEN PIPSIZ - ip.size ELSE u[p].count
             s == u[p].count - n
             c == [u[p] EXCEPT !.count = n, !.usave = s, !.moved = 0, !.offset = ip.fwptr]
  <2>1. ip' = [ip EXCEPT !.lock = TRUE] /\ pc' = [pc EXCEPT ![p] = "write"] /\ u' = [u EXCEPT ![p] = c]
    BY <1>1, <1>4 DEF WriteTest, Goto, IInv, TypeOK, Call
  <2>2. u[p].asked <= PIPSIZ => n = u[p].asked /\ s = 0
    <3>1. u[p].count \in Nat /\ u[p].asked \in Nat /\ ip.size \in Nat
      BY <1>1, Sizes DEF Call, Inode
    <3>2. u[p].asked <= PIPSIZ => u[p].count = u[p].asked
      BY <1>1, <3>1, Sizes DEF QInv, Asks, Asked
    <3> QED BY <1>4, <3>1, <3>2, Sizes DEF NoRoom, TooMuch, InParts
  <2> HIDE DEF n, s
  <2>3. /\ c.mode = u[p].mode /\ c.asked = u[p].asked /\ c.count = n /\ c.usave = s /\ c.moved = 0
        /\ c.offset = ip.fwptr
    BY <1>1 DEF Call
  <2> HIDE DEF c
  <2>4. ip'.size = ip.size /\ ip'.frptr = ip.frptr /\ ip'.fwptr = ip.fwptr
    BY <1>1, <2>1 DEF Inode
  <2>5. /\ pc'[p] = "write" /\ u'[p] = c
        /\ \A q \in Proc : q # p => pc'[q] = pc[q] /\ u'[q] = u[q]
    BY <2>1 DEF IInv, TypeOK
  <2>6. \A q \in Proc : pc[q] \notin {"read", "write"}
    BY <1>1, Alone DEF Hold
  <2>7. ip.size \in Nat
    BY <1>1, Sizes DEF Inode
  <2>8. Filled'
    <3>1. \A f \in Offset : Begins(f) /\ Ends(f) /\ Laid(f) => Begins(f)' /\ Ends(f)' /\ Laid(f)'
      <4> TAKE f \in Offset
      <4> HAVE Begins(f) /\ Ends(f) /\ Laid(f)
      <4>1. ip.fwptr = After(f, ip.size) /\ (ip.size = 0 => serial = 0)
        BY <2>6 DEF Ends
      <4>2. Begins(f)'
        BY <2>4, <2>5, <2>6 DEF Begins
      <4>3. Ends(f)'
        BY <1>1, <2>3, <2>4, <2>5, <2>6, <2>7, <4>1 DEF Ends
      <4> QED BY <1>1, <2>4, <4>2, <4>3, LaidKept
    <3> QED BY <1>1, <3>1 DEF QInv, Filled
  <2>9. Asked(p)'
    <3>1. n \in Int /\ u[p].asked \in Nat
      BY <1>1, Sizes DEF n, Call, Inode
    <3> QED BY <1>1, <2>2, <2>3, <2>5, <3>1 DEF QInv, Asks, Asked
  <2>10. QInv'
    BY <1>1, <2>5, <2>8, <2>9, AsksKept DEF QInv
  <2>11. Visible' = Visible
    BY <2>3, <2>4, <2>5, <2>6, <2>7, VisibleIs, VisibleNext
  <2> QED BY <1>1, <2>4, <2>8, <2>10, <2>11, QueueStays
<1> QED BY <1>2, <1>3, <1>4

LEMMA ReadDonePointers ==
  ASSUME NEW i \in Inode, NEW o \in 0..PIPSIZ-1
  PROVE  /\ ReadDone(i, o).size = i.size
         /\ ReadDone(i, o).frptr = IF i.size > 0 THEN o ELSE 0
         /\ ReadDone(i, o).fwptr = IF i.size > 0 THEN i.fwptr ELSE 0
<1> DEFINE r == Released(i)
           a == IF i.size > 0 THEN o ELSE 0
           b == IF i.size > 0 THEN i.fwptr ELSE 0
           j == [r EXCEPT !.frptr = a, !.fwptr = b, !.fiw = FALSE]
<1>1. r \in Inode /\ r.size = i.size /\ r.fwptr = i.fwptr
  BY ReleasedType
<1>2. ReadDone(i, o) = j
  BY <1>1 DEF ReadDone
<1> HIDE DEF r, a, b
<1>3. j.size = i.size /\ j.frptr = a /\ j.fwptr = b
  BY <1>1 DEF Inode
<1> QED BY <1>2, <1>3 DEF a, b

(* Unless bytes were lost, a reader with bytes to read finds their block.  *)
LEMMA ReadHoleKeeps ==
  ASSUME IInv, IInv', QInv, NEW p \in Proc, ReadHole(p)
  PROVE  QInv' /\ Queue!QueueNext
<1>1. /\ pc[p] = "read" /\ u[p].offset \div BSIZE \notin faddr /\ Return(p)
      /\ UNCHANGED <<faults, broken>>
  BY DEF ReadHole, At
<1>2. broken
  <2> SUFFICES ASSUME ~broken PROVE FALSE
    OBVIOUS
  <2>1. PICK f \in Offset : Begins(f) /\ Laid(f)
    BY DEF QInv, Filled
  <2>2. u[p].offset = f /\ ip.size > 0
    BY <1>1, <2>1 DEF Begins
  <2>3. Rel(f, f) = 0
    BY DEF Rel, Offset
  <2> QED BY <1>1, <2>1, <2>2, <2>3 DEF Laid, Held
<1>3. QInv'
  BY <1>1, <1>2, ReturnAsked DEF QInv, Filled
<1> QED BY <1>1, <1>2, <1>3 DEF Queue!QueueNext

(* A block that cannot be read ends the read: its bytes stay where they    *)
(* are, or are spoiled.                                                    *)
LEMMA ReadFailsKeeps ==
  ASSUME IInv, IInv', QInv, NEW p \in Proc, ReadFails(p)
  PROVE  QInv' /\ Queue!QueueNext
<1>1. pc[p] = "read" /\ Fault("disk") /\ UNCHANGED <<faddr, cache, disk>>
  BY DEF ReadFails, At
<1>2. ip \in Inode /\ u[p].offset \in Offset /\ ip.size \in 0..PIPSIZ
  BY Sizes DEF IInv, TypeOK, Call, Inode, Offset
<1>3. PICK n \in {0, Min({BSIZE - (u[p].offset % BSIZE), u[p].count, ip.size})}, copied \in BOOLEAN :
        /\ ip' = ReadDone([ip EXCEPT !.size = @ - n], IF copied THEN Wrap(u[p].offset + n) ELSE u[p].offset)
        /\ Return(p)
        /\ broken' = (broken \/ n # 0)
        /\ serial' = IF [ip EXCEPT !.size = @ - n].size = 0 THEN 0 ELSE serial
  BY DEF ReadFails
<1>4. Asks' /\ faults' \in [copy : Nat, space : Nat, disk : Nat]
  BY <1>1, <1>3, ReturnAsked, FaultKept DEF QInv
<1>5. CASE broken'
  <2>1. QInv'
    BY <1>4, <1>5 DEF QInv, Filled
  <2> QED BY <1>5, <2>1 DEF Queue!QueueNext
<1>6. CASE ~broken'
  <2>1. n = 0 /\ ~broken /\ broken' = broken
    BY <1>3, <1>6 DEF IInv, TypeOK
  <2>2. PICK f \in Offset : Begins(f) /\ Ends(f) /\ Laid(f)
    BY <2>1 DEF QInv, Filled
  <2>3. u[p].offset = f /\ ip.size > 0
    BY <1>1, <2>2 DEF Begins
  <2>4. [ip EXCEPT !.size = @ - n] = ip
    <3>1. ip.size - 0 = ip.size
      BY <1>2, Sizes
    <3> QED BY <1>2, <2>1, <3>1 DEF Inode
  <2>5. Wrap(u[p].offset + n) = u[p].offset
    BY <1>2, <2>1, Sizes DEF Offset, Wrap
  <2>6. ip' = ReadDone(ip, f) /\ serial' = IF ip.size = 0 THEN 0 ELSE serial
    BY <1>3, <2>3, <2>4, <2>5
  <2>7. ip'.size = ip.size /\ ip'.frptr = f /\ ip'.fwptr = ip.fwptr /\ serial' = serial
    BY <1>2, <2>3, <2>6, ReadDonePointers DEF Offset
  <2>8. pc'[p] = "open" /\ \A q \in Proc : q # p => pc'[q] = pc[q] /\ u'[q] = u[q]
    BY <1>3, ReturnType DEF IInv, TypeOK
  <2>9. \A q \in Proc : q # p => pc[q] \notin {"read", "write"}
    BY <1>1, Alone DEF Hold
  <2>10. \A q \in Proc : pc'[q] \notin {"read", "write"} /\ pc[q] # "write"
    BY <1>1, <2>8, <2>9
  <2>11. Filled'
    <3>1. Begins(f)'
      BY <2>7, <2>10 DEF Begins
    <3>2. Ends(f)'
      BY <2>2, <2>7, <2>10 DEF Ends
    <3>3. Laid(f)'
      BY <1>1, <2>2, <2>7, LaidKept DEF blocks
    <3> QED BY <3>1, <3>2, <3>3 DEF Filled
  <2>12. QInv'
    BY <1>4, <2>11 DEF QInv
  <2>13. Visible' = Visible
    BY <2>7, <2>10, VisibleIs, VisibleNext
  <2> QED BY <1>6, <2>1, <2>7, <2>11, <2>12, <2>13, QueueStays
<1> QED BY <1>5, <1>6

(* What a block of readi does when its copy does not fail: n bytes are     *)
(* taken from the front, and the delayed write may be given up.            *)
Takes(p, n) ==
  LET on == u[p].offset % BSIZE
      b == u[p].offset \div BSIZE
      f == Wrap(u[p].offset + n)
  IN /\ n <= ip.size /\ on + n <= BSIZE
     /\ ip'.size = ip.size - n /\ serial' = IF ip.size - n = 0 THEN 0 ELSE serial
     /\ UNCHANGED <<faddr, disk, faults, broken>>
     /\ cache' = [cache EXCEPT ![b] =
          [in |-> TRUE, dirty |-> cache[b].dirty /\ ~(on + n = BSIZE /\ ip.size - n < PIPSIZ - BSIZE),
           bytes |-> Overwritten(Contents(b), on, n, [k \in 1..n |-> Junk])]]
     /\ pc'[p] \in {"read", "open"} /\ u'[p].mode = u[p].mode
     /\ \A q \in Proc : q # p => pc'[q] = pc[q] /\ u'[q] = u[q]
     /\ pc'[p] = "read" => ip.size - n > 0 /\ u'[p].offset = f /\ ip'.fwptr = ip.fwptr
     /\ pc'[p] = "open" => /\ ip'.frptr = IF ip.size - n > 0 THEN f ELSE 0
                           /\ ip'.fwptr = IF ip.size - n > 0 THEN ip.fwptr ELSE 0

LEMMA ReadBlockTakes ==
  ASSUME IInv, NEW p \in Proc, ReadBlock(p, FALSE)
  PROVE  \E n \in 0..PIPSIZ : Takes(p, n)
<1> DEFINE on == u[p].offset % BSIZE
           b == u[p].offset \div BSIZE
           n == Min({BSIZE - on, u[p].count, ip.size})
           offset == Wrap(u[p].offset + n)
           size == ip.size - n
           i == [ip EXCEPT !.size = size]
           count == u[p].count - n
           over == count = 0 \/ size = 0
<1>1. /\ pc[p] = "read" /\ UNCHANGED <<faddr, disk, faults, broken>>
      /\ serial' = IF size = 0 THEN 0 ELSE serial
      /\ cache' = [cache EXCEPT ![b] =
           [in |-> TRUE, dirty |-> cache[b].dirty /\ ~(on + n = BSIZE /\ size < PIPSIZ - BSIZE),
            bytes |-> Overwritten(Contents(b), on, n, [k \in 1..n |-> Junk])]]
  BY DEF ReadBlock, At
<1>2. ip \in Inode /\ u[p] \in Call /\ u[p].offset \in Offset /\ u[p].count \in Nat /\ ip.size \in 0..PIPSIZ
  BY Sizes DEF IInv, TypeOK, Call, Inode, Offset
<1>3. on \in 0..BSIZE-1 /\ u[p].offset - on + BSIZE <= PIPSIZ /\ u[p].offset \in Nat
  BY <1>2, Blocks
<1>4. n \in 0..PIPSIZ /\ n <= u[p].count /\ n <= ip.size /\ n <= BSIZE - on
  <2>1. BSIZE - on \in Nat /\ u[p].count \in Nat /\ ip.size \in Nat
    BY <1>2, <1>3, Sizes
  <2>2. n \in {BSIZE - on, u[p].count, ip.size} /\ n <= BSIZE - on /\ n <= u[p].count /\ n <= ip.size
    BY <2>1, MinThree
  <2> HIDE DEF n
  <2> QED BY <1>2, <2>1, <2>2, Sizes
<1> HIDE DEF on, b, n
<1>5. size \in 0..PIPSIZ /\ offset \in 0..PIPSIZ-1 /\ count \in Nat /\ on + n <= BSIZE
  BY <1>2, <1>3, <1>4, Sizes DEF Wrap
<1> HIDE DEF size, offset, count
<1>6. i \in Inode /\ i.size = size /\ i.fwptr = ip.fwptr
  BY <1>2, <1>5 DEF Inode
<1>7. CASE over
  <2>1. ip' = ReadDone(i, offset) /\ Return(p)
    BY <1>7 DEF ReadBlock, on, b, n, size, offset, count
  <2> HIDE DEF i
  <2>2. /\ ip'.size = size /\ ip'.frptr = IF size > 0 THEN offset ELSE 0
        /\ ip'.fwptr = IF size > 0 THEN ip.fwptr ELSE 0
    BY <1>5, <1>6, <2>1, ReadDonePointers
  <2>3. pc'[p] = "open" /\ u'[p].mode = u[p].mode /\ \A q \in Proc : q # p => pc'[q] = pc[q] /\ u'[q] = u[q]
    BY <2>1, ReturnType DEF IInv, TypeOK
  <2>4. Takes(p, n)
    BY <1>1, <1>4, <1>5, <2>2, <2>3 DEF Takes, on, b, size, offset
  <2> QED BY <1>4, <2>4
<1>8. CASE ~over
  <2>1. /\ ip' = i /\ u' = [u EXCEPT ![p].offset = offset, ![p].count = count] /\ UNCHANGED pc
    BY <1>8 DEF ReadBlock, on, b, n, size, offset, count
  <2>2. u'[p].offset = offset /\ u'[p].mode = u[p].mode /\ \A q \in Proc : q # p => u'[q] = u[q]
    BY <1>2, <2>1 DEF IInv, TypeOK, Call
  <2>3. size > 0
    BY <1>5, <1>8, Sizes
  <2>4. ip'.size = size /\ ip'.fwptr = ip.fwptr /\ pc'[p] = "read"
    BY <1>1, <1>6, <2>1
  <2>5. \A q \in Proc : pc'[q] = pc[q]
    BY <2>1
  <2>6. Takes(p, n)
    BY <1>1, <1>4, <1>5, <2>2, <2>3, <2>4, <2>5 DEF Takes, on, b, size, offset
  <2> QED BY <1>4, <2>6
<1> QED BY <1>7, <1>8

(* The bytes that stay: those of other blocks, and those of this one that  *)
(* are not read, if its delayed write stays.                               *)
LEMMA TakesHeld ==
  ASSUME IInv, NEW p \in Proc, NEW n \in 0..PIPSIZ, Takes(p, n), NEW o \in Offset, NEW x, Held(o, x),
         ~(o >= u[p].offset /\ o < u[p].offset + n),
         o \div BSIZE = u[p].offset \div BSIZE =>
           ~((u[p].offset % BSIZE) + n = BSIZE /\ ip.size - n < PIPSIZ - BSIZE)
  PROVE  Held(o, x)'
<1>1. cache \in [Blk -> Buffer] /\ disk \in [Blk -> Bytes]
  BY DEF IInv, TypeOK
<1> PICK f \in Offset : f = u[p].offset
  BY DEF IInv, TypeOK, Call, Offset
<1> DEFINE on == f % BSIZE
           b == f \div BSIZE
           k == o % BSIZE
           d == cache[b].dirty /\ ~(on + n = BSIZE /\ ip.size - n < PIPSIZ - BSIZE)
<1>2. /\ o \div BSIZE \in Blk /\ b \in Blk /\ k \in 0..BSIZE-1 /\ on \in 0..BSIZE-1
      /\ o \in Nat /\ f \in Nat
  BY Blocks
<1>3. UNCHANGED <<faddr, disk>> /\ cache' = [cache EXCEPT ![b] =
           [in |-> TRUE, dirty |-> d, bytes |-> Overwritten(Contents(b), on, n, [j \in 1..n |-> Junk])]]
  BY DEF Takes
<1> HIDE DEF b
<1>4. CASE o \div BSIZE = b
  <2>1. o - f = k - on
    BY <1>4, SameBlock DEF b
  <2>2. k \notin on..on + n - 1
    BY <1>2, <2>1
  <2>3. d = cache[b].dirty
    BY <1>1, <1>2, <1>4 DEF Buffer, b
  <2>4. Overwritten(Contents(b), on, n, [j \in 1..n |-> Junk])[k] = Contents(b)[k]
    BY <1>2, <2>2 DEF Overwritten
  <2> DEFINE new == Overwritten(Contents(b), on, n, [j \in 1..n |-> Junk])
  <2> HIDE DEF d, k, on, new
  <2>5. cache'[b] = [in |-> TRUE, dirty |-> d, bytes |-> new]
    BY <1>1, <1>2, <1>3 DEF new
  <2>6. Contents(b)' = new /\ cache'[b].in /\ cache'[b].dirty = d
    BY <2>5 DEF Contents
  <2>7. Contents(b)[k] = x /\ (~cache[b].dirty => disk[b][k] = x) /\ b \in faddr
    BY <1>4 DEF Held, Contents, k
  <2>8. b \in faddr' /\ Contents(b)'[k] = x /\ (~cache'[b].dirty => disk'[b][k] = x)
    BY <1>3, <2>3, <2>4, <2>6, <2>7 DEF new
  <2> QED BY <1>4, <2>8 DEF Held, k
<1>5. CASE o \div BSIZE # b
  BY <1>1, <1>2, <1>3, <1>5 DEF Held, Contents
<1> QED BY <1>4, <1>5

LEMMA LaidNext ==
  ASSUME NEW f \in Offset,
         \A o \in Offset : Rel(f, o) < ip'.size =>
           \E x : x = Number(serial', ip'.size - Rel(f, o)) /\ Held(o, x)'
  PROVE  Laid(f)'
<1> SUFFICES ASSUME NEW o \in Offset, Rel(f, o) < ip'.size
             PROVE  Held(o, Number(serial, ip.size - Rel(f, o)))'
  BY DEF Laid, Rel
<1>1. PICK x : x = Number(serial', ip'.size - Rel(f, o)) /\ Held(o, x)'
  OBVIOUS
<1>2. Number(serial, ip.size - Rel(f, o))' = x
  BY <1>1 DEF Number, Rounds, Rel
<1> QED BY <1>1, <1>2 DEF Held

LEMMA TakesLaid ==
  ASSUME IInv, NEW p \in Proc, NEW n \in 0..PIPSIZ, Takes(p, n), NEW f \in Offset, u[p].offset = f,
         Laid(f), n < ip.size, NEW g \in Offset, g = Wrap(f + n)
  PROVE  Laid(g)'
<1>1. ip.size \in 0..PIPSIZ /\ ip.size \in Nat /\ n \in Nat /\ n <= ip.size /\ ip'.size = ip.size - n /\ serial' = serial
  BY Sizes DEF IInv, TypeOK, Inode, Takes
<1>2. /\ f \in Nat /\ f % BSIZE \in 0..BSIZE-1 /\ f - (f % BSIZE) + BSIZE <= PIPSIZ /\ (f % BSIZE) + n <= BSIZE
      /\ f >= f % BSIZE
  <2>1. f = BSIZE * (f \div BSIZE) + (f % BSIZE) /\ f \div BSIZE \in Nat
    BY Blocks, Sizes DEF Blk
  <2>2. BSIZE * (f \div BSIZE) \in Nat
    BY <2>1, Sizes
  <2>3. f \in Nat /\ f % BSIZE \in 0..BSIZE-1 /\ f - (f % BSIZE) + BSIZE <= PIPSIZ
    BY Blocks
  <2>4. (f % BSIZE) + n <= BSIZE
    BY DEF Takes
  <2> QED BY <2>1, <2>2, <2>3, <2>4, Sizes
<1>3. f + n <= PIPSIZ /\ BSIZE <= PIPSIZ /\ n <= BSIZE
  BY <1>1, <1>2, Sizes
<1>4. ASSUME NEW o \in Offset, Rel(g, o) < ip.size - n, NEW x, x = Number(serial, ip.size - n - Rel(g, o))
      PROVE  Held(o, x)'
  <2>1. Rel(f, o) = Rel(g, o) + n /\ ~(o >= f /\ o < f + n)
    BY <1>1, <1>3, <1>4, Ahead
  <2>2. Rel(g, o) \in Nat
    BY RelType
  <2>3. Rel(f, o) < ip.size /\ ip.size - Rel(f, o) = ip.size - n - Rel(g, o)
    BY <1>1, <1>4, <2>1, <2>2
  <2>4. Held(o, x)
    BY <1>4, <2>3 DEF Laid
  <2>5. ASSUME o \div BSIZE = f \div BSIZE, (f % BSIZE) + n = BSIZE, ip.size - n < PIPSIZ - BSIZE
        PROVE  FALSE
    <3>1. o - f = (o % BSIZE) - (f % BSIZE) /\ o % BSIZE \in 0..BSIZE-1 /\ o \in Nat
      BY <2>5, SameBlock, Blocks
    <3>2. o >= f + n - BSIZE /\ o < f + n /\ f + n >= BSIZE
      BY <1>1, <1>2, <2>5, <3>1, Sizes
    <3>3. Rel(g, o) >= PIPSIZ - BSIZE
      BY <1>1, <1>3, <3>2, Dropped
    <3> QED BY <1>1, <1>4, <2>2, <2>5, <3>3, Sizes
  <2> QED BY <2>1, <2>4, <2>5, TakesHeld
<1> QED BY <1>1, <1>4, LaidNext

LEMMA TakesFilled ==
  ASSUME IInv, QInv, NEW p \in Proc, pc[p] = "read", NEW n \in 0..PIPSIZ, Takes(p, n)
  PROVE  Filled'
<1>1. /\ ip.size \in 0..PIPSIZ /\ ip.size \in Nat /\ n \in Nat /\ n <= ip.size /\ ip'.size = ip.size - n
      /\ serial' = (IF ip.size - n = 0 THEN 0 ELSE serial) /\ broken' = broken /\ pc'[p] \in {"read", "open"}
      /\ \A q \in Proc : q # p => pc'[q] = pc[q] /\ u'[q] = u[q]
  BY Sizes DEF IInv, TypeOK, Inode, Takes
<1>2. \A q \in Proc : q # p => pc[q] \notin {"read", "write"} /\ pc'[q] \notin {"read", "write"}
  BY <1>1, Alone DEF Hold
<1> SUFFICES ASSUME NEW f \in Offset, Begins(f), Ends(f), Laid(f)
               PROVE  \E g \in Offset : Begins(g)' /\ Ends(g)' /\ Laid(g)'
  BY <1>1 DEF QInv, Filled
<1>3. u[p].offset = f /\ ip.fwptr = After(f, ip.size)
  BY <1>2 DEF Begins, Ends
<1>4. CASE n < ip.size
  <2>1. f + n <= PIPSIZ
    <3>1. (f % BSIZE) + n <= BSIZE
      BY <1>3 DEF Takes
    <3>2. f \in Nat /\ f % BSIZE \in 0..BSIZE-1 /\ f - (f % BSIZE) + BSIZE <= PIPSIZ
      BY Blocks
    <3> QED BY <1>1, <3>1, <3>2, Sizes
  <2> PICK g : g = Wrap(f + n)
    OBVIOUS
  <2>2. g \in Offset /\ After(g, ip.size - n) = After(f, ip.size)
    BY <1>1, <1>4, <2>1, EndKept
  <2>3. ip.size - n > 0
    BY <1>1, <1>4
  <2>4. Begins(g)'
    <3>1. pc'[p] = "read" => u'[p].offset = g
      BY <1>3 DEF Takes
    <3>2. pc'[p] = "open" => ip'.frptr = g
      BY <1>3, <2>3 DEF Takes
    <3> QED BY <1>1, <1>2, <2>3, <3>1, <3>2 DEF Begins
  <2>5. Ends(g)'
    <3>1. ip'.fwptr = ip.fwptr
      BY <1>1, <2>3 DEF Takes
    <3>2. \A q \in Proc : pc'[q] # "write"
      BY <1>1, <1>2
    <3>3. After(g, ip.size)' = After(g, ip.size - n)
      BY <1>1 DEF After
    <3> QED BY <1>1, <1>3, <2>2, <2>3, <3>1, <3>2, <3>3 DEF Ends
  <2>6. Laid(g)'
    BY <1>3, <1>4, <2>2, TakesLaid
  <2> QED BY <2>2, <2>4, <2>5, <2>6
<1>5. CASE ~(n < ip.size)
  <2>1. n = ip.size /\ ip'.size = 0 /\ ~(ip.size - n > 0)
    BY <1>1, <1>5
  <2>2. pc'[p] = "open" /\ ip'.frptr = 0 /\ ip'.fwptr = 0 /\ serial' = 0
    BY <1>1, <2>1 DEF Takes
  <2>3. Begins(0)'
    BY <1>2, <2>2 DEF Begins
  <2>4. Ends(0)'
    BY <1>2, <2>1, <2>2, Sizes DEF Ends, After
  <2>5. Laid(0)'
    <3>1. \A o \in Offset : ~(Rel(0, o) < 0)
      BY Sizes DEF Rel, Offset
    <3> QED BY <2>1, <3>1 DEF Laid, Rel
  <2>6. 0 \in Offset
    BY Sizes DEF Offset
  <2> QED BY <2>3, <2>4, <2>5, <2>6
<1> QED BY <1>4, <1>5

(* A read takes bytes from the front of the queue.                         *)
LEMMA ReadBlockKeeps ==
  ASSUME IInv, IInv', QInv, NEW p \in Proc, NEW fails \in BOOLEAN, ReadBlock(p, fails)
  PROVE  QInv' /\ Queue!QueueNext
<1>1. pc[p] = "read"
  BY DEF ReadBlock, At
<1>2. CASE fails
  <2>1. Return(p) /\ Fault("copy") /\ broken' = TRUE
    BY <1>2 DEF ReadBlock
  <2>2. QInv'
    BY <1>1, <2>1, ReturnAsked, FaultKept DEF QInv, Filled
  <2> QED BY <2>1, <2>2 DEF Queue!QueueNext
<1>3. CASE ~fails
  <2>1. PICK n \in 0..PIPSIZ : Takes(p, n)
    BY <1>3, ReadBlockTakes
  <2>2. Filled'
    BY <1>1, <2>1, TakesFilled
  <2>3. Asks'
    <3>1. pc'[p] \in {"read", "open"} /\ u'[p].mode = u[p].mode /\ \A q \in Proc : q # p => pc'[q] = pc[q] /\ u'[q] = u[q]
      BY <2>1 DEF Takes
    <3>2. Asked(p)'
      BY <1>1, <3>1 DEF QInv, Asks, Asked
    <3> QED BY <3>1, <3>2, AsksKept DEF QInv
  <2>4. QInv'
    BY <2>1, <2>2, <2>3 DEF QInv, Takes
  <2> SUFFICES Queue!QueueNext
    BY <2>4
  <2>5. \A q \in Proc : pc[q] # "write" /\ pc'[q] # "write"
    BY <1>1, <2>1, Alone DEF Hold, Takes
  <2>6. /\ ip.size \in 0..PIPSIZ /\ n \in 0..ip.size /\ ip'.size = ip.size - n
        /\ serial \in 0..Rounds-1 /\ serial' \in 0..Rounds-1
        /\ serial' = (IF ip.size - n = 0 THEN 0 ELSE serial) /\ broken' = broken
    BY <2>1, Sizes DEF IInv, TypeOK, Inode, Takes
  <2>7. Visible = ip.size /\ Visible' = ip.size - n
    BY <2>5, <2>6, VisibleIs, VisibleNext
  <2>8. CASE broken
    BY <2>6, <2>8 DEF Queue!QueueNext
  <2>9. CASE ~broken
    <3>1. Stored = Line(ip.size, ip.size, serial)
      BY <2>7, <2>9, StoredIs DEF QInv
    <3>2. Stored' = Line(ip.size - n, ip.size - n, serial')
      BY <2>2, <2>6, <2>7, <2>9, StoredNext
    <3>3. Stored' = SubSeq(Stored, n + 1, Len(Stored))
      <4>1. n < ip.size => serial' = serial
        BY <2>6, Sizes
      <4>2. PICK t \in 0..Rounds-1 : t = serial'
        BY <2>6
      <4>3. PICK z \in 0..PIPSIZ : z = ip.size
        BY <2>6
      <4>4. n \in 0..z /\ serial \in 0..Rounds-1 /\ (n < z => t = serial)
        BY <2>6, <4>1, <4>2, <4>3
      <4>5. Line(z - n, z - n, t) = SubSeq(Line(z, z, serial), n + 1, Len(Line(z, z, serial)))
        BY <4>4, LineRemoved
      <4> QED BY <3>1, <3>2, <4>2, <4>3, <4>5
    <3>4. CASE n = 0
      <4>1. ip.size > 0
        BY <1>1, <2>9 DEF QInv, Filled, Begins
      <4>2. serial' = serial /\ ip'.size = ip.size /\ Visible' = Visible
        BY <2>6, <2>7, <3>4, <4>1, Sizes
      <4> QED BY <2>2, <2>6, <4>2, QueueStays
    <3>5. CASE n # 0
      <4>1. Len(Stored) = ip.size
        BY <2>6, <3>1, Sizes DEF Line
      <4>2. n \in 1..PIPSIZ /\ n <= Len(Stored)
        BY <2>6, <3>5, <4>1, Sizes
      <4>3. Queue!Remove(n)
        BY <3>3, <4>2 DEF Queue!Remove
      <4> QED BY <4>2, <4>3 DEF Queue!QueueNext
    <3> QED BY <3>4, <3>5
  <2> QED BY <2>8, <2>9
<1> QED BY <1>2, <1>3

LEMMA WriteDonePointers ==
  ASSUME TypeOK, NEW p \in Proc, NEW i \in Inode, NEW o \in 0..PIPSIZ-1, NEW err \in BOOLEAN, WriteDone(p, i, o, err)
  PROVE  /\ ip'.size = i.size /\ ip'.frptr = i.frptr /\ ip'.fwptr = o
         /\ pc'[p] \in {"open", "wagain"} /\ u'[p].mode = u[p].mode
         /\ pc'[p] = "wagain" => ~err /\ u[p].usave > 0 /\ u'[p].asked = u[p].asked
         /\ \A q \in Proc : q # p => pc'[q] = pc[q] /\ u'[q] = u[q]
<1> DEFINE done == [i EXCEPT !.fwptr = o, !.fir = FALSE]
<1>1. done \in Inode /\ done.size = i.size /\ done.frptr = i.frptr /\ done.fwptr = o
  BY DEF Inode
<1>2. CASE ~err /\ u[p].usave > 0
  <2> DEFINE c == [u[p] EXCEPT !.count = u[p].usave, !.usave = 0, !.moved = 0, !.offset = 0]
  <2>1. ip' = done /\ pc' = [pc EXCEPT ![p] = "wagain"] /\ u' = [u EXCEPT ![p] = c]
    BY <1>2 DEF WriteDone, Goto, TypeOK, Call
  <2>2. c.mode = u[p].mode /\ c.asked = u[p].asked
    BY DEF TypeOK, Call
  <2> HIDE DEF c, done
  <2>3. /\ pc'[p] = "wagain" /\ u'[p] = c /\ \A q \in Proc : q # p => pc'[q] = pc[q] /\ u'[q] = u[q]
    BY <2>1 DEF TypeOK
  <2> QED BY <1>1, <1>2, <2>1, <2>2, <2>3
<1>3. CASE ~(~err /\ u[p].usave > 0)
  <2>1. ip' = Released(done) /\ Return(p)
    BY <1>3 DEF WriteDone
  <2> HIDE DEF done
  <2>2. ip'.size = i.size /\ ip'.frptr = i.frptr /\ ip'.fwptr = o
    BY <1>1, <2>1, ReleasedType
  <2>3. /\ pc'[p] = "open" /\ u'[p].mode = u[p].mode
        /\ \A q \in Proc : q # p => pc'[q] = pc[q] /\ u'[q] = u[q]
    BY <2>1, ReturnType DEF TypeOK
  <2> QED BY <2>2, <2>3
<1> QED BY <1>2, <1>3

(* What a block of writei does when its copy does not fail: n bytes are    *)
(* added, and what was in the block stays, or nobody may want it.          *)
Puts(p, n) ==
  LET on == u[p].offset % BSIZE
      b == u[p].offset \div BSIZE
      o == Wrap(u[p].offset + n)
  IN /\ n <= u[p].count /\ on + n <= BSIZE
     /\ ip'.size = ip.size + n /\ ip'.frptr = ip.frptr /\ serial' = (serial + n) % Rounds
     /\ faddr' = faddr \cup {b} /\ disk' = [disk EXCEPT ![b] = Blank] /\ UNCHANGED <<faults, broken>>
     /\ \E old : /\ old = Contents(b) \/ b \notin faddr \/ n = BSIZE \/ (on = 0 /\ ip.size < PIPSIZ - BSIZE)
                 /\ cache' = [cache EXCEPT ![b] =
                      [in |-> TRUE, dirty |-> TRUE,
                       bytes |-> Overwritten(old, on, n, [k \in 1..n |-> (serial + k - 1) % Rounds])]]
     /\ pc'[p] \in {"write", "open", "wagain"} /\ u'[p].mode = u[p].mode
     /\ \A q \in Proc : q # p => pc'[q] = pc[q] /\ u'[q] = u[q]
     /\ pc'[p] = "write" =>
          /\ u'[p].offset = o /\ u'[p].count = u[p].count - n /\ u'[p].moved = u[p].moved + n
          /\ u'[p].asked = u[p].asked /\ u'[p].usave = u[p].usave
     /\ pc'[p] # "write" => n = u[p].count /\ ip'.fwptr = o
     /\ pc'[p] = "wagain" => u[p].usave > 0 /\ u'[p].asked = u[p].asked

LEMMA WriteBlockPuts ==
  ASSUME IInv, NEW p \in Proc, WriteBlock(p, FALSE)
  PROVE  \E n \in 0..PIPSIZ : Puts(p, n)
<1> DEFINE on == u[p].offset % BSIZE
           b == u[p].offset \div BSIZE
           n == Min({BSIZE - on, u[p].count})
           fresh == b \notin faddr
           old == IF fresh \/ (NoRead(on, n) /\ ~cache[b].in) THEN Blank ELSE Contents(b)
           new == Overwritten(old, on, n, [k \in 1..n |-> (serial + k - 1) % Rounds])
           i == [ip EXCEPT !.size = @ + n]
           offset == Wrap(u[p].offset + n)
<1>1. /\ pc[p] = "write" /\ UNCHANGED <<faults, broken>>
      /\ serial' = (serial + n) % Rounds /\ faddr' = faddr \cup {b} /\ disk' = [disk EXCEPT ![b] = Blank]
      /\ cache' = [cache EXCEPT ![b] = [in |-> TRUE, dirty |-> TRUE, bytes |-> new]]
  BY DEF WriteBlock, At
<1>2. /\ ip \in Inode /\ u[p] \in Call /\ u[p].offset \in Offset /\ u[p].count \in Nat /\ ip.size \in 0..PIPSIZ
      /\ u[p].moved \in Nat /\ ip.size + u[p].count <= PIPSIZ
  BY <1>1, Sizes DEF IInv, TypeOK, Call, Inode, Offset, Fits
<1>3. on \in 0..BSIZE-1 /\ u[p].offset - on + BSIZE <= PIPSIZ /\ u[p].offset \in Nat
  BY <1>2, Blocks
<1>4. n \in 0..PIPSIZ /\ n <= u[p].count /\ n <= BSIZE - on
  <2>1. BSIZE - on \in Nat /\ u[p].count \in Nat /\ u[p].count <= PIPSIZ
    BY <1>2, <1>3, Sizes
  <2>2. n \in {BSIZE - on, u[p].count} /\ n <= BSIZE - on /\ n <= u[p].count
    BY <2>1, MinTwo
  <2> HIDE DEF n
  <2> QED BY <2>1, <2>2, Sizes
<1>5. old = Contents(b) \/ b \notin faddr \/ n = BSIZE \/ (on = 0 /\ ip.size < PIPSIZ - BSIZE)
  BY DEF NoRead
<1>6. CASE u[p].count = n
  <2>1. WriteDone(p, i, offset, FALSE)
    BY <1>6 DEF WriteBlock
  <2> HIDE DEF on, b, n, old
  <2>2. offset \in 0..PIPSIZ-1 /\ ip.size + n \in 0..PIPSIZ /\ on + n <= BSIZE
    BY <1>2, <1>3, <1>4, Sizes DEF Wrap
  <2>3. i \in Inode /\ i.size = ip.size + n /\ i.frptr = ip.frptr
    <3> DEFINE s == ip.size + n
    <3> HIDE DEF s
    <3>1. [ip EXCEPT !.size = s] \in Inode /\ [ip EXCEPT !.size = s].size = s /\ [ip EXCEPT !.size = s].frptr = ip.frptr
      BY <1>2, <2>2 DEF Inode, s
    <3> QED BY <3>1 DEF s
  <2> HIDE DEF i, offset
  <2>4. /\ ip'.size = ip.size + n /\ ip'.frptr = ip.frptr /\ ip'.fwptr = offset
        /\ pc'[p] \in {"open", "wagain"} /\ u'[p].mode = u[p].mode
        /\ pc'[p] = "wagain" => u[p].usave > 0 /\ u'[p].asked = u[p].asked
        /\ \A q \in Proc : q # p => pc'[q] = pc[q] /\ u'[q] = u[q]
    BY <2>1, <2>2, <2>3, WriteDonePointers DEF IInv
  <2>5. Puts(p, n)
    BY <1>1, <1>4, <1>5, <1>6, <2>2, <2>4 DEF Puts, on, b, offset
  <2> QED BY <1>4, <2>5
<1>7. CASE u[p].count # n
  <2> DEFINE c == [u[p] EXCEPT !.offset = offset, !.count = @ - n, !.moved = @ + n]
  <2>1. /\ ip' = i /\ u' = [u EXCEPT ![p] = c] /\ UNCHANGED pc
    BY <1>2, <1>7 DEF WriteBlock, IInv, TypeOK, Call
  <2> HIDE DEF on, b, n, old, offset
  <2>2. /\ c.offset = offset /\ c.count = u[p].count - n /\ c.moved = u[p].moved + n /\ c.mode = u[p].mode
        /\ c.asked = u[p].asked /\ c.usave = u[p].usave
    BY <1>2 DEF Call
  <2> HIDE DEF c
  <2>3. u'[p] = c /\ \A q \in Proc : q # p => u'[q] = u[q]
    BY <2>1 DEF IInv, TypeOK
  <2>4. ip'.size = ip.size + n /\ ip'.frptr = ip.frptr
    BY <1>2, <2>1 DEF Inode
  <2>5. on + n <= BSIZE /\ pc'[p] = "write" /\ \A q \in Proc : pc'[q] = pc[q]
    BY <1>1, <1>3, <1>4, <2>1, Sizes
  <2>6. Puts(p, n)
    BY <1>1, <1>4, <1>5, <2>2, <2>3, <2>4, <2>5 DEF Puts, on, b, offset
  <2> QED BY <1>4, <2>6
<1> QED BY <1>6, <1>7

(* The bytes that were there stay.                                         *)
LEMMA PutsHeld ==
  ASSUME IInv, NEW p \in Proc, NEW n \in 0..PIPSIZ, Puts(p, n), NEW o \in Offset, NEW x, Held(o, x),
         ~(o >= u[p].offset /\ o < u[p].offset + n),
         o \div BSIZE = u[p].offset \div BSIZE =>
           ~(u[p].offset % BSIZE = 0 /\ ip.size < PIPSIZ - BSIZE)
  PROVE  Held(o, x)'
<1>1. cache \in [Blk -> Buffer] /\ disk \in [Blk -> Bytes]
  BY DEF IInv, TypeOK
<1> PICK f \in Offset : f = u[p].offset
  BY DEF IInv, TypeOK, Call, Offset
<1> DEFINE on == f % BSIZE
           b == f \div BSIZE
           k == o % BSIZE
<1>2. /\ o \div BSIZE \in Blk /\ b \in Blk /\ k \in 0..BSIZE-1 /\ on \in 0..BSIZE-1
      /\ o \in Nat /\ f \in Nat
  BY Blocks
<1>3. PICK old : /\ old = Contents(b) \/ b \notin faddr \/ n = BSIZE \/ (on = 0 /\ ip.size < PIPSIZ - BSIZE)
                 /\ cache' = [cache EXCEPT ![b] =
                      [in |-> TRUE, dirty |-> TRUE,
                       bytes |-> Overwritten(old, on, n, [j \in 1..n |-> (serial + j - 1) % Rounds])]]
  BY DEF Puts
<1>4. faddr' = faddr \cup {b} /\ on + n <= BSIZE
  BY DEF Puts
<1> HIDE DEF b
<1>5. CASE o \div BSIZE = b
  <2>1. o - f = k - on
    BY <1>5, SameBlock DEF b
  <2>2. k \notin on..on + n - 1
    BY <1>2, <2>1
  <2>3. n # BSIZE
    BY <1>2, <1>4, <2>2, Sizes
  <2>4. Contents(b)[k] = x /\ b \in faddr
    BY <1>5 DEF Held
  <2>5. old = Contents(b)
    BY <1>3, <1>5, <2>3, <2>4 DEF b
  <2> DEFINE new == Overwritten(old, on, n, [j \in 1..n |-> (serial + j - 1) % Rounds])
  <2>6. new[k] = x
    BY <1>2, <2>2, <2>4, <2>5 DEF Overwritten
  <2> HIDE DEF k, on, new
  <2>7. cache'[b] = [in |-> TRUE, dirty |-> TRUE, bytes |-> new]
    BY <1>1, <1>2, <1>3 DEF new
  <2>8. Contents(b)' = new /\ cache'[b].in /\ cache'[b].dirty
    BY <2>7 DEF Contents
  <2> QED BY <1>4, <1>5, <2>4, <2>6, <2>8 DEF Held, k
<1>6. CASE o \div BSIZE # b
  <2>1. disk'[o \div BSIZE] = disk[o \div BSIZE]
    BY <1>1, <1>2, <1>6 DEF Puts, b
  <2> QED BY <1>1, <1>2, <1>3, <1>4, <1>6, <2>1 DEF Held, Contents
<1> QED BY <1>5, <1>6

(* And the new ones are there, with their numbers.                         *)
LEMMA PutsNew ==
  ASSUME IInv, NEW p \in Proc, NEW n \in 0..PIPSIZ, Puts(p, n), NEW o \in Offset,
         o >= u[p].offset, o < u[p].offset + n
  PROVE  \E x : x = (serial + (o - u[p].offset)) % Rounds /\ Held(o, x)'
<1>1. cache \in [Blk -> Buffer]
  BY DEF IInv, TypeOK
<1> PICK f \in Offset : f = u[p].offset
  BY DEF IInv, TypeOK, Call, Offset
<1> DEFINE on == f % BSIZE
           b == f \div BSIZE
           k == o % BSIZE
<1>2. /\ b \in Blk /\ k \in 0..BSIZE-1 /\ on \in 0..BSIZE-1 /\ o \in Nat /\ f \in Nat
  BY Blocks
<1>3. PICK old : cache' = [cache EXCEPT ![b] =
                      [in |-> TRUE, dirty |-> TRUE,
                       bytes |-> Overwritten(old, on, n, [j \in 1..n |-> (serial + j - 1) % Rounds])]]
  BY DEF Puts
<1>4. faddr' = faddr \cup {b} /\ on + n <= BSIZE
  BY DEF Puts
<1>5. o \div BSIZE = b /\ o - f = k - on
  <2>1. o >= f - on /\ o < f - on + BSIZE
    BY <1>2, <1>4, Sizes
  <2>2. o \div BSIZE = f \div BSIZE
    BY <2>1, SameBlock
  <2> QED BY <2>2, SameBlock
<1> HIDE DEF b
<1>6. k \in on..on + n - 1 /\ k - on + 1 \in 1..n
  BY <1>2, <1>5
<1> PICK x : x = (serial + (o - f)) % Rounds
  OBVIOUS
<1> DEFINE w == [j \in 1..n |-> (serial + j - 1) % Rounds]
           new == Overwritten(old, on, n, w)
<1>7. w[k - on + 1] = x
  <2>1. serial \in Nat
    BY Sizes DEF IInv, TypeOK, Rounds
  <2>2. serial + (k - on + 1) - 1 = serial + (o - f)
    BY <1>2, <1>5, <2>1
  <2> QED BY <1>6, <2>2
<1> HIDE DEF w
<1>8. new[k] = x
  BY <1>2, <1>6, <1>7 DEF Overwritten
<1> HIDE DEF k, on, new
<1>9. cache'[b] = [in |-> TRUE, dirty |-> TRUE, bytes |-> new]
  BY <1>1, <1>2, <1>3 DEF new, w
<1>10. Contents(b)' = new /\ cache'[b].in /\ cache'[b].dirty
  BY <1>9 DEF Contents
<1>11. Held(o, x)'
  BY <1>4, <1>5, <1>8, <1>10 DEF Held, k
<1> QED BY <1>11

LEMMA PutsLaid ==
  ASSUME IInv, NEW p \in Proc, pc[p] = "write", NEW n \in 0..PIPSIZ, Puts(p, n), NEW f \in Offset,
         u[p].offset = After(f, ip.size), Laid(f)
  PROVE  Laid(f)' /\ Wrap(u[p].offset + n) = After(f, ip.size + n)
<1>1. /\ ip.size \in 0..PIPSIZ /\ ip.size + n <= PIPSIZ /\ n \in Nat /\ ip'.size = ip.size + n
      /\ serial \in 0..Rounds-1 /\ serial' = (serial + n) % Rounds
  <2>1. /\ ip.size \in 0..PIPSIZ /\ ip.size \in Nat /\ serial \in 0..Rounds-1 /\ u[p].count \in Nat
        /\ ip.size + u[p].count <= PIPSIZ
    BY Sizes DEF IInv, TypeOK, Inode, Call, Fits
  <2>2. n <= u[p].count /\ ip'.size = ip.size + n /\ serial' = (serial + n) % Rounds
    BY DEF Puts
  <2> QED BY <2>1, <2>2, Sizes
<1> PICK e \in Offset : e = u[p].offset
  BY DEF IInv, TypeOK, Call, Offset
<1>2. e \in Nat /\ e % BSIZE \in 0..BSIZE-1 /\ e - (e % BSIZE) + BSIZE <= PIPSIZ /\ (e % BSIZE) + n <= BSIZE
  BY Blocks DEF Puts
<1>3. e + n <= PIPSIZ
  BY <1>1, <1>2, Sizes
<1>4. Wrap(e + n) = After(f, ip.size + n)
  BY <1>1, <1>3, EndMoves
<1>5. /\ \A d \in 0..PIPSIZ : n + d <= PIPSIZ => Number(serial', n + d) = Number(serial, d)
      /\ \A d \in 1..n : Number(serial', d) = (serial + n - d) % Rounds
  BY <1>1, NumberMoves
<1>6. ASSUME NEW o \in Offset, Rel(f, o) < ip.size + n
      PROVE  \E x : x = Number(serial', (ip.size + n) - Rel(f, o)) /\ Held(o, x)'
  <2>1. IF o >= e /\ o < e + n THEN Rel(f, o) = ip.size + (o - e) ELSE Rel(f, o) < ip.size
    BY <1>1, <1>3, <1>6, Added
  <2>2. Rel(f, o) \in Nat /\ o \in Nat
    BY RelType DEF Offset
  <2>3. CASE o >= e /\ o < e + n
    <3>1. PICK x : x = (serial + (o - e)) % Rounds /\ Held(o, x)'
      BY <2>3, PutsNew
    <3> DEFINE d == (ip.size + n) - Rel(f, o)
    <3>2. d \in 1..n /\ serial + n - d = serial + (o - e)
      BY <1>1, <1>2, <2>1, <2>2, <2>3, Sizes DEF Rounds
    <3> HIDE DEF d
    <3>3. Number(serial', d) = x
      BY <1>5, <3>1, <3>2
    <3> QED BY <3>1, <3>3 DEF d
  <2>4. CASE ~(o >= e /\ o < e + n)
    <3> DEFINE d == ip.size - Rel(f, o)
    <3>1. d \in 0..PIPSIZ /\ n + d <= PIPSIZ /\ n + d = (ip.size + n) - Rel(f, o) /\ Rel(f, o) < ip.size
      BY <1>1, <2>1, <2>2, <2>4, Sizes
    <3> HIDE DEF d
    <3>2. PICK x : x = Number(serial, d) /\ x = Number(serial', n + d)
      BY <1>5, <3>1
    <3>3. Held(o, x)
      BY <3>1, <3>2 DEF Laid, d
    <3>4. ASSUME o \div BSIZE = e \div BSIZE, e % BSIZE = 0, ip.size < PIPSIZ - BSIZE
          PROVE  FALSE
      <4>1. PICK k \in 0..BSIZE-1 : k = o % BSIZE
        BY Blocks
      <4>2. o - e = k
        <5>1. o - e = k - (e % BSIZE)
          BY <3>4, <4>1, SameBlock
        <5> QED BY <3>4, <4>1, <5>1, Sizes
      <4>3. o >= e /\ o < e + BSIZE
        BY <1>2, <2>2, <4>1, <4>2, Sizes
      <4>4. Rel(f, o) >= ip.size
        BY <1>1, <3>4, <4>3, NothingThere
      <4> QED BY <1>1, <2>2, <3>1, <4>4
    <3>5. Held(o, x)'
      BY <2>4, <3>3, <3>4, PutsHeld
    <3> QED BY <3>1, <3>2, <3>5
  <2> QED BY <2>3, <2>4
<1>7. Laid(f)'
  <2>1. \A o \in Offset : Rel(f, o) < ip'.size =>
          \E x : x = Number(serial', ip'.size - Rel(f, o)) /\ Held(o, x)'
    BY <1>1, <1>6
  <2> QED BY <2>1, LaidNext
<1> QED BY <1>4, <1>7

LEMMA PutsFilled ==
  ASSUME IInv, QInv, NEW p \in Proc, pc[p] = "write", NEW n \in 0..PIPSIZ, Puts(p, n)
  PROVE  Filled'
<1>1. /\ ip.size \in Nat /\ n \in Nat /\ ip.size + n <= PIPSIZ /\ ip'.size = ip.size + n /\ ip'.frptr = ip.frptr
      /\ serial \in 0..Rounds-1 /\ serial' = (serial + n) % Rounds /\ broken' = broken
      /\ \A q \in Proc : q # p => pc'[q] = pc[q] /\ u'[q] = u[q]
      /\ u[p].moved \in Nat /\ PIPSIZ \in Nat
  <2>1. /\ ip.size \in Nat /\ n \in Nat /\ serial \in 0..Rounds-1 /\ u[p].moved \in Nat /\ u[p].count \in Nat
        /\ ip.size + u[p].count <= PIPSIZ
    BY Sizes DEF IInv, TypeOK, Inode, Call, Fits
  <2>2. /\ n <= u[p].count /\ ip'.size = ip.size + n /\ ip'.frptr = ip.frptr /\ serial' = (serial + n) % Rounds
        /\ broken' = broken /\ \A q \in Proc : q # p => pc'[q] = pc[q] /\ u'[q] = u[q]
    BY DEF Puts
  <2> QED BY <2>1, <2>2, Sizes
<1>2. /\ \A q \in Proc : q # p => pc[q] \notin {"read", "write"} /\ pc'[q] \notin {"read", "write"}
      /\ pc'[p] \in {"write", "open", "wagain"}
  BY <1>1, Alone DEF Hold, Puts
<1> SUFFICES ASSUME NEW f \in Offset, Begins(f), Ends(f), Laid(f)
             PROVE  Begins(f)' /\ Ends(f)' /\ Laid(f)'
  BY <1>1 DEF QInv, Filled
<1>3. /\ u[p].offset = After(f, ip.size) /\ u[p].moved <= ip.size /\ (u[p].moved = ip.size => serial = ip.size)
      /\ ip.frptr = f
  BY <1>2 DEF Begins, Ends
<1>4. Laid(f)' /\ Wrap(u[p].offset + n) = After(f, ip.size + n)
  BY <1>3, PutsLaid
<1>5. Begins(f)'
  BY <1>1, <1>2, <1>3 DEF Begins
<1>6. After(f, ip.size)' = After(f, ip.size + n)
  BY <1>1 DEF After
<1>7. serial = ip.size => serial' = ip.size + n
  <2>1. ip.size + n < Rounds /\ ip.size \in 0..Rounds-1 /\ n \in 0..PIPSIZ
    BY <1>1, Sizes DEF Rounds
  <2> QED BY <1>1, <2>1, NumberMoves
<1>8. CASE pc'[p] = "write"
  <2>1. u'[p].offset = Wrap(u[p].offset + n) /\ u'[p].moved = u[p].moved + n
    BY <1>8 DEF Puts
  <2>2. u'[p].moved <= ip'.size /\ (u'[p].moved = ip'.size => serial' = ip'.size)
    BY <1>1, <1>3, <1>7, <2>1
  <2>3. Ends(f)'
    BY <1>2, <1>4, <1>6, <1>8, <2>1, <2>2 DEF Ends
  <2> QED BY <1>4, <1>5, <2>3
<1>9. CASE pc'[p] # "write"
  <2>1. ip'.fwptr = Wrap(u[p].offset + n)
    BY <1>9 DEF Puts
  <2>2. ip'.size = 0 => serial' = 0
    BY <1>1, <1>3, <1>7
  <2>3. Ends(f)'
    BY <1>2, <1>4, <1>6, <1>9, <2>1, <2>2 DEF Ends
  <2> QED BY <1>4, <1>5, <2>3
<1> QED BY <1>8, <1>9

(* What p has written is shown, m bytes of it.                             *)
LEMMA QueueEnters ==
  ASSUME IInv, IInv', QInv, Filled', NEW p \in Proc, pc[p] = "write", NEW n \in 0..PIPSIZ, NEW m \in 0..PIPSIZ,
         pc'[p] # "write", \A q \in Proc : q # p => pc'[q] = pc[q],
         m = u[p].moved + n, ip'.size = ip.size + n, ip.size + n <= PIPSIZ,
         serial' = (serial + n) % Rounds, broken' = broken,
         m = u[p].asked \/ u[p].asked > PIPSIZ \/ faults'.space > faults.space
  PROVE  Queue!QueueNext
<1> SUFFICES ASSUME ~broken PROVE Queue!QueueNext
  BY DEF Queue!QueueNext
<1>1. \A q \in Proc : pc'[q] # "write"
  BY Alone DEF Hold
<1>2. ip.size \in 0..PIPSIZ /\ ip.size \in Nat /\ serial \in 0..Rounds-1 /\ u[p].moved \in Nat
  BY Sizes DEF IInv, TypeOK, Inode, Call
<1>3. u[p].moved <= ip.size /\ (u[p].moved = ip.size => serial = ip.size)
  BY DEF QInv, Filled, Ends
<1> DEFINE v == ip.size - u[p].moved
<1>4. Visible = v /\ Visible' = ip.size + n
  BY <1>1, VisibleIs, VisibleNext
<1>5. Stored = Line(v, ip.size, serial) /\ Stored' = Line(ip.size + n, ip.size + n, serial')
  BY <1>4, StoredIs, StoredNext DEF QInv
<1>6. /\ serial' \in 0..Rounds-1 /\ (ip.size + n < Rounds => (serial = ip.size => serial' = ip.size + n))
      /\ ip.size + n < Rounds
  <2>1. ip.size + n < Rounds
    BY <1>2, Sizes DEF Rounds
  <2> QED BY <1>2, <2>1, NumberMoves
<1> PICK z \in 0..PIPSIZ : z = ip.size + n
  BY <1>2, Sizes
<1> PICK t \in 0..Rounds-1 : t = serial'
  BY <1>6
<1>7. v \in 0..ip.size /\ z - m = v /\ m \in 0..z /\ (m = z => t = z) /\ v <= PIPSIZ
  BY <1>2, <1>3, <1>6, Sizes
<1>8. Stored = Line(z - m, z, t)
  <2>1. Line(v, ip.size + n, (serial + n) % Rounds) = Line(v, ip.size, serial)
    <3> HIDE DEF v
    <3> QED BY <1>2, <1>7, LineKept
  <2> QED BY <1>5, <1>7, <2>1
<1>9. Len(Stored) = z - m /\ Stored' =
        LET first == IF Stored = <<>> THEN 0 ELSE Stored[Len(Stored)] + 1
        IN Stored \o [i \in 1..m |-> (first + i - 1) % Rounds]
  <2>1. LET q == Line(z - m, z, t)
            first == IF q = <<>> THEN 0 ELSE q[Len(q)] + 1
        IN Len(q) = z - m /\ Line(z, z, t) = q \o [i \in 1..m |-> (first + i - 1) % Rounds]
    BY <1>7, LineEntered
  <2>2. Stored' = Line(z, z, t)
    BY <1>5
  <2> QED BY <1>8, <2>1, <2>2
<1>10. CASE m = 0
  <2>1. n = 0 /\ u[p].moved = 0 /\ ip'.size = ip.size /\ Visible' = Visible
    BY <1>2, <1>4, <1>10
  <2>2. serial' = serial
    BY <1>2, <2>1, Sizes DEF Rounds
  <2> QED BY <2>1, <2>2, QueueStays
<1>11. CASE m # 0
  <2>1. m <= PIPSIZ - Len(Stored) /\ m \in 1..PIPSIZ /\ p \in UsesIt
    <3>1. Len(Stored) = z - m
      BY <1>9
    <3>2. m <= PIPSIZ - (z - m) /\ m \in 1..PIPSIZ
      BY <1>11, Sizes
    <3>3. p \in UsesIt
      BY DEF UsesIt
    <3> QED BY <3>1, <3>2, <3>3
  <2>2. Queue!Enter(p, m)
    BY <1>9, <2>1 DEF Queue!Enter
  <2> QED BY <2>1, <2>2 DEF Queue!QueueNext
<1> QED BY <1>10, <1>11

(* A write shows its bytes at its end, and none before.                    *)
LEMMA WriteBlockKeeps ==
  ASSUME IInv, IInv', QInv, NEW p \in Proc, NEW fails \in BOOLEAN, WriteBlock(p, fails)
  PROVE  QInv' /\ Queue!QueueNext
<1>1. pc[p] = "write"
  BY DEF WriteBlock, At
<1>2. CASE fails
  <2> DEFINE n == Min({BSIZE - (u[p].offset % BSIZE), u[p].count})
             i == [ip EXCEPT !.size = @ + n]
  <2>1. WriteDone(p, i, u[p].offset, TRUE) /\ Fault("copy") /\ broken' = TRUE
    BY <1>2 DEF WriteBlock
  <2>2. Return(p)
    BY <2>1 DEF WriteDone
  <2>3. QInv'
    BY <1>1, <2>1, <2>2, ReturnAsked, FaultKept DEF QInv, Filled
  <2> QED BY <2>1, <2>3 DEF Queue!QueueNext
<1>3. CASE ~fails
  <2>1. PICK n \in 0..PIPSIZ : Puts(p, n)
    BY <1>3, WriteBlockPuts
  <2>2. Filled'
    BY <1>1, <2>1, PutsFilled
  <2>3. /\ n <= u[p].count /\ ip'.size = ip.size + n /\ serial' = (serial + n) % Rounds /\ UNCHANGED <<faults, broken>>
        /\ pc'[p] \in {"write", "open", "wagain"} /\ u'[p].mode = u[p].mode
        /\ \A q \in Proc : q # p => pc'[q] = pc[q] /\ u'[q] = u[q]
    BY <2>1 DEF Puts
  <2>4. pc'[p] = "write" => /\ u'[p].count = u[p].count - n /\ u'[p].moved = u[p].moved + n
                            /\ u'[p].asked = u[p].asked /\ u'[p].usave = u[p].usave
    BY <2>1 DEF Puts
  <2>5. /\ pc'[p] # "write" => n = u[p].count
        /\ pc'[p] = "wagain" => u[p].usave > 0 /\ u'[p].asked = u[p].asked
    BY <2>1 DEF Puts
  <2>6. /\ ip.size \in 0..PIPSIZ /\ ip.size \in Nat /\ n \in Nat /\ u[p].count \in Nat /\ u[p].moved \in Nat
        /\ u[p].asked \in Nat /\ PIPSIZ \in Nat /\ serial \in 0..Rounds-1
        /\ ip.size + u[p].count <= PIPSIZ /\ u[p].moved + u[p].count <= PIPSIZ
    BY <1>1, Sizes DEF IInv, TypeOK, Inode, Call, Fits
  <2>7. Asks'
    <3>1. u[p].asked <= PIPSIZ => u[p].moved + u[p].count = u[p].asked /\ u[p].usave = 0
      BY <1>1 DEF QInv, Asks, Asked
    <3>2. u[p].mode.rd \/ u[p].mode.wr
      BY <1>1 DEF QInv, Asks, Asked
    <3>3. Asked(p)'
      BY <2>3, <2>4, <2>5, <2>6, <3>1, <3>2 DEF Asked
    <3> QED BY <2>3, <3>3, AsksKept DEF QInv
  <2>8. QInv'
    BY <2>2, <2>3, <2>7 DEF QInv
  <2> SUFFICES ASSUME ~broken PROVE Queue!QueueNext
    BY <2>3, <2>8 DEF Queue!QueueNext
  <2>9. CASE pc'[p] = "write"
    <3>1. Visible = ip.size - u[p].moved /\ Visible' = (ip.size + n) - (u[p].moved + n)
      BY <1>1, <2>3, <2>4, <2>9, VisibleIs, VisibleNext
    <3>2. Visible' = Visible
      BY <2>6, <3>1
    <3>3. Stored = Line(Visible, ip.size, serial) /\ Visible \in 0..ip.size
      BY StoredIs DEF QInv
    <3>4. Stored' = Line(Visible, ip.size + n, (serial + n) % Rounds)
      BY <2>2, <2>3, <3>2, StoredNext
    <3>5. ip.size + n <= PIPSIZ
      BY <2>3, <2>6
    <3>6. Stored' = Stored
      BY <2>6, <3>3, <3>4, <3>5, LineKept
    <3> QED BY <3>6 DEF Queue!QueueNext
  <2>10. CASE pc'[p] # "write"
    <3> DEFINE m == u[p].moved + n
    <3>1. n = u[p].count /\ m \in 0..PIPSIZ /\ ip.size + n <= PIPSIZ
      BY <2>5, <2>6, <2>10
    <3>2. m = u[p].asked \/ u[p].asked > PIPSIZ
      BY <1>1, <2>6, <3>1 DEF QInv, Asks, Asked
    <3> HIDE DEF m
    <3>3. m = u[p].moved + n
      BY DEF m
    <3> QED BY <1>1, <2>2, <2>3, <2>10, <3>1, <3>2, <3>3, QueueEnters
  <2> QED BY <2>9, <2>10
<1> QED BY <1>2, <1>3

(* A block that cannot be read before it is written loses what is written. *)
LEMMA WriteFailsKeeps ==
  ASSUME IInv, IInv', QInv, NEW p \in Proc, WriteFails(p)
  PROVE  QInv' /\ Queue!QueueNext
<1>1. pc[p] = "write" /\ Fault("disk") /\ broken' = TRUE
  BY DEF WriteFails, At
<1>2. Return(p)
  BY DEF WriteFails, WriteDone
<1>3. QInv'
  BY <1>1, <1>2, ReturnAsked, FaultKept DEF QInv, Filled
<1> QED BY <1>1, <1>3 DEF Queue!QueueNext

(* A write the disk has no space for shows what it has written.            *)
LEMMA WriteNoSpaceKeeps ==
  ASSUME IInv, IInv', QInv, NEW p \in Proc, WriteNoSpace(p)
  PROVE  QInv' /\ Queue!QueueNext
<1>1. /\ pc[p] = "write" /\ WriteDone(p, ip, u[p].offset, TRUE) /\ Fault("space")
      /\ UNCHANGED <<blocks, broken>> /\ UNCHANGED <<faddr, cache, disk, serial>>
  BY DEF WriteNoSpace, At, blocks
<1>2. /\ ip \in Inode /\ u[p].offset \in 0..PIPSIZ-1 /\ ip.size \in Nat /\ ip.size <= PIPSIZ
      /\ u[p].moved \in 0..PIPSIZ /\ u[p].moved \in Nat /\ serial \in 0..Rounds-1
  BY Sizes DEF IInv, TypeOK, Call, Inode
<1>3. /\ ip'.size = ip.size /\ ip'.frptr = ip.frptr /\ ip'.fwptr = u[p].offset
      /\ pc'[p] \in {"open", "wagain"} /\ u'[p].mode = u[p].mode
      /\ \A q \in Proc : q # p => pc'[q] = pc[q] /\ u'[q] = u[q]
  BY <1>1, <1>2, WriteDonePointers DEF IInv
<1>4. Return(p)
  BY <1>1 DEF WriteDone
<1>5. /\ \A q \in Proc : q # p => pc[q] \notin {"read", "write"} /\ pc'[q] \notin {"read", "write"}
  BY <1>1, <1>3, Alone DEF Hold
<1>6. Filled'
  <2>1. \A f \in Offset : Begins(f) /\ Ends(f) /\ Laid(f) => Begins(f)' /\ Ends(f)' /\ Laid(f)'
    <3> TAKE f \in Offset
    <3> HAVE Begins(f) /\ Ends(f) /\ Laid(f)
    <3>1. /\ u[p].offset = After(f, ip.size) /\ ip.frptr = f
          /\ u[p].moved <= ip.size /\ (u[p].moved = ip.size => serial = ip.size)
      BY <1>1, <1>5 DEF Begins, Ends
    <3>2. Begins(f)'
      BY <1>3, <1>5, <3>1 DEF Begins
    <3>3. ip.size = 0 => serial = 0
      BY <1>2, <3>1
    <3>4. Ends(f)'
      BY <1>1, <1>3, <1>5, <3>1, <3>3 DEF Ends, After
    <3> QED BY <1>1, <1>3, <3>2, <3>4, LaidKept
  <2> QED BY <1>1, <2>1 DEF QInv, Filled
<1>7. faults' \in [copy : Nat, space : Nat, disk : Nat] /\ faults'.space > faults.space
  BY <1>1, FaultKept DEF QInv
<1>8. QInv'
  BY <1>1, <1>4, <1>6, <1>7, ReturnAsked DEF QInv
<1>9. Queue!QueueNext
  <2>1. 0 \in 0..PIPSIZ /\ u[p].moved = u[p].moved + 0 /\ ip'.size = ip.size + 0 /\ ip.size + 0 <= PIPSIZ
    BY <1>2, <1>3, Sizes
  <2>2. serial' = (serial + 0) % Rounds
    <3>1. serial + 0 < Rounds /\ 0 \in 0..PIPSIZ
      BY <1>2, Sizes DEF Rounds
    <3> QED BY <1>1, <1>2, <3>1, NumberMoves
  <2> QED BY <1>1, <1>2, <1>3, <1>6, <1>7, <2>1, <2>2, QueueEnters
<1> QED BY <1>8, <1>9

-----------------------------------------------------------------------------
(* The last close throws the bytes away, when nobody has the FIFO open.    *)
LEMMA CloseKeeps ==
  ASSUME IInv, IInv', QInv, NEW p \in Proc, Close(p)
  PROVE  QInv' /\ Queue!QueueNext
<1> DEFINE m == u[p].mode
           i == Leaving(ip, m)
           wakew == m.rd /\ i.frcnt = 0 /\ ip.fiw
           waker == m.wr /\ i.fwcnt = 0 /\ ip.fir
           last == i.frcnt = 0 /\ i.fwcnt = 0
           a == i.fiw /\ ~wakew
           c == i.fir /\ ~waker
           s == IF last THEN 0 ELSE i.size
           r == IF last THEN 0 ELSE i.frptr
           w == IF last THEN 0 ELSE i.fwptr
<1>1. /\ pc[p] = "clock" /\ ~ip.lock /\ u' = [u EXCEPT ![p] = NoCall] /\ pc' = [pc EXCEPT ![p] = "idle"]
      /\ faults' = faults
  BY DEF Close, At, Goto
<1>2. /\ pc'[p] = "idle" /\ \A q \in Proc : q # p => pc'[q] = pc[q] /\ u'[q] = u[q]
  BY <1>1 DEF IInv, TypeOK
<1>3. i.size = ip.size /\ i.frptr = ip.frptr /\ i.fwptr = ip.fwptr /\ i \in Inode /\ i.frcnt \in Int /\ i.fwcnt \in Int
  <2> DEFINE x == ip.frcnt - (IF m.rd THEN 1 ELSE 0)
             y == ip.fwcnt - (IF m.wr THEN 1 ELSE 0)
  <2>1. ip \in Inode /\ x \in Int /\ y \in Int
    BY DEF IInv, TypeOK, Inode
  <2>2. i = [ip EXCEPT !.frcnt = x, !.fwcnt = y]
    BY DEF Leaving
  <2> HIDE DEF x, y, i
  <2>3. i \in Inode
    BY <2>1, <2>2 DEF Inode
  <2>4. i.size = ip.size /\ i.frptr = ip.frptr /\ i.fwptr = ip.fwptr
    BY <2>1, <2>2 DEF Inode
  <2>5. i.frcnt \in Int /\ i.fwcnt \in Int
    BY <2>3 DEF Inode
  <2> QED BY <2>3, <2>4, <2>5
<1>4. ip' = [i EXCEPT !.fiw = a, !.fir = c, !.size = s, !.frptr = r, !.fwptr = w]
  BY DEF Close
<1>5. last => faddr' = {} /\ serial' = 0 /\ broken' = FALSE
  BY DEF Close
<1>6. ~last => UNCHANGED <<blocks, broken>>
  BY DEF Close
<1> HIDE DEF i, a, c, s, r, w
<1>7. ip'.size = s /\ ip'.frptr = r /\ ip'.fwptr = w /\ ip'.frcnt = i.frcnt /\ ip'.fwcnt = i.fwcnt
  BY <1>3, <1>4 DEF Inode
<1>8. Asked(p)'
  BY <1>2 DEF Asked
<1>9. CASE last
  <2>1. ip'.size = 0 /\ ip'.frptr = 0 /\ ip'.fwptr = 0 /\ ip'.frcnt = 0 /\ ip'.fwcnt = 0
    BY <1>7, <1>9 DEF s, r, w
  <2>2. \A q \in Proc : pc'[q] \notin {"read", "write"}
    BY <1>1, <1>2, Alone DEF Hold
  <2>3. Begins(0)'
    BY <2>1, <2>2 DEF Begins
  <2>4. Ends(0)'
    BY <1>5, <1>9, <2>1, <2>2, Sizes DEF Ends, After
  <2>5. Laid(0)'
    <3>1. \A o \in Offset : ~(Rel(0, o) < 0)
      BY Sizes DEF Rel, Offset
    <3> QED BY <2>1, <3>1 DEF Laid, Rel
  <2>6. 0 \in Offset
    BY Sizes DEF Offset
  <2>7. Filled'
    BY <2>3, <2>4, <2>5, <2>6 DEF Filled
  <2>8. Asks'
    BY <1>2, <1>8, AsksKept DEF QInv
  <2>9. QInv'
    BY <1>1, <2>7, <2>8 DEF QInv
  <2>10. UsesIt' = {}
    <3> SUFFICES ASSUME NEW q \in UsesIt' PROVE FALSE
      OBVIOUS
    <3> DEFINE R == {x \in UsesIt : u[x].mode.rd}
               W == {x \in UsesIt : u[x].mode.wr}
    <3>1. q \in Proc /\ pc'[q] # "idle"
      BY DEF UsesIt
    <3>2. q \in R' \/ q \in W'
      BY <2>8, <3>1 DEF Asks, Asked, UsesIt
    <3>3. Cardinality(R') = 0 /\ Cardinality(W') = 0
      BY <2>1 DEF IInv, EndsCounted
    <3>4. R' \subseteq Proc /\ W' \subseteq Proc
      BY DEF UsesIt
    <3>5. IsFiniteSet(R') /\ IsFiniteSet(W')
      BY <3>4, ProcAssumption, FS_Subset
    <3> HIDE DEF R, W
    <3>6. R' = {} /\ W' = {}
      BY <3>3, <3>5, FS_EmptySet
    <3> QED BY <3>2, <3>6
  <2>11. Stored' = <<>>
    <3>1. Visible' \in 0..0 /\ Stored' = Line(Visible', ip'.size, serial')
      BY <1>5, <1>9, <2>1, <2>7, StoredNext
    <3> QED BY <3>1 DEF Line
  <2>12. Queue!Discard
    BY <2>10, <2>11 DEF Queue!Discard
  <2> QED BY <2>9, <2>12 DEF Queue!QueueNext
<1>10. CASE ~last
  <2>1. ip'.size = ip.size /\ ip'.frptr = ip.frptr /\ ip'.fwptr = ip.fwptr
    BY <1>3, <1>7, <1>10 DEF s, r, w
  <2> QED BY <1>1, <1>2, <1>6, <1>8, <1>10, <2>1, RestKeeps
<1> QED BY <1>9, <1>10

-----------------------------------------------------------------------------
(* The refinement.                                                         *)
LEMMA InitKeeps == ASSUME Init PROVE QInv /\ Queue!QueueInit
<1>1. ip.size = 0 /\ ip.frptr = 0 /\ ip.fwptr = 0 /\ serial = 0 /\ \A p \in Proc : pc[p] = "idle"
  BY DEF Init, Closed
<1>2. Filled
  <2>1. Begins(0) /\ Ends(0)
    BY <1>1, Sizes DEF Begins, Ends, After
  <2>2. Laid(0)
    BY <1>1, Sizes DEF Laid, Rel, Offset
  <2>3. 0 \in Offset
    BY Sizes DEF Offset
  <2> QED BY <2>1, <2>2, <2>3 DEF Filled
<1>3. Asks /\ faults \in [copy : Nat, space : Nat, disk : Nat]
  BY <1>1 DEF Init, Asks, Asked
<1>4. Stored = <<>>
  <2>1. Visible = 0
    BY <1>1 DEF Visible
  <2> QED BY <2>1 DEF Stored
<1>5. Queue!QueueInit
  BY <1>1, <1>4 DEF Init, Queue!QueueInit, UsesIt, NoCall
<1> QED BY <1>2, <1>3, <1>5 DEF QInv

LEMMA NextKeeps == ASSUME IInv, IInv', QInv, Next PROVE QInv' /\ Queue!QueueNext
<1>1. ASSUME NEW p \in Proc, Kernel(p) PROVE QInv' /\ Queue!QueueNext
  BY <1>1, AwaitLockKeeps, OpenWokenKeeps, ReadTestKeeps, ReadHoleKeeps, WriteTestKeeps, WriteNoSpaceKeeps,
     CloseKeeps, ReadBlockKeeps, WriteBlockKeeps, ReadFailsKeeps, WriteFailsKeeps DEF Kernel
<1>2. ASSUME NEW p \in Proc, CallClose(p) \/ Interrupt(p) PROVE QInv' /\ Queue!QueueNext
  BY <1>2, CallCloseKeeps, InterruptKeeps
<1>3. ASSUME NEW p \in Proc, NEW m \in Modes[p], Open(p, m) PROVE QInv' /\ Queue!QueueNext
  BY <1>3, OpenKeeps
<1>4. ASSUME NEW p \in Proc, NEW n \in Counts, CallRead(p, n) \/ CallWrite(p, n) PROVE QInv' /\ Queue!QueueNext
  BY <1>4, CallReadKeeps, CallWriteKeeps
<1>5. ASSUME NEW b \in Blk, Evict(b) \/ EvictFails(b) PROVE QInv' /\ Queue!QueueNext
  BY <1>5, EvictKeeps, EvictFailsKeeps
<1> QED BY <1>1, <1>2, <1>3, <1>4, <1>5 DEF Next

LEMMA StutterQueue == ASSUME UNCHANGED vars PROVE UNCHANGED Queue!queuevars
BY DEF vars, Queue!queuevars, Stored, Visible, Front, Contents, UsesIt

LEMMA SpecQInv == Spec => [](IInv /\ QInv)
<1>1. Init => IInv /\ QInv
  BY InitInv, InitKeeps
<1>2. IInv /\ QInv /\ [Next]_vars => IInv' /\ QInv'
  BY NextInv, NextKeeps, StutterKeeps
<1> QED BY <1>1, <1>2, PTL DEF Spec

(* The FIFO is the queue of PipeQueue, for any number of processes, blocks *)
(* and bytes and any counts of reads and writes: each read takes the next  *)
(* bytes, each write adds all it asks for at once when that can fit, and   *)
(* only the last close throws bytes away, until bytes are lost in a failed *)
(* copy to or from a user or a failed transfer of a block. Buffers that are *)
(* reused, blocks allocated or not, delayed writes given up, pointers that *)
(* wrap and reads broken off with b_resid set make no difference.          *)
THEOREM QueueCorrect == Spec => QueuePromise
<1>1. Init => Queue!QueueInit
  BY InitKeeps
<1>2. IInv /\ IInv' /\ QInv /\ [Next]_vars => [Queue!QueueNext]_Queue!queuevars
  BY NextKeeps, StutterQueue
<1>3. IInv /\ QInv /\ [Next]_vars => IInv'
  BY NextInv
<1> QED BY <1>1, <1>2, <1>3, SpecQInv, PTL DEF Spec, QueuePromise, Queue!QueueSpec
=============================================================================
