-------------------------- MODULE PacketDriverProof --------------------------
(***************************************************************************)
(* Proofs about the packet driver, for any number of sequence numbers, any *)
(* window that is at most half of it, any calls at either end and any loss *)
(* and damage of packets: what is written is read, once and in order.      *)
(***************************************************************************)
EXTENDS PacketDriver, FiniteSetTheorems, SequenceTheorems, WellFoundedInduction, TLAPS

-----------------------------------------------------------------------------
(* Sequence numbers: packet n carries Mod(n), and numbers less than MOD    *)
(* apart differ.                                                           *)
Mod(x) == x % MOD

LEMMA Sizes == /\ MOD \in Nat /\ WINDOWS \in Nat /\ WINDOWS > 0 /\ 2 * WINDOWS <= MOD /\ MOD > 1
               /\ Seqno = 0..MOD-1 /\ 0 \in Seqno
  BY WindowAssumption DEF Seqno

LEMMA Bounds == /\ GETRIES \in Nat /\ GETRIES > 0 /\ CONNODATA \in Nat /\ CONNODATA > 0 /\ MaxFaults \in Nat
                /\ PKMAXSTMSG \in Nat /\ PKMAXSTMSG > 0
<1>1. GETRIES \in Nat \ {0} /\ CONNODATA \in Nat \ {0} /\ PKMAXSTMSG \in Nat \ {0}
  BY BoundAssumption
<1> QED BY <1>1, BoundAssumption

LEMMA ModType == ASSUME NEW x \in Int PROVE Mod(x) \in Seqno /\ Mod(x) \in Int
  BY Sizes DEF Mod

LEMMA ModSame == ASSUME NEW x \in Seqno PROVE Mod(x) = x
  BY Sizes DEF Mod

LEMMA Quotient == ASSUME NEW x \in Int PROVE \E q \in Int : x = q * MOD + Mod(x)
<1>1. x = (x \div MOD) * MOD + (x % MOD) /\ x \div MOD \in Int
  BY Sizes
<1> QED BY <1>1 DEF Mod

LEMMA Remainder == ASSUME NEW q \in Int, NEW r \in Seqno PROVE Mod(q * MOD + r) = r
  BY Sizes DEF Mod

LEMMA ModShift == ASSUME NEW q \in Int, NEW x \in Int PROVE Mod(q * MOD + x) = Mod(x)
<1>1. PICK p \in Int : x = p * MOD + Mod(x)
  BY Quotient
<1>2. Mod(x) \in Seqno /\ Mod(x) \in Int
  BY ModType
<1>3. q * MOD + x = (q + p) * MOD + Mod(x)
  BY <1>1, <1>2, Sizes
<1> QED BY <1>2, <1>3, Remainder

LEMMA ModAdd == ASSUME NEW x \in Int, NEW y \in Int PROVE Mod(Mod(x) + y) = Mod(x + y)
<1>1. PICK p \in Int : x = p * MOD + Mod(x)
  BY Quotient
<1>2. Mod(x) \in Int
  BY ModType
<1>3. x + y = p * MOD + (Mod(x) + y) /\ Mod(x) + y \in Int
  BY <1>1, <1>2, Sizes
<1> QED BY <1>3, ModShift

LEMMA ModSub == ASSUME NEW x \in Int, NEW y \in Int PROVE Mod(x - Mod(y)) = Mod(x - y)
<1>1. PICK p \in Int : y = p * MOD + Mod(y)
  BY Quotient
<1>2. Mod(y) \in Int
  BY ModType
<1>3. x - Mod(y) = p * MOD + (x - y) /\ x - y \in Int
  BY <1>1, <1>2, Sizes
<1> QED BY <1>3, ModShift

LEMMA ModApart ==
  ASSUME NEW x \in Int, NEW y \in Int, Mod(x) = Mod(y), x - y < MOD, y - x < MOD
  PROVE  x = y
<1>1. PICK p \in Int : x = p * MOD + Mod(x)
  BY Quotient
<1>2. PICK q \in Int : y = q * MOD + Mod(y)
  BY Quotient
<1>3. Mod(x) \in Int
  BY ModType
<1>4. x - y = (p - q) * MOD
  BY <1>1, <1>2, <1>3, Sizes
<1>5. p - q < 1
  BY <1>4, Sizes
<1>6. q - p < 1
  BY <1>4, Sizes
<1> QED BY <1>1, <1>2, <1>5, <1>6, <1>3
(* The numbers a + 1, ... a + n modulo MOD are n different ones.           *)
Residues(a, n) == {Mod(a + i) : i \in 1..n}

LEMMA ResiduesCount ==
  ASSUME NEW a \in Int, NEW n \in 0..MOD
  PROVE  IsFiniteSet(Residues(a, n)) /\ Cardinality(Residues(a, n)) = n
<1> DEFINE f == [i \in 1..n |-> Mod(a + i)]
<1>1. \A i, j \in 1..n : Mod(a + i) = Mod(a + j) => i = j
  <2> SUFFICES ASSUME NEW i \in 1..n, NEW j \in 1..n, Mod(a + i) = Mod(a + j)
               PROVE  i = j
    OBVIOUS
  <2>1. a + i \in Int /\ a + j \in Int /\ (a + i) - (a + j) < MOD /\ (a + j) - (a + i) < MOD
    BY Sizes
  <2>2. a + i = a + j
    BY <2>1, ModApart
  <2> QED BY <2>2
<1>2. f \in Bijection(1..n, Residues(a, n))
  BY <1>1 DEF Bijection, Injection, IsInjective, Surjection, Residues
<1>3. IsFiniteSet(1..n) /\ Cardinality(1..n) = n
  <2>1. n \in Int /\ 1 \in Int /\ n >= 0
    BY Sizes
  <2>2. IsFiniteSet(1..n) /\ Cardinality(1..n) = IF 1 > n THEN 0 ELSE n - 1 + 1
    BY <2>1, FS_Interval
  <2> QED BY <2>1, <2>2
<1> QED BY <1>2, <1>3, FS_Bijection DEF ExistsBijection

LEMMA MinType ==
  ASSUME NEW S, S \subseteq Nat, S # {}
  PROVE  Min(S) \in S /\ \A y \in S : Min(S) <= y
<1>1. \E x \in S : \A y \in S : ~(y < x)
  <2> DEFINE less == OpToRel(<, Nat)
  <2>1. IsWellFoundedOn(less, Nat)
    BY NatLessThanWellFounded
  <2> HIDE DEF less
  <2>2. PICK x \in S : \A y \in S : ~(<<y, x>> \in less)
    BY <2>1, WFMin
  <2>3. \A y \in S : ~(y < x)
    BY <2>2 DEF less, OpToRel
  <2> QED BY <2>3
<1>2. \E x \in S : \A y \in S : x <= y
  BY <1>1
<1> QED BY <1>2 DEF Min

LEMMA MaxType ==
  ASSUME NEW n \in Nat, NEW S, S \subseteq 0..n, S # {}
  PROVE  Max(S) \in S /\ \A y \in S : Max(S) >= y
<1> DEFINE T == {n - x : x \in S}
<1>1. T \subseteq Nat /\ T # {}
  <2>1. \A x \in S : n - x \in Nat
    OBVIOUS
  <2>2. PICK x \in S : TRUE
    OBVIOUS
  <2>3. n - x \in T
    OBVIOUS
  <2> QED BY <2>1, <2>3
<1>2. Min(T) \in T /\ \A y \in T : Min(T) <= y
  BY <1>1, MinType
<1>3. \E x \in S : \A y \in S : x >= y
  <2>1. PICK x \in S : Min(T) = n - x
    BY <1>2
  <2>2. \A y \in S : n - x <= n - y
    BY <1>2, <2>1
  <2>3. \A y \in S : x >= y
    BY <2>2
  <2> QED BY <2>3
<1> QED BY <1>3 DEF Max

-----------------------------------------------------------------------------
(* The operators of the driver in these terms.                             *)
LEMMA NextIs == ASSUME NEW x \in Seqno PROVE next(x) = Mod(x + 1) /\ next(x) \in Seqno
<1>1. next(x) = Mod(x + 1)
  BY DEF next, Mod
<1> QED BY <1>1, ModType, Sizes

LEMMA UptoIs == ASSUME NEW a \in Int, NEW n \in 0..MOD-1 PROVE Upto(Mod(a), Mod(a + n)) = Residues(a, n)
<1>1. Mod(a) \in Seqno /\ Mod(a) \in Int /\ Mod(a + n) \in Int /\ n \in Int /\ n \in Seqno
  BY ModType, Sizes
<1>2. Mod(Mod(a + n) - Mod(a)) = n
  <2>1. Mod(Mod(a + n) - Mod(a)) = Mod(Mod(a + n) - a)
    BY <1>1, ModSub
  <2>2. Mod(Mod(a + n) + (-a)) = Mod(a + n + (-a))
    BY <1>1, ModAdd
  <2>3. Mod(a + n) - a = Mod(a + n) + (-a) /\ a + n + (-a) = n
    BY <1>1
  <2> QED BY <1>1, <2>1, <2>2, <2>3, ModSame
<1>3. Upto(Mod(a), Mod(a + n)) = {Mod(Mod(a) + i) : i \in 1..Mod(Mod(a + n) - Mod(a))}
  BY DEF Upto, Mod
<1>4. \A i \in 1..n : Mod(Mod(a) + i) = Mod(a + i)
  BY ModAdd
<1> QED BY <1>2, <1>3, <1>4 DEF Residues

LEMMA WindowIs == ASSUME NEW k, NEW r \in Int, k.pr = Mod(r) PROVE Window(k) = Residues(r, WINDOWS)
<1>1. Window(k) = {Mod(Mod(r) + i) : i \in 1..WINDOWS}
  BY DEF Window, Mod
<1>2. \A i \in 1..WINDOWS : Mod(Mod(r) + i) = Mod(r + i)
  BY ModAdd, Sizes
<1> QED BY <1>1, <1>2 DEF Residues

LEMMA MessageIs == Message = {"CLOSE", "RJ", "RR", "INITC", "INITB", "INITA"}
  BY DEF Message, Control, Range

-----------------------------------------------------------------------------
(* What travels, and a struct pack.                                        *)
Kind == Message \cup {"data"}
PacketT == [type : Kind, seq : Seqno, ack : Seqno, data : Nat]
SlotT == [st : {"free", "raw", "copy"}, seq : Seqno, data : Nat, sum : BOOLEAN]
PackT ==
  [state : SUBSET State, msg : SUBSET Message, rmsg : SUBSET {"INITA", "INITB"}, ps : Seqno, pr : Seqno,
   rpr : Seqno, nxtps : Seqno, pscopy : Seqno, xcount : 0..WINDOWS, os : [Seqno -> {"null", "ready", "sent"}],
   ob : [Seqno -> Nat], is : [Seqno -> SlotT], rcount : 0..WINDOWS, pool : 0..WINDOWS,
   connodata : 0..CONNODATA + 1, out : Seq(PacketT)]

Acking(p) == p.type \in {"data", "RR", "RJ"}
(* The fields of the sender, and of the reader.                            *)
OutSame(k, l) == /\ l.ps = k.ps /\ l.rpr = k.rpr /\ l.pscopy = k.pscopy /\ l.xcount = k.xcount /\ l.ob = k.ob
                 /\ l.os = k.os
InSame(k, l) == l.pr = k.pr /\ l.is = k.is /\ l.rcount = k.rcount
(* The packets of k become sent.                                           *)
Sends(k, l) == \A x \in Seqno : l.os[x] = k.os[x] \/ (k.os[x] # "null" /\ l.os[x] = "sent")

(* A packet that k may send.                                               *)
MaySend(k, l, p) ==
  \/ p.type # "data" /\ p \in PacketT /\ (Acking(p) => p.ack = k.pr)
  \/ \E x \in Seqno : k.os[x] # "null" /\ l.os[x] = "sent" /\ p = Packet("data", x, k.pr, k.ob[x])

LEMMA OutputIs ==
  ASSUME NEW k \in PackT, k.out = <<>>
  PROVE  /\ pkoutput(k) \in PackT /\ InSame(k, pkoutput(k)) /\ pkoutput(k).pool = k.pool
         /\ pkoutput(k).ps = k.ps /\ pkoutput(k).rpr = k.rpr /\ pkoutput(k).pscopy = k.pscopy
         /\ pkoutput(k).xcount = k.xcount /\ pkoutput(k).ob = k.ob /\ Sends(k, pkoutput(k))
         /\ pkoutput(k).state \in {k.state, k.state \ {"RXMIT"}}
         /\ \/ pkoutput(k).out = <<>>
            \/ \E p \in PacketT : pkoutput(k).out = <<p>> /\ MaySend(k, pkoutput(k), p)
<1> DEFINE nxt == IF "RXMIT" \in k.state THEN next(k.rpr) ELSE k.nxtps
           first == Control[Min({i \in DOMAIN Control : Control[i] \in k.msg})]
           k1 == [k EXCEPT !.nxtps = nxt]
           p1 == Packet(first, 0, IF first \in {"RJ", "RR"} THEN k.pr ELSE 0, 0)
           p2 == Packet("data", nxt, k.pr, k.ob[nxt])
<1>1. nxt \in Seqno
  BY NextIs DEF PackT
<1> HIDE DEF nxt
<1>2. k1 \in PackT /\ OutSame(k, k1) /\ InSame(k, k1) /\ k1.pool = k.pool /\ k1.state = k.state
      /\ k1.msg = k.msg /\ k1.out = <<>>
  BY <1>1 DEF PackT, OutSame, InSame
<1>3. k.msg # {} => first \in Message
  <2> DEFINE S == {i \in DOMAIN Control : Control[i] \in k.msg}
  <2>1. k.msg # {} => S # {}
    BY DEF PackT, Message, Range
  <2>2. S \subseteq Nat
    BY DEF Control
  <2>3. k.msg # {} => Min(S) \in S
    BY <2>1, <2>2, MinType
  <2> QED BY <2>3 DEF Message, Range
<1>4. 0 \in Seqno /\ 0 \in Nat /\ k.pr \in Seqno /\ k.ob[nxt] \in Nat /\ k.os[nxt] \in {"null", "ready", "sent"}
  BY <1>1, Sizes DEF PackT
<1> HIDE DEF first
<1>5. k.msg # {} => p1 \in PacketT /\ p1.type # "data" /\ (Acking(p1) => p1.ack = k.pr)
  BY <1>3, <1>4, MessageIs DEF Packet, PacketT, Acking, Kind
<1>6. p2 \in PacketT
  BY <1>1, <1>4 DEF Packet, PacketT, Kind
<1>7. pkoutput(k) = IF k.msg # {} /\ (k.msg \ {"RR"} # {} \/ k.os[nxt] = "null")
                    THEN Send([k1 EXCEPT !.msg = @ \ {first}], p1)
                    ELSE IF Down(k) \/ k.os[nxt] = "null" THEN k1
                    ELSE Send([k1 EXCEPT !.nxtps = next(nxt), !.os[nxt] = "sent", !.connodata = 0,
                                         !.state = @ \ {"RXMIT"}], p2)
  BY DEF pkoutput, nxt, first
<1> HIDE DEF k1, p1, p2
<1>8. CASE k.msg # {} /\ pkoutput(k) = Send([k1 EXCEPT !.msg = @ \ {first}], p1)
  <2>1. Append(<<>>, p1) = <<p1>> /\ <<p1>> \in Seq(PacketT)
    BY <1>5, <1>8
  <2>2. pkoutput(k) = [k1 EXCEPT !.msg = k1.msg \ {first}, !.out = <<p1>>]
    BY <1>2, <1>8, <2>1 DEF Send, PackT
  <2>3. /\ pkoutput(k) \in PackT /\ OutSame(k1, pkoutput(k)) /\ InSame(k1, pkoutput(k)) /\ pkoutput(k).pool = k1.pool
        /\ pkoutput(k).state = k1.state /\ pkoutput(k).out = <<p1>>
    BY <1>2, <2>1, <2>2 DEF PackT, OutSame, InSame
  <2> QED BY <1>2, <1>5, <1>8, <2>3 DEF OutSame, InSame, Sends, MaySend
<1>9. CASE pkoutput(k) = k1
  BY <1>2, <1>9 DEF OutSame, InSame, Sends
<1>10. CASE k.os[nxt] # "null" /\ pkoutput(k) = Send([k1 EXCEPT !.nxtps = next(nxt), !.os[nxt] = "sent", !.connodata = 0,
                                         !.state = @ \ {"RXMIT"}], p2)
  <2>1. Append(<<>>, p2) = <<p2>> /\ <<p2>> \in Seq(PacketT) /\ next(nxt) \in Seqno
    BY <1>1, <1>6, NextIs
  <2> DEFINE os == [k1.os EXCEPT ![nxt] = "sent"]
  <2>2. os \in [Seqno -> {"null", "ready", "sent"}] /\ \A x \in Seqno : os[x] = IF x = nxt THEN "sent" ELSE k.os[x]
    BY <1>1, <1>2 DEF PackT, OutSame
  <2>3. pkoutput(k) = [k1 EXCEPT !.nxtps = next(nxt), !.os = os, !.connodata = 0,
                                 !.state = k1.state \ {"RXMIT"}, !.out = <<p2>>]
    BY <1>2, <1>10, <2>1 DEF Send, PackT
  <2> HIDE DEF os
  <2> DEFINE state == k1.state \ {"RXMIT"}
  <2>4. 0 \in 0..CONNODATA + 1 /\ state \in SUBSET State
    BY <1>2, Bounds DEF PackT
  <2> HIDE DEF state
  <2>7. pkoutput(k) = [k1 EXCEPT !.nxtps = next(nxt), !.os = os, !.connodata = 0, !.state = state, !.out = <<p2>>]
    BY <2>3 DEF state
  <2>8. pkoutput(k) \in PackT
    <3> DEFINE k2 == [k1 EXCEPT !.nxtps = next(nxt), !.os = os]
    <3>1. k2 \in PackT
      BY <1>2, <2>1, <2>2 DEF PackT
    <3>2. pkoutput(k) = [k2 EXCEPT !.connodata = 0, !.state = state, !.out = <<p2>>]
      BY <1>2, <2>7 DEF PackT
    <3> HIDE DEF k2
    <3> QED BY <2>1, <2>4, <3>1, <3>2 DEF PackT
  <2>5. /\ pkoutput(k) \in PackT /\ InSame(k1, pkoutput(k)) /\ pkoutput(k).pool = k1.pool
        /\ pkoutput(k).ps = k1.ps /\ pkoutput(k).rpr = k1.rpr /\ pkoutput(k).pscopy = k1.pscopy
        /\ pkoutput(k).xcount = k1.xcount /\ pkoutput(k).ob = k1.ob /\ pkoutput(k).os = os
        /\ pkoutput(k).state = state /\ pkoutput(k).out = <<p2>>
    BY <1>2, <2>7, <2>8 DEF PackT, InSame
  <2>6. Sends(k, pkoutput(k)) /\ MaySend(k, pkoutput(k), p2)
    BY <1>1, <1>10, <2>2, <2>5 DEF Sends, MaySend, p2
  <2> QED BY <1>2, <1>6, <2>5, <2>6 DEF OutSame, InSame, state
<1> QED BY <1>7, <1>8, <1>9, <1>10

(* pksack, when the n packets after p are sent and p + n is acknowledged.  *)
LEMMA SackIs ==
  ASSUME NEW k \in PackT, NEW p \in Int, NEW n \in 0..k.xcount, k.ps = Mod(p), k.rpr = Mod(p + n),
         \A i \in 1..n : k.os[Mod(p + i)] = "sent"
  PROVE  /\ pksack(k) \in PackT /\ InSame(k, pksack(k)) /\ pksack(k).pool = k.pool /\ pksack(k).out = k.out
         /\ pksack(k).state = k.state /\ pksack(k).msg = k.msg /\ pksack(k).rmsg = k.rmsg
         /\ pksack(k).connodata = k.connodata
         /\ pksack(k).ps = Mod(p + n) /\ pksack(k).rpr = k.rpr /\ pksack(k).pscopy = k.pscopy
         /\ pksack(k).xcount = k.xcount - n
         /\ \A x \in Seqno : x \in Residues(p, n) => pksack(k).os[x] = "null"
         /\ \A x \in Seqno : x \notin Residues(p, n) => pksack(k).os[x] = k.os[x] /\ pksack(k).ob[x] = k.ob[x]
<1> DEFINE acked == {x \in Upto(k.ps, k.rpr) : k.os[x] = "sent"}
           ps == IF acked = {} THEN k.ps ELSE CHOOSE x \in acked : acked \subseteq Upto(k.ps, x)
           os == [x \in Seqno |-> IF x \in acked THEN "null" ELSE k.os[x]]
           ob == [x \in Seqno |-> IF x \in acked THEN 0 ELSE k.ob[x]]
<1>1. n \in 0..MOD-1 /\ n \in 0..MOD /\ k.xcount \in 0..WINDOWS /\ n \in Int
  <2>1. k.xcount \in 0..WINDOWS
    BY DEF PackT
  <2> QED BY <2>1, Sizes
<1>2. acked = Residues(p, n)
  <2>1. Upto(k.ps, k.rpr) = Residues(p, n)
    BY <1>1, UptoIs
  <2> QED BY <2>1 DEF Residues
<1>3. Cardinality(acked) = n
  BY <1>1, <1>2, ResiduesCount
<1>4. ps = Mod(p + n)
  <2>1. CASE n = 0
    <3>1. acked = {} /\ p + n = p
      BY <1>2, <2>1 DEF Residues
    <3> QED BY <3>1
  <2>2. CASE n > 0
    <3>1. Mod(p + n) \in acked
      BY <1>1, <1>2, <2>2 DEF Residues
    <3>2. acked \subseteq Upto(k.ps, Mod(p + n))
      BY <1>1, <1>2, UptoIs
    <3>3. ASSUME NEW x \in acked, acked \subseteq Upto(k.ps, x) PROVE x = Mod(p + n)
      <4>1. PICK m \in 1..n : x = Mod(p + m)
        BY <1>2 DEF Residues
      <4>2. m \in 0..MOD-1 /\ m \in Int
        BY <1>1, Sizes
      <4>3. Mod(p + n) \in Residues(p, m)
        BY <3>1, <3>3, <4>1, <4>2, UptoIs
      <4>4. PICK i \in 1..m : Mod(p + n) = Mod(p + i)
        BY <4>3 DEF Residues
      <4>5. p + n = p + i
        <5>1. p + n \in Int /\ p + i \in Int /\ (p + n) - (p + i) < MOD /\ (p + i) - (p + n) < MOD
          BY <1>1, <4>2, Sizes
        <5> QED BY <4>4, <5>1, ModApart
      <4>6. n = m
        BY <1>1, <4>2, <4>5
      <4> QED BY <4>1, <4>6
    <3> QED BY <3>1, <3>2, <3>3
  <2> QED BY <1>1, <2>1, <2>2
<1>5. Mod(p + n) \in Seqno
  BY <1>1, ModType
<1>6. /\ os \in [Seqno -> {"null", "ready", "sent"}] /\ ob \in [Seqno -> Nat]
      /\ \A x \in Seqno : os[x] = IF x \in acked THEN "null" ELSE k.os[x]
      /\ \A x \in Seqno : x \notin acked => ob[x] = k.ob[x]
  BY DEF PackT
<1>7. k.xcount - n \in 0..WINDOWS
  BY <1>1, Sizes
<1>8. pksack(k) = [k EXCEPT !.os = os, !.ob = ob, !.xcount = k.xcount - Cardinality(acked), !.ps = ps]
  BY DEF pksack, PackT
<1> HIDE DEF os, ob, ps, acked
<1>9. pksack(k) = [k EXCEPT !.os = os, !.ob = ob, !.xcount = k.xcount - n, !.ps = Mod(p + n)]
  BY <1>3, <1>4, <1>8
<1>10. pksack(k) \in PackT
  <2> DEFINE k1 == [k EXCEPT !.os = os, !.ob = ob]
  <2>1. k1 \in PackT
    BY <1>6 DEF PackT
  <2>2. pksack(k) = [k1 EXCEPT !.xcount = k.xcount - n, !.ps = Mod(p + n)]
    BY <1>9 DEF PackT
  <2> HIDE DEF k1
  <2> QED BY <1>5, <1>7, <2>1, <2>2 DEF PackT
<1>11. /\ InSame(k, pksack(k)) /\ pksack(k).pool = k.pool /\ pksack(k).out = k.out
       /\ pksack(k).state = k.state /\ pksack(k).msg = k.msg /\ pksack(k).rmsg = k.rmsg
       /\ pksack(k).connodata = k.connodata
       /\ pksack(k).ps = Mod(p + n) /\ pksack(k).rpr = k.rpr /\ pksack(k).pscopy = k.pscopy
       /\ pksack(k).xcount = k.xcount - n /\ pksack(k).os = os /\ pksack(k).ob = ob
  BY <1>9 DEF PackT, InSame
<1> QED BY <1>2, <1>6, <1>10, <1>11

-----------------------------------------------------------------------------
(* One direction: k is the struct pack of the end that has written w       *)
(* packets, kf that of the other, which has read r of them; data travels   *)
(* in ld, acknowledgements in la. The writer holds the packets after       *)
(* w - k.xcount. A packet of the line or of a slot is at most a window     *)
(* behind whatever arrived before it: with half of the numbers in the      *)
(* window, its number says which packet it is.                             *)
Good(s) == s.st # "free" /\ s.sum
SentOK(k, w, n) == n > w - k.xcount => k.os[Mod(n)] = "sent"
Holds(k, w) ==
  /\ \A n \in w - k.xcount + 1..w : k.os[Mod(n)] # "null" /\ k.ob[Mod(n)] = n
  /\ \A x \in Seqno : k.os[x] # "null" => \E n \in w - k.xcount + 1..w : x = Mod(n)
OutOK(k, w, r) ==
  /\ w - k.xcount \in 0..r /\ r <= w
  /\ k.ps = Mod(w - k.xcount) /\ k.rpr = Mod(w - k.xcount) /\ k.pscopy = Mod(w)
  /\ Holds(k, w)
Filed(s, w, r) == s.data \in 1..w /\ s.seq = Mod(s.data) /\ r < s.data + WINDOWS
InOK(k, w, r) ==
  /\ k.pr = Mod(r)
  /\ \A x \in Seqno : k.is[x].st = "raw" => x \notin Residues(r, WINDOWS)
  /\ \A i \in 1..k.rcount : k.is[Mod(r + i)].st = "copy" /\ k.is[Mod(r + i)].data = r + i
  /\ \A x \in Seqno : k.is[x].st = "copy" => k.is[x].sum /\ x \in Residues(r, k.rcount)
  /\ \A x \in Seqno : Good(k.is[x]) => Filed(k.is[x], w, r)
DataAt(q, kf, k, w, r) ==
  /\ q.data \in 1..w /\ q.seq = Mod(q.data) /\ r < q.data + WINDOWS /\ SentOK(k, w, q.data)
  /\ \A x \in Seqno : Good(kf.is[x]) => kf.is[x].data < q.data + WINDOWS
DataOK(ld, kf, k, w, r) ==
  /\ \A i \in 1..Len(ld) : ld[i].type = "data" =>
       /\ DataAt(ld[i], kf, k, w, r)
       /\ \A j \in 1..i-1 : ld[j].type = "data" => ld[j].data < ld[i].data + WINDOWS
  /\ \A x \in Seqno : Good(kf.is[x]) => SentOK(k, w, kf.is[x].data)
  /\ \A n \in 1..r : SentOK(k, w, n)
(* How many packets after p are acknowledged by the number a.              *)
Beyond(a, p) == Mod(a - p)
AckOK(la, p, r) ==
  \A i \in 1..Len(la) : Acking(la[i]) =>
    /\ p + Beyond(la[i].ack, p) <= r
    /\ \A j \in 1..i : Acking(la[j]) => Beyond(la[j].ack, p) <= Beyond(la[i].ack, p)
Dir(k, w, ld, la, kf, r) ==
  OutOK(k, w, r) /\ InOK(kf, w, r) /\ DataOK(ld, kf, k, w, r) /\ AckOK(la, w - k.xcount, r)

LEMMA DirFrame ==
  ASSUME NEW k, NEW l, NEW kf, NEW lf, NEW w, NEW r, NEW ld, NEW la, Dir(k, w, ld, la, kf, r),
         OutSame(k, l), InSame(kf, lf)
  PROVE  Dir(l, w, ld, la, lf, r)
<1>1. l.ps = k.ps /\ l.rpr = k.rpr /\ l.pscopy = k.pscopy /\ l.xcount = k.xcount /\ l.ob = k.ob /\ l.os = k.os
  BY DEF OutSame
<1>2. lf.pr = kf.pr /\ lf.is = kf.is /\ lf.rcount = kf.rcount
  BY DEF InSame
<1>3. OutOK(l, w, r)
  BY <1>1 DEF Dir, OutOK, Holds
<1>4. InOK(lf, w, r)
  BY <1>2 DEF Dir, InOK
<1>5. DataOK(ld, lf, l, w, r)
  BY <1>1, <1>2 DEF Dir, DataOK, DataAt, SentOK
<1>6. AckOK(la, w - l.xcount, r)
  BY <1>1 DEF Dir
<1> QED BY <1>3, <1>4, <1>5, <1>6 DEF Dir

(* The line gives a packet up, or loses it.                                *)
LEMMA DirTail ==
  ASSUME NEW k, NEW kf, NEW w, NEW r, NEW ld \in Seq(PacketT), NEW la \in Seq(PacketT),
         Dir(k, w, ld, la, kf, r)
  PROVE  /\ ld # <<>> => Dir(k, w, Tail(ld), la, kf, r)
         /\ la # <<>> => Dir(k, w, ld, Tail(la), kf, r)
<1>1. ASSUME ld # <<>> PROVE DataOK(Tail(ld), kf, k, w, r)
  <2>1. Len(Tail(ld)) = Len(ld) - 1 /\ Len(ld) \in Nat /\ \A i \in 1..Len(Tail(ld)) : Tail(ld)[i] = ld[i + 1]
    BY <1>1, HeadTailProperties, LenProperties
  <2>2. \A i \in 1..Len(ld)-1 : i + 1 \in 1..Len(ld) /\ \A j \in 1..i-1 : j + 1 \in 1..(i + 1)-1 /\ j \in 1..Len(ld)-1
    BY <2>1
  <2> QED BY <2>1, <2>2 DEF Dir, DataOK
<1>2. ASSUME la # <<>> PROVE AckOK(Tail(la), w - k.xcount, r)
  <2>1. Len(Tail(la)) = Len(la) - 1 /\ Len(la) \in Nat /\ \A i \in 1..Len(Tail(la)) : Tail(la)[i] = la[i + 1]
    BY <1>2, HeadTailProperties, LenProperties
  <2>2. \A i \in 1..Len(la)-1 : i + 1 \in 1..Len(la) /\ \A j \in 1..i : j + 1 \in 1..i + 1 /\ j \in 1..Len(la)-1
    BY <2>1
  <2> QED BY <2>1, <2>2 DEF Dir, AckOK
<1> QED BY <1>1, <1>2 DEF Dir

LEMMA Line1 ==
  ASSUME NEW ln \in Seq(PacketT), NEW q \in PacketT
  PROVE  /\ ln \o <<q>> \in Seq(PacketT) /\ Len(ln \o <<q>>) = Len(ln) + 1 /\ Len(ln) \in Nat
         /\ \A i \in 1..Len(ln) : (ln \o <<q>>)[i] = ln[i]
         /\ (ln \o <<q>>)[Len(ln) + 1] = q
<1>1. <<q>> \in Seq(PacketT) /\ Len(<<q>>) = 1 /\ <<q>>[1] = q
  OBVIOUS
<1>2. Len(ln) \in Nat
  OBVIOUS
<1>3. /\ ln \o <<q>> \in Seq(PacketT) /\ Len(ln \o <<q>>) = Len(ln) + 1
      /\ \A i \in 1..Len(ln) + 1 : (ln \o <<q>>)[i] = IF i <= Len(ln) THEN ln[i] ELSE <<q>>[i - Len(ln)]
  BY <1>1, ConcatProperties
<1> QED BY <1>1, <1>2, <1>3

(* The packets of the writer, whatever it sends: nothing that is not sent  *)
(* is forgotten.                                                           *)
LEMMA SendsKeep ==
  ASSUME NEW k \in PackT, NEW l \in PackT, NEW w \in Nat, NEW r \in Nat, NEW kf, NEW ld, NEW la,
         Dir(k, w, ld, la, kf, r), Sends(k, l), l.ps = k.ps, l.rpr = k.rpr, l.pscopy = k.pscopy,
         l.xcount = k.xcount, l.ob = k.ob
  PROVE  Dir(l, w, ld, la, kf, r)
<1>1. w - k.xcount \in Nat /\ k.xcount \in Nat
  BY DEF Dir, OutOK, PackT
<1>2. \A n \in Nat : Mod(n) \in Seqno
  BY ModType
<1>3. \A n \in Nat : SentOK(k, w, n) => SentOK(l, w, n)
  BY <1>2 DEF Sends, SentOK
<1>4. Holds(l, w)
  <2>1. \A n \in w - k.xcount + 1..w : n \in Nat
    BY <1>1
  <2> QED BY <1>2, <2>1 DEF Dir, OutOK, Holds, Sends
<1>5. OutOK(l, w, r)
  BY <1>4 DEF Dir, OutOK
<1>6. DataOK(ld, kf, l, w, r)
  <2>1. \A n \in 1..w : n \in Nat
    OBVIOUS
  <2>2. \A i \in 1..Len(ld) : ld[i].type = "data" => SentOK(l, w, ld[i].data)
    BY <1>3, <2>1 DEF Dir, DataOK, DataAt
  <2>3. \A x \in Seqno : Good(kf.is[x]) => SentOK(l, w, kf.is[x].data)
    BY <1>3, <2>1 DEF Dir, DataOK, InOK, Filed
  <2>4. \A n \in 1..r : SentOK(l, w, n)
    BY <1>3 DEF Dir, DataOK
  <2> QED BY <2>2, <2>3, <2>4 DEF Dir, DataOK, DataAt
<1> QED BY <1>5, <1>6 DEF Dir

LEMMA SentArrives ==
  ASSUME NEW k \in PackT, NEW l \in PackT, NEW w \in Nat, NEW r \in Nat, NEW kf, NEW ld \in Seq(PacketT), NEW la,
         Dir(l, w, ld, la, kf, r), Sends(k, l), l.xcount = k.xcount, l.ob = k.ob,
         NEW q \in PacketT, MaySend(k, l, q)
  PROVE  Dir(l, w, ld \o <<q>>, la, kf, r)
<1> DEFINE ln == ld \o <<q>>
           d == Len(ld) + 1
<1>1. /\ Len(ln) = d /\ d - 1 \in Nat /\ d \in Nat /\ Len(ld) = d - 1
      /\ \A i \in 1..d-1 : ln[i] = ld[i]
      /\ ln[d] = q
  BY Line1
<1> HIDE DEF ln, d
<1>2. \A i \in 1..d : i \in 1..d-1 \/ i = d
  BY <1>1
<1>3. ASSUME q.type = "data"
      PROVE  DataAt(q, kf, l, w, r) /\ \A j \in 1..d-1 : ld[j].type = "data" => ld[j].data < q.data + WINDOWS
  <2>1. PICK x \in Seqno : k.os[x] # "null" /\ l.os[x] = "sent" /\ q = Packet("data", x, k.pr, k.ob[x])
    BY <1>3 DEF MaySend
  <2>2. q.data = l.ob[x] /\ q.seq = x
    BY <2>1 DEF Packet
  <2>3. l.os[x] # "null"
    BY <2>1
  <2>4. PICK n \in w - l.xcount + 1..w : x = Mod(n)
    BY <2>3 DEF Dir, OutOK, Holds
  <2>5. l.ob[x] = n
    BY <2>4 DEF Dir, OutOK, Holds
  <2>6. l.xcount \in 0..WINDOWS /\ w - l.xcount \in Nat /\ r <= w /\ n \in Nat /\ n >= 1 /\ n <= w
        /\ w < n + WINDOWS
    <3>1. l.xcount \in 0..WINDOWS /\ w - l.xcount \in 0..r /\ r <= w
      BY DEF Dir, OutOK, PackT
    <3> QED BY <2>4, <3>1, Sizes
  <2>7. \A m \in 1..w : m < n + WINDOWS
    BY <2>6, Sizes
  <2>8. \A j \in 1..d-1 : ld[j].type = "data" => ld[j].data \in 1..w
    BY <1>1 DEF Dir, DataOK, DataAt
  <2>9. \A y \in Seqno : Good(kf.is[y]) => kf.is[y].data \in 1..w
    BY DEF Dir, InOK, Filed
  <2>10. q.data = n /\ q.seq = Mod(n) /\ n \in 1..w /\ r < n + WINDOWS
    BY <2>2, <2>4, <2>5, <2>6, Sizes
  <2>11. SentOK(l, w, n)
    BY <2>1, <2>4 DEF SentOK
  <2> QED BY <2>7, <2>8, <2>9, <2>10, <2>11 DEF DataAt
<1>4. \A i \in 1..d : \A j \in 1..i-1 : j \in 1..d-1 /\ (i # d => j \in 1..i-1)
  BY <1>1
<1>5. DataOK(ln, kf, l, w, r)
  <2>1. \A i \in 1..d-1 : ln[i].type = "data" => /\ DataAt(ln[i], kf, l, w, r)
          /\ \A j \in 1..i-1 : ln[j].type = "data" => ln[j].data < ln[i].data + WINDOWS
    BY <1>1, <1>4, <1>2 DEF Dir, DataOK
  <2>2. ln[d].type = "data" => /\ DataAt(ln[d], kf, l, w, r)
          /\ \A j \in 1..d-1 : ln[j].type = "data" => ln[j].data < ln[d].data + WINDOWS
    BY <1>1, <1>3
  <2> QED BY <1>1, <1>2, <2>1, <2>2 DEF Dir, DataOK
<1> QED BY <1>5 DEF Dir, ln

(* An acknowledgement of the reader.                                       *)
LEMMA AckIs ==
  ASSUME NEW p \in Nat, NEW a \in p..p + WINDOWS
  PROVE  Beyond(Mod(a), p) = a - p
<1>1. a \in Int /\ -p \in Int /\ a - p \in Seqno /\ a - p \in Int /\ a + (-p) = a - p /\ Mod(a) \in Int
  BY Sizes, ModType
<1>2. Mod(Mod(a) + (-p)) = Mod(a + (-p)) /\ Mod(a) + (-p) = Mod(a) - p
  BY <1>1, ModAdd
<1> QED BY <1>1, <1>2, ModSame DEF Beyond

LEMMA AckArrives ==
  ASSUME NEW k \in PackT, NEW w \in Nat, NEW r \in Nat, NEW ld, NEW la \in Seq(PacketT), NEW kf,
         Dir(k, w, ld, la, kf, r), NEW q \in PacketT, Acking(q) => q.ack = Mod(r)
  PROVE  Dir(k, w, ld, la \o <<q>>, kf, r)
<1> DEFINE ln == la \o <<q>>
           d == Len(la) + 1
           p == w - k.xcount
<1>1. /\ Len(ln) = d /\ d - 1 \in Nat /\ d \in Nat /\ Len(la) = d - 1
      /\ \A i \in 1..d-1 : ln[i] = la[i]
      /\ ln[d] = q
  BY Line1
<1>2. p \in Nat /\ r \in p..p + WINDOWS
  <2>1. k.xcount \in 0..WINDOWS /\ w - k.xcount \in 0..r /\ r <= w
    BY DEF Dir, OutOK, PackT
  <2> QED BY <2>1, Sizes
<1>3. Acking(q) => Beyond(q.ack, p) = r - p
  BY <1>2, AckIs
<1>5. AckOK(la, p, r)
  BY DEF Dir
<1> HIDE DEF ln, d, p
<1>4. \A i \in 1..d-1 : Acking(ln[i]) => p + Beyond(ln[i].ack, p) <= r /\ Beyond(ln[i].ack, p) \in Int
  <2>1. \A i \in 1..d-1 : la[i] \in PacketT
    BY <1>1
  <2>2. \A i \in 1..d-1 : la[i].ack \in Int
    BY <2>1, Sizes DEF PacketT
  <2>3. \A i \in 1..d-1 : la[i].ack - p \in Int
    BY <1>2, <2>2
  <2>4. \A i \in 1..d-1 : Beyond(la[i].ack, p) \in Int
    BY <2>3, ModType DEF Beyond
  <2> QED BY <1>1, <1>5, <2>4 DEF AckOK
<1>6. \A i \in 1..d-1 : Acking(ln[i]) => Beyond(ln[i].ack, p) <= r - p
  BY <1>2, <1>4
<1>7. AckOK(ln, p, r)
  <2>1. ASSUME NEW i \in 1..d-1, Acking(ln[i])
        PROVE  p + Beyond(ln[i].ack, p) <= r /\ \A j \in 1..i : Acking(ln[j]) => Beyond(ln[j].ack, p) <= Beyond(ln[i].ack, p)
    <3>1. \A j \in 1..i : j \in 1..d-1
      BY <1>1, <2>1
    <3> QED BY <1>1, <1>5, <2>1, <3>1 DEF AckOK
  <2>2. ASSUME Acking(ln[d])
        PROVE  p + Beyond(ln[d].ack, p) <= r /\ \A j \in 1..d : Acking(ln[j]) => Beyond(ln[j].ack, p) <= Beyond(ln[d].ack, p)
    <3>1. Beyond(ln[d].ack, p) = r - p
      BY <1>1, <1>3, <2>2
    <3>2. \A j \in 1..d : j = d \/ j \in 1..d-1
      BY <1>1
    <3>3. p + (r - p) <= r /\ r - p <= r - p
      BY <1>2
    <3> QED BY <1>6, <3>1, <3>2, <3>3
  <2>3. \A i \in 1..d : i = d \/ i \in 1..d-1
    BY <1>1
  <2> QED BY <1>1, <2>1, <2>2, <2>3 DEF AckOK
<1> QED BY <1>7 DEF Dir, ln, p

LEMMA OutputSends ==
  ASSUME NEW k \in PackT, k.out = <<>>, NEW w \in Nat, NEW r \in Nat, NEW kf, NEW ld \in Seq(PacketT), NEW la,
         Dir(k, w, ld, la, kf, r)
  PROVE  Dir(pkoutput(k), w, ld \o pkoutput(k).out, la, kf, r)
<1> DEFINE l == pkoutput(k)
<1>1. /\ l \in PackT /\ l.ps = k.ps /\ l.rpr = k.rpr /\ l.pscopy = k.pscopy
      /\ l.xcount = k.xcount /\ l.ob = k.ob /\ Sends(k, l)
      /\ l.out = <<>> \/ \E q \in PacketT : l.out = <<q>> /\ MaySend(k, l, q)
  BY OutputIs
<1> HIDE DEF l
<1>2. Dir(l, w, ld, la, kf, r)
  BY <1>1, SendsKeep
<1>3. CASE l.out = <<>>
  <2>1. ld \o <<>> = ld
    BY ConcatEmptySeq
  <2> QED BY <1>2, <1>3, <2>1 DEF l
<1>4. CASE \E q \in PacketT : l.out = <<q>> /\ MaySend(k, l, q)
  BY <1>1, <1>2, <1>4, SentArrives DEF l
<1> QED BY <1>1, <1>3, <1>4

LEMMA OutputAcks ==
  ASSUME NEW k \in PackT, k.out = <<>>, NEW w \in Nat, NEW r \in Nat, NEW kf \in PackT, NEW ld, NEW la \in Seq(PacketT),
         Dir(kf, w, ld, la, k, r)
  PROVE  Dir(kf, w, ld, la \o pkoutput(k).out, pkoutput(k), r)
<1> DEFINE l == pkoutput(k)
<1>1. /\ l \in PackT /\ InSame(k, l)
      /\ l.out = <<>> \/ \E q \in PacketT : l.out = <<q>> /\ MaySend(k, l, q)
  BY OutputIs
<1> HIDE DEF l
<1>2. Dir(kf, w, ld, la, l, r)
  BY <1>1, DirFrame DEF OutSame
<1>3. CASE l.out = <<>>
  <2>1. la \o <<>> = la
    BY ConcatEmptySeq
  <2> QED BY <1>2, <1>3, <2>1 DEF l
<1>4. CASE \E q \in PacketT : l.out = <<q>> /\ MaySend(k, l, q)
  <2>1. PICK q \in PacketT : l.out = <<q>> /\ MaySend(k, l, q)
    BY <1>4
  <2>2. k.pr = Mod(r)
    BY DEF Dir, InOK
  <2>3. Acking(q) => q.ack = Mod(r)
    BY <2>1, <2>2 DEF MaySend, Packet
  <2> QED BY <1>2, <2>1, <2>3, AckArrives DEF l
<1> QED BY <1>1, <1>3, <1>4

(* The writer takes the acknowledgement at the head of the line.           *)
LEMMA SackDir ==
  ASSUME NEW k \in PackT, NEW k1 \in PackT, NEW w \in Nat, NEW r \in Nat, NEW kf, NEW ld, NEW la \in Seq(PacketT),
         Dir(k, w, ld, la, kf, r), la # <<>>, Acking(la[1]), k1.rpr = la[1].ack,
         k1.ps = k.ps, k1.pscopy = k.pscopy, k1.xcount = k.xcount, k1.os = k.os, k1.ob = k.ob
  PROVE  /\ Dir(pksack(k1), w, ld, Tail(la), kf, r)
         /\ pksack(k1) \in PackT /\ InSame(k1, pksack(k1)) /\ pksack(k1).pool = k1.pool
         /\ pksack(k1).out = k1.out /\ pksack(k1).state = k1.state /\ pksack(k1).msg = k1.msg
         /\ pksack(k1).rmsg = k1.rmsg /\ pksack(k1).connodata = k1.connodata
<1> DEFINE p == w - k.xcount
           a == la[1].ack
           n == Beyond(a, p)
           l == pksack(k1)
<1>1. k.xcount \in 0..WINDOWS /\ p \in 0..r /\ r <= w /\ p \in Nat /\ p \in Int /\ w = p + k.xcount /\ k.xcount \in Nat
  <2>1. k.xcount \in 0..WINDOWS
    BY DEF PackT
  <2>2. p \in 0..r /\ r <= w
    BY DEF Dir, OutOK
  <2> QED BY <2>1, <2>2, Sizes
<1>2. a \in Seqno /\ a \in Int /\ 1 \in 1..Len(la)
  <2>1. 1 \in 1..Len(la) /\ la[1] \in PacketT
    OBVIOUS
  <2> QED BY <2>1, Sizes DEF PacketT
<1>3. AckOK(la, p, r) /\ OutOK(k, w, r) /\ Holds(k, w) /\ DataOK(ld, kf, k, w, r) /\ InOK(kf, w, r)
  BY DEF Dir, OutOK
<1> HIDE DEF a, p
<1>4. n \in Seqno /\ n \in Nat /\ p + n <= r
  <2>1. a - p \in Int
    BY <1>1, <1>2
  <2>2. n \in Seqno
    BY <2>1, ModType DEF Beyond
  <2>3. p + n <= r
    BY <1>2, <1>3 DEF AckOK, a
  <2> QED BY <2>2, <2>3, Sizes
<1>5. Mod(p + n) = a
  <2>1. a - p \in Int /\ p \in Int /\ n \in Int
    BY <1>1, <1>2, <1>4
  <2>2. n = Mod(a - p)
    BY DEF Beyond
  <2>3. Mod(Mod(a - p) + p) = Mod(a - p + p)
    BY <2>1, ModAdd
  <2>4. a - p + p = a /\ n + p = p + n
    BY <1>1, <1>2, <2>1
  <2> QED BY <1>2, <2>2, <2>3, <2>4, ModSame
<1> HIDE DEF n
<1>6. n \in 0..k1.xcount
  BY <1>1, <1>4
<1>7. \A i \in 1..n : k.os[Mod(p + i)] = "sent"
  <2> SUFFICES ASSUME NEW i \in 1..n PROVE k.os[Mod(p + i)] = "sent"
    OBVIOUS
  <2>1. p + i \in 1..r /\ p + i > p
    BY <1>1, <1>4
  <2> QED BY <1>3, <2>1 DEF DataOK, SentOK, p
<1>8. k1.ps = Mod(p) /\ k1.rpr = Mod(p + n)
  BY <1>3, <1>5 DEF OutOK, p, a
<1>17. \A i \in 1..n : k1.os[Mod(p + i)] = "sent"
  BY <1>7
<1>9. /\ l \in PackT /\ InSame(k1, l) /\ l.pool = k1.pool /\ l.out = k1.out /\ l.state = k1.state /\ l.msg = k1.msg
      /\ l.rmsg = k1.rmsg /\ l.connodata = k1.connodata
      /\ l.ps = Mod(p + n) /\ l.rpr = k1.rpr /\ l.pscopy = k1.pscopy /\ l.xcount = k1.xcount - n
      /\ \A x \in Seqno : x \in Residues(p, n) => l.os[x] = "null"
      /\ \A x \in Seqno : x \notin Residues(p, n) => l.os[x] = k1.os[x] /\ l.ob[x] = k1.ob[x]
  <2> HIDE DEF l
  <2> USE <1>1, <1>6, <1>8, <1>17
  <2>1. /\ l \in PackT /\ InSame(k1, l) /\ l.pool = k1.pool /\ l.out = k1.out /\ l.state = k1.state /\ l.msg = k1.msg
        /\ l.rmsg = k1.rmsg /\ l.connodata = k1.connodata
    BY SackIs, Zenon DEF l
  <2>2. l.ps = Mod(p + n) /\ l.rpr = k1.rpr /\ l.pscopy = k1.pscopy /\ l.xcount = k1.xcount - n
    BY SackIs DEF l
  <2>3. /\ \A x \in Seqno : x \in Residues(p, n) => l.os[x] = "null"
        /\ \A x \in Seqno : x \notin Residues(p, n) => l.os[x] = k1.os[x] /\ l.ob[x] = k1.ob[x]
    BY SackIs, Zenon DEF l
  <2> QED BY <2>1, <2>2, <2>3
<1> HIDE DEF l
<1>10. w - l.xcount = p + n
  BY <1>1, <1>4, <1>9
<1>11. \A m \in p + n + 1..w : Mod(m) \in Seqno /\ Mod(m) \notin Residues(p, n)
  <2> SUFFICES ASSUME NEW m \in p + n + 1..w, NEW i \in 1..n, Mod(m) = Mod(p + i) PROVE FALSE
    <3>1. \A m \in p + n + 1..w : Mod(m) \in Seqno
      BY <1>1, <1>4, ModType
    <3> QED BY <3>1 DEF Residues
  <2>1. m \in Int /\ p + i \in Int /\ m - (p + i) < MOD /\ (p + i) - m < MOD /\ m # p + i
    BY <1>1, <1>4, Sizes
  <2> QED BY <2>1, ModApart
<1>12. Holds(l, w)
  <2>1. ASSUME NEW m \in p + n + 1..w PROVE l.os[Mod(m)] # "null" /\ l.ob[Mod(m)] = m
    <3>1. m \in p + 1..w
      BY <1>1, <1>4
    <3> QED BY <1>3, <1>9, <1>11, <3>1 DEF Holds, p
  <2>2. ASSUME NEW x \in Seqno, l.os[x] # "null" PROVE \E m \in p + n + 1..w : x = Mod(m)
    <3>1. x \notin Residues(p, n) /\ k.os[x] # "null"
      BY <1>9, <2>2
    <3>2. PICK m \in p + 1..w : x = Mod(m)
      BY <1>3, <3>1 DEF Holds, p
    <3>3. CASE m <= p + n
      <4>1. m - p \in 1..n /\ p + (m - p) = m
        BY <1>1, <1>4, <3>3
      <4> QED BY <3>1, <3>2, <4>1 DEF Residues
    <3>4. CASE m > p + n
      <4>1. m \in p + n + 1..w
        BY <1>1, <1>4, <3>4
      <4> QED BY <3>2, <4>1
    <3> QED BY <1>1, <1>4, <3>3, <3>4
  <2> QED BY <1>10, <2>1, <2>2 DEF Holds
<1>13. OutOK(l, w, r)
  <2>1. p + n \in 0..r
    BY <1>1, <1>4
  <2> QED BY <1>3, <1>5, <1>8, <1>9, <1>10, <1>12, <2>1 DEF OutOK
<1>14. \A m \in 1..w : SentOK(k, w, m) => SentOK(l, w, m)
  <2> SUFFICES ASSUME NEW m \in 1..w, SentOK(k, w, m), m > p + n PROVE l.os[Mod(m)] = "sent"
    BY <1>10 DEF SentOK
  <2>1. m \in p + n + 1..w /\ m > p
    BY <1>1, <1>4
  <2> QED BY <1>9, <1>11, <2>1 DEF SentOK, p
<1>15. DataOK(ld, kf, l, w, r)
  <2>1. \A m \in 1..r : m \in 1..w
    BY <1>1
  <2> QED BY <1>3, <1>14, <2>1 DEF DataOK, DataAt, InOK, Filed
<1>16. AckOK(Tail(la), w - l.xcount, r)
  <2>1. /\ Len(Tail(la)) = Len(la) - 1 /\ Len(la) \in Nat /\ \A i \in 1..Len(Tail(la)) : Tail(la)[i] = la[i + 1]
        /\ Tail(la) \in Seq(PacketT)
    BY HeadTailProperties, LenProperties
  <2>2. ASSUME NEW i \in 1..Len(la), Acking(la[i])
        PROVE  /\ Beyond(la[i].ack, p + n) = Beyond(la[i].ack, p) - n /\ Beyond(la[i].ack, p) \in Int
               /\ p + Beyond(la[i].ack, p) <= r
    <3> DEFINE c == la[i].ack
               b == Beyond(c, p)
    <3>1. c \in Int
      <4>1. la[i] \in PacketT
        OBVIOUS
      <4>2. c \in Seqno
        BY <4>1 DEF PacketT
      <4> QED BY <4>2, Sizes
    <3> HIDE DEF c
    <3>2. c - p \in Int /\ -n \in Int /\ b \in Seqno /\ b \in Int
      <4>1. c - p \in Int /\ -n \in Int
        BY <1>1, <1>4, <3>1
      <4> QED BY <4>1, ModType DEF Beyond
    <3>3. n <= b /\ p + b <= r
      <4>1. 1 \in 1..i
        OBVIOUS
      <4> QED BY <1>2, <1>3, <2>2, <4>1 DEF AckOK, n, a, c
    <3>4. Mod(b + (-n)) = Mod((c - p) + (-n))
      BY <3>2, ModAdd DEF Beyond
    <3> HIDE DEF b
    <3>5. b + (-n) = b - n /\ (c - p) + (-n) = c - (p + n) /\ b - n \in Seqno
      BY <1>1, <1>4, <3>1, <3>2, <3>3, Sizes
    <3>6. Beyond(c, p + n) = b - n
      BY <3>4, <3>5, ModSame DEF Beyond
    <3> QED BY <3>2, <3>3, <3>6 DEF b, c
  <2>3. ASSUME NEW i \in 1..Len(la), Acking(la[i]), NEW j \in 1..i, Acking(la[j])
        PROVE  Beyond(la[j].ack, p + n) <= Beyond(la[i].ack, p + n)
    <3>1. j \in 1..Len(la)
      BY <2>1
    <3>2. Beyond(la[j].ack, p) <= Beyond(la[i].ack, p)
      BY <1>3, <2>3 DEF AckOK
    <3>3. /\ Beyond(la[j].ack, p + n) = Beyond(la[j].ack, p) - n /\ Beyond(la[j].ack, p) \in Int
          /\ Beyond(la[i].ack, p + n) = Beyond(la[i].ack, p) - n /\ Beyond(la[i].ack, p) \in Int
      BY <2>2, <2>3, <3>1
    <3> QED BY <1>4, <3>2, <3>3
  <2>4. \A i \in 1..Len(la) : Acking(la[i]) => p + n + Beyond(la[i].ack, p + n) <= r
    BY <1>1, <1>4, <2>2
  <2>5. \A i \in 1..Len(la)-1 : i + 1 \in 1..Len(la) /\ \A j \in 1..i : j + 1 \in 1..i + 1 /\ j \in 1..Len(la)-1
    BY <2>1
  <2> QED BY <1>10, <2>1, <2>3, <2>4, <2>5 DEF AckOK
<1> QED BY <1>3, <1>9, <1>13, <1>15, <1>16 DEF Dir, l

(* pkwrite gives the next packet its number.                               *)
LEMMA PutDir ==
  ASSUME NEW k \in PackT, NEW w \in Nat, NEW r \in Nat, NEW kf, NEW ld, NEW la, Dir(k, w, ld, la, kf, r),
         k.xcount < WINDOWS, NEW l, l.ps = k.ps, l.rpr = k.rpr, l.xcount = k.xcount + 1, l.pscopy = Mod(w + 1),
         l.os[Mod(w + 1)] = "ready", l.ob[Mod(w + 1)] = w + 1,
         \A y \in Seqno : y # Mod(w + 1) => l.os[y] = k.os[y] /\ l.ob[y] = k.ob[y]
  PROVE  Dir(l, w + 1, ld, la, kf, r)
<1> DEFINE p == w - k.xcount
           x == Mod(w + 1)
<1>1. k.xcount \in Nat /\ p \in Nat /\ p \in 0..r /\ r <= w /\ w + 1 - l.xcount = p /\ w < p + WINDOWS
  <2>1. k.xcount \in 0..WINDOWS
    BY DEF PackT
  <2>2. p \in 0..r /\ r <= w
    BY DEF Dir, OutOK
  <2>3. k.xcount \in Nat /\ k.xcount < WINDOWS /\ p \in Nat
    BY <2>1, <2>2, Sizes
  <2>4. w + 1 - (k.xcount + 1) = p
    BY <2>3
  <2>5. w < p + WINDOWS
    BY <2>3, Sizes
  <2> QED BY <2>2, <2>3, <2>4, <2>5
<1>2. x \in Seqno
  <2>1. w + 1 \in Int
    OBVIOUS
  <2> QED BY <2>1, ModType
<1>3. OutOK(k, w, r) /\ Holds(k, w) /\ InOK(kf, w, r) /\ DataOK(ld, kf, k, w, r) /\ AckOK(la, p, r)
  BY DEF Dir, OutOK
<1> HIDE DEF p
<1>4. /\ \A y \in Seqno : y # x => l.os[y] = k.os[y] /\ l.ob[y] = k.ob[y]
      /\ l.os[x] = "ready" /\ l.ob[x] = w + 1
  OBVIOUS
<1>5. \A n \in p + 1..w : Mod(n) \in Seqno /\ Mod(n) # x
  <2> SUFFICES ASSUME NEW n \in p + 1..w, Mod(n) = Mod(w + 1) PROVE FALSE
    <3>1. \A n \in p + 1..w : Mod(n) \in Seqno
      BY <1>1, ModType
    <3> QED BY <3>1
  <2>1. n \in Int /\ w + 1 \in Int /\ n - (w + 1) < MOD /\ (w + 1) - n < MOD /\ n # w + 1
    BY <1>1, Sizes
  <2> QED BY <2>1, ModApart
<1> HIDE DEF x
<1>6. Holds(l, w + 1)
  <2>1. ASSUME NEW n \in p + 1..w + 1 PROVE l.os[Mod(n)] # "null" /\ l.ob[Mod(n)] = n
    <3>1. CASE n = w + 1
      BY <1>4, <3>1 DEF x
    <3>2. CASE n # w + 1
      <4>1. n \in p + 1..w
        BY <1>1, <3>2
      <4> QED BY <1>3, <1>4, <1>5, <4>1 DEF Holds, p
    <3> QED BY <3>1, <3>2
  <2>2. ASSUME NEW y \in Seqno, l.os[y] # "null" PROVE \E n \in p + 1..w + 1 : y = Mod(n)
    <3>1. CASE y = x
      <4>1. w + 1 \in p + 1..w + 1
        BY <1>1
      <4> QED BY <3>1, <4>1 DEF x
    <3>2. CASE y # x
      <4>1. PICK n \in p + 1..w : y = Mod(n)
        BY <1>3, <1>4, <2>2, <3>2 DEF Holds, p
      <4>2. n \in p + 1..w + 1
        BY <1>1
      <4> QED BY <4>1, <4>2
    <3> QED BY <3>1, <3>2
  <2> QED BY <1>1, <2>1, <2>2 DEF Holds
<1>7. OutOK(l, w + 1, r)
  <2>1. r <= w + 1
    BY <1>1
  <2> QED BY <1>1, <1>3, <1>6, <2>1 DEF OutOK, p
<1>8. \A n \in 1..w : n \in 1..w + 1 /\ (SentOK(k, w, n) => SentOK(l, w + 1, n))
  <2> SUFFICES ASSUME NEW n \in 1..w, SentOK(k, w, n), n > p PROVE l.os[Mod(n)] = "sent"
    BY <1>1 DEF SentOK
  <2>1. n \in p + 1..w
    BY <1>1
  <2> QED BY <1>4, <1>5, <2>1 DEF SentOK, p
<1>9. DataOK(ld, kf, l, w + 1, r)
  <2>1. \A n \in 1..r : n \in 1..w
    BY <1>1
  <2> QED BY <1>3, <1>8, <2>1 DEF DataOK, DataAt, InOK, Filed
<1>10. InOK(kf, w + 1, r)
  BY <1>3, <1>8 DEF InOK, Filed
<1> QED BY <1>1, <1>3, <1>7, <1>9, <1>10 DEF Dir

(* The packet at the head of the line goes into a free slot, outside of    *)
(* the window.                                                             *)
LEMMA FileDir ==
  ASSUME NEW k \in PackT, NEW kf \in PackT, NEW w \in Nat, NEW r \in Nat, NEW ld \in Seq(PacketT), NEW la,
         Dir(k, w, ld, la, kf, r), ld # <<>>, ld[1].type = "data", NEW sum \in BOOLEAN,
         NEW x \in Seqno, kf.is[x].st = "free", x \notin Residues(r, WINDOWS),
         NEW lf, lf.pr = kf.pr, lf.rcount = kf.rcount, lf.is[x] = Filled(ld[1], sum),
         \A y \in Seqno : y # x => lf.is[y] = kf.is[y]
  PROVE  Dir(k, w, Tail(ld), la, lf, r)
<1> DEFINE s == Filled(ld[1], sum)
<1>1. /\ 1 \in 1..Len(ld) /\ Len(Tail(ld)) = Len(ld) - 1 /\ Len(ld) \in Nat
      /\ \A i \in 1..Len(Tail(ld)) : Tail(ld)[i] = ld[i + 1]
  <2>1. Len(ld) \in Nat /\ Len(ld) # 0
    OBVIOUS
  <2> QED BY <2>1, HeadTailProperties, LenProperties
<1>2. OutOK(k, w, r) /\ InOK(kf, w, r) /\ DataOK(ld, kf, k, w, r) /\ AckOK(la, w - k.xcount, r)
  BY DEF Dir
<1>3. lf.is[x] = s /\ \A y \in Seqno : y # x => lf.is[y] = kf.is[y]
  OBVIOUS
<1>4. s.st = "raw" /\ s.seq = ld[1].seq /\ (s.sum => s.data = ld[1].data) /\ (Good(s) => s.sum)
  BY DEF Filled, Good
<1>5. DataAt(ld[1], kf, k, w, r)
  BY <1>1, <1>2 DEF DataOK
<1> HIDE DEF s
<1>6. Good(s) => Filed(s, w, r)
  BY <1>4, <1>5 DEF DataAt, Filed
<1>7. \A i \in 1..kf.rcount : Mod(r + i) \in Seqno /\ Mod(r + i) # x
  <2>1. \A i \in 1..kf.rcount : Mod(r + i) \in Seqno
    BY ModType
  <2> QED BY <1>2, <2>1 DEF InOK
<1>8. InOK(lf, w, r)
  BY <1>2, <1>3, <1>4, <1>6, <1>7 DEF InOK
<1>9. DataOK(Tail(ld), lf, k, w, r)
  <2>1. \A i \in 1..Len(ld)-1 : /\ i + 1 \in 1..Len(ld) /\ 1 \in 1..(i + 1)-1
                                /\ \A j \in 1..i-1 : j + 1 \in 1..(i + 1)-1 /\ j \in 1..Len(ld)-1
    BY <1>1
  <2>2. ASSUME NEW i \in 1..Len(ld)-1, ld[i + 1].type = "data"
        PROVE  /\ DataAt(ld[i + 1], lf, k, w, r)
               /\ \A j \in 1..i-1 : Tail(ld)[j].type = "data" => Tail(ld)[j].data < ld[i + 1].data + WINDOWS
    <3>1. /\ DataAt(ld[i + 1], kf, k, w, r)
          /\ \A j \in 1..(i + 1)-1 : ld[j].type = "data" => ld[j].data < ld[i + 1].data + WINDOWS
      BY <1>2, <2>1, <2>2 DEF DataOK
    <3>2. Good(s) => s.data < ld[i + 1].data + WINDOWS
      BY <1>4, <2>1, <3>1
    <3>3. DataAt(ld[i + 1], lf, k, w, r)
      BY <1>3, <3>1, <3>2 DEF DataAt
    <3> QED BY <1>1, <2>1, <3>1, <3>3
  <2>3. \A y \in Seqno : Good(lf.is[y]) => SentOK(k, w, lf.is[y].data)
    BY <1>2, <1>3, <1>4, <1>5 DEF DataOK, DataAt
  <2> QED BY <1>1, <1>2, <2>2, <2>3 DEF DataOK
<1> QED BY <1>2, <1>8, <1>9 DEF Dir

-----------------------------------------------------------------------------
(* pkaccept. A good buffer of the window is the packet its number says.    *)
Used(k) == {x \in Seqno : k.is[x].st # "free"}

LEMMA UsedFinite ==
  ASSUME NEW k
  PROVE  IsFiniteSet(Used(k)) /\ Cardinality(Used(k)) \in Nat
<1>1. IsFiniteSet(Seqno)
  <2>1. 0 \in Int /\ MOD - 1 \in Int
    BY Sizes
  <2> QED BY <2>1, FS_Interval, Sizes
<1>2. Used(k) \in SUBSET Seqno
  BY DEF Used
<1> QED BY <1>1, <1>2, FS_Subset, FS_CardinalityType

LEMMA WhichPacket ==
  ASSUME NEW r \in Nat, NEW w \in Nat, w <= r + WINDOWS, NEW s, Filed(s, w, r), NEW i \in 1..WINDOWS,
         Mod(s.data) = Mod(r + i)
  PROVE  s.data = r + i
<1>1. s.data \in Int /\ r + i \in Int /\ s.data - (r + i) < MOD /\ (r + i) - s.data < MOD
  BY Sizes DEF Filed
<1> QED BY <1>1, ModApart

LEMMA AcceptIs ==
  ASSUME NEW k \in PackT, NEW w \in Nat, NEW r \in Nat, InOK(k, w, r), w <= r + WINDOWS,
         k.pool + Cardinality(Used(k)) <= WINDOWS
  PROVE  LET l == pkaccept(k)
         IN /\ l \in PackT /\ OutSame(k, l) /\ l.pr = k.pr /\ l.state = k.state /\ l.out = k.out
            /\ Used(l) = Residues(r, l.rcount)
            /\ l.pool = k.pool + Cardinality(Used(k)) - l.rcount
            /\ \A i \in 1..l.rcount : /\ l.is[Mod(r + i)].st = "copy" /\ l.is[Mod(r + i)].data = r + i
                                      /\ l.is[Mod(r + i)].sum /\ l.is[Mod(r + i)].seq = Mod(r + i)
                                      /\ \E y \in Seqno : Good(k.is[y]) /\ k.is[y].data = r + i
<1> DEFINE used == {x \in Seqno : k.is[x].st # "free"}
           raw(x) == {y \in used : k.is[y].st = "raw" /\ k.is[y].sum /\ k.is[y].seq = x}
           there == {x \in Window(k) : k.is[x].st = "copy" \/ raw(x) # {}}
           runs == {n \in 0..WINDOWS : \A i \in 1..n : (k.pr + i) % MOD \in there}
           run == Max(runs)
           kept == {(k.pr + i) % MOD : i \in 1..run}
           buffer(x) == IF k.is[x].st = "copy" THEN x ELSE Min(raw(x))
           good == {x \in used : k.is[x].sum}
           is == [x \in Seqno |-> IF x \in kept THEN [k.is[buffer(x)] EXCEPT !.st = "copy"] ELSE FreeSlot]
           msg == k.msg \cup (IF good # used THEN {"RJ"} ELSE {})
                        \cup (IF Cardinality(good) > run THEN {"RR"} ELSE {})
           l == pkaccept(k)
<1>1. l = [k EXCEPT !.is = is, !.rcount = run, !.pool = k.pool + Cardinality(used) - run, !.msg = msg]
  BY DEF pkaccept, PackT
<1>2. \A i \in Int : (k.pr + i) % MOD = Mod(r + i)
  <2>1. k.pr = Mod(r)
    BY DEF InOK
  <2> SUFFICES ASSUME NEW i \in Int PROVE (k.pr + i) % MOD = Mod(r + i)
    OBVIOUS
  <2>2. (k.pr + i) % MOD = Mod(Mod(r) + i)
    BY <2>1 DEF Mod
  <2> QED BY <2>2, ModAdd
<1>3. run \in 0..WINDOWS /\ \A i \in 1..run : Mod(r + i) \in there
  <2>1. 0 \in runs
    BY Sizes
  <2>2. runs \subseteq 0..WINDOWS
    OBVIOUS
  <2>3. run \in runs
    <3> HIDE DEF runs
    <3> QED BY <2>1, <2>2, MaxType, Sizes
  <2> HIDE DEF run
  <2>4. run \in 0..WINDOWS /\ \A i \in 1..run : (k.pr + i) % MOD \in there
    BY <2>3
  <2> HIDE DEF there
  <2>5. \A i \in 1..run : i \in Int
    OBVIOUS
  <2> QED BY <1>2, <2>4, <2>5
<1> HIDE DEF run
<1>4. kept = Residues(r, run)
  <2>1. \A i \in 1..run : i \in Int
    OBVIOUS
  <2> QED BY <1>2, <2>1 DEF Residues
<1> HIDE DEF kept
<1>5. used = Used(k)
  BY DEF Used
<1>6. k.is \in [Seqno -> SlotT] /\ \A i \in 1..run : Mod(r + i) \in Seqno
  <2>1. \A i \in 1..run : r + i \in Int
    OBVIOUS
  <2> QED BY <2>1, ModType DEF PackT
<1>7. \A i \in 1..run : /\ buffer(Mod(r + i)) \in used /\ Good(k.is[buffer(Mod(r + i))])
                        /\ k.is[buffer(Mod(r + i))].data = r + i /\ k.is[buffer(Mod(r + i))].seq = Mod(r + i)
  <2> SUFFICES ASSUME NEW i \in 1..run
               PROVE  LET y == buffer(Mod(r + i))
                      IN y \in used /\ Good(k.is[y]) /\ k.is[y].data = r + i /\ k.is[y].seq = Mod(r + i)
    OBVIOUS
  <2> DEFINE x == Mod(r + i)
             y == buffer(x)
  <2>1. x \in Seqno /\ x \in there /\ i \in 1..WINDOWS
    <3>1. i \in 1..WINDOWS
      BY <1>3, Sizes
    <3>2. x \in Seqno
      BY <1>6
    <3>3. x \in there
      <4> HIDE DEF there
      <4> QED BY <1>3
    <3> QED BY <3>1, <3>2, <3>3
  <2>2. CASE k.is[x].st = "copy"
    <3>1. y = x /\ x \in used /\ Good(k.is[x])
      BY <2>1, <2>2 DEF InOK, Good
    <3>2. Filed(k.is[x], w, r)
      BY <2>1, <3>1 DEF InOK
    <3>3. PICK j \in 1..k.rcount : x = Mod(r + j)
      BY <2>1, <2>2 DEF InOK, Residues
    <3>4. k.is[x].data = r + j
      BY <3>3 DEF InOK
    <3>5. Mod(k.is[x].data) = Mod(r + i)
      BY <3>3, <3>4
    <3>6. k.is[x].data = r + i
      BY <2>1, <3>2, <3>5, WhichPacket
    <3> QED BY <3>1, <3>2, <3>5, <3>6 DEF Filed
  <2>3. CASE k.is[x].st # "copy"
    <3>1. y = Min(raw(x)) /\ raw(x) # {} /\ raw(x) \subseteq Nat
      BY <2>1, <2>3, Sizes
    <3>2. y \in raw(x)
      <4> DEFINE rs == raw(x)
      <4> HIDE DEF rs, y
      <4>1. Min(rs) \in rs
        BY <3>1, MinType DEF rs
      <4> QED BY <3>1, <4>1 DEF rs
    <3> HIDE DEF y
    <3>3. y \in used /\ y \in Seqno /\ Good(k.is[y]) /\ k.is[y].seq = x
      BY <3>2 DEF Good
    <3>4. Filed(k.is[y], w, r)
      BY <3>3 DEF InOK
    <3>5. Mod(k.is[y].data) = Mod(r + i)
      BY <3>3, <3>4 DEF Filed
    <3>6. k.is[y].data = r + i
      BY <2>1, <3>4, <3>5, WhichPacket
    <3> QED BY <3>3, <3>6 DEF y
  <2> QED BY <2>2, <2>3
<1> HIDE DEF there, raw
<1>8. IsFiniteSet(used) /\ Cardinality(used) \in Nat
  BY <1>5, UsedFinite
<1>9. run <= Cardinality(used)
  <2> DEFINE f == [x \in kept |-> buffer(x)]
  <2>1. \A x \in kept : \E i \in 1..run : x = Mod(r + i)
    BY <1>4 DEF Residues
  <2> HIDE DEF buffer, used
  <2>2. \A x \in kept : f[x] \in used
    BY <1>7, <2>1
  <2>3. \A x, z \in kept : f[x] = f[z] => x = z
    <3> SUFFICES ASSUME NEW x \in kept, NEW z \in kept, buffer(x) = buffer(z) PROVE x = z
      OBVIOUS
    <3>1. PICK i \in 1..run : x = Mod(r + i)
      BY <2>1
    <3>2. PICK j \in 1..run : z = Mod(r + j)
      BY <2>1
    <3>3. k.is[buffer(x)].data = r + i /\ k.is[buffer(z)].data = r + j
      BY <1>7, <3>1, <3>2
    <3>4. r + i = r + j
      BY <3>3
    <3> QED BY <3>1, <3>2, <3>4
  <2>4. f \in Injection(kept, used)
    BY <2>2, <2>3 DEF Injection, IsInjective
  <2>5. Cardinality(kept) = run
    <3>1. run \in 0..MOD
      BY <1>3, Sizes
    <3> QED BY <1>4, <3>1, ResiduesCount
  <2> HIDE DEF f
  <2> QED BY <1>8, <2>4, <2>5, FS_Injection
<1>10. \A x \in kept : /\ x \in Seqno /\ is[x].st = "copy" /\ is[x].sum = k.is[buffer(x)].sum
                       /\ is[x].data = k.is[buffer(x)].data /\ is[x].seq = k.is[buffer(x)].seq /\ is[x] \in SlotT
  <2> SUFFICES ASSUME NEW x \in kept
               PROVE  /\ x \in Seqno /\ is[x].st = "copy" /\ is[x].sum = k.is[buffer(x)].sum
                      /\ is[x].data = k.is[buffer(x)].data /\ is[x].seq = k.is[buffer(x)].seq /\ is[x] \in SlotT
    OBVIOUS
  <2>1. x \in Seqno /\ buffer(x) \in used
    BY <1>4, <1>6, <1>7 DEF Residues
  <2>2. k.is[buffer(x)] \in SlotT
    BY <1>6, <2>1
  <2>3. is[x] = [k.is[buffer(x)] EXCEPT !.st = "copy"]
    BY <2>1
  <2> HIDE DEF is, buffer, used
  <2> QED BY <2>1, <2>2, <2>3 DEF SlotT
<1>11. \A x \in Seqno : x \notin kept => is[x] = FreeSlot
  OBVIOUS
<1>12. is \in [Seqno -> SlotT]
  <2>1. FreeSlot \in SlotT
    BY Sizes DEF FreeSlot, SlotT
  <2>2. \A x \in Seqno : is[x] \in SlotT
    <3> HIDE DEF is
    <3> QED BY <1>10, <1>11, <2>1
  <2> QED BY <2>2
<1>13. msg \in SUBSET Message
  BY MessageIs DEF PackT
<1> HIDE DEF is, msg, buffer, used, good
<1>14. k.pool + Cardinality(used) - run \in 0..WINDOWS
  <2>1. k.pool \in 0..WINDOWS
    BY DEF PackT
  <2> QED BY <1>3, <1>5, <1>8, <1>9, <2>1, Sizes
<1>15. l \in PackT
  <2> DEFINE k1 == [k EXCEPT !.is = is, !.rcount = run]
  <2>1. k1 \in PackT
    BY <1>3, <1>12 DEF PackT
  <2>2. l = [k1 EXCEPT !.pool = k.pool + Cardinality(used) - run, !.msg = msg]
    BY <1>1 DEF PackT
  <2> HIDE DEF k1, l
  <2> QED BY <1>13, <1>14, <2>1, <2>2 DEF PackT
<1>16. /\ OutSame(k, l) /\ l.pr = k.pr /\ l.state = k.state /\ l.out = k.out /\ l.is = is /\ l.rcount = run
       /\ l.pool = k.pool + Cardinality(used) - run
  BY <1>1 DEF PackT, OutSame
<1> HIDE DEF l
<1>17. Used(l) = Residues(r, l.rcount)
  <2>1. \A x \in Seqno : is[x].st # "free" <=> x \in kept
    BY <1>10, <1>11 DEF FreeSlot
  <2>2. \A x \in kept : x \in Seqno
    BY <1>10
  <2> QED BY <1>4, <1>16, <2>1, <2>2 DEF Used
<1>18. \A i \in 1..run : Mod(r + i) \in kept
  BY <1>4 DEF Residues
<1>19. \A y \in used : y \in Seqno
  BY DEF used
<1>20. \A i \in 1..run : /\ is[Mod(r + i)].st = "copy" /\ is[Mod(r + i)].data = r + i
                         /\ is[Mod(r + i)].sum /\ is[Mod(r + i)].seq = Mod(r + i)
                         /\ \E y \in Seqno : Good(k.is[y]) /\ k.is[y].data = r + i
  BY <1>7, <1>10, <1>18, <1>19 DEF Good
<1> QED BY <1>5, <1>15, <1>16, <1>17, <1>20 DEF l

(* How far the two ends are apart.                                         *)
LEMMA DirApart ==
  ASSUME NEW k \in PackT, NEW w \in Nat, NEW r \in Nat, NEW kf, NEW ld, NEW la, Dir(k, w, ld, la, kf, r)
  PROVE  r <= w /\ w <= r + WINDOWS /\ w - k.xcount <= r /\ w - k.xcount \in Nat /\ k.xcount \in Nat
<1>1. k.xcount \in 0..WINDOWS
  BY DEF PackT
<1>2. r <= w /\ w - k.xcount \in 0..r
  BY DEF Dir, OutOK
<1> QED BY <1>1, <1>2, Sizes

LEMMA AcceptDir ==
  ASSUME NEW k \in PackT, NEW kf \in PackT, NEW w \in Nat, NEW r \in Nat, NEW ld, NEW la,
         Dir(k, w, ld, la, kf, r), kf.pool + Cardinality(Used(kf)) <= WINDOWS
  PROVE  Dir(k, w, ld, la, pkaccept(kf), r)
<1> DEFINE l == pkaccept(kf)
<1>1. OutOK(k, w, r) /\ InOK(kf, w, r) /\ DataOK(ld, kf, k, w, r) /\ AckOK(la, w - k.xcount, r)
  BY DEF Dir
<1>2. w <= r + WINDOWS
  BY DirApart
<1>3. /\ l \in PackT /\ l.pr = kf.pr /\ Used(l) = Residues(r, l.rcount)
      /\ \A i \in 1..l.rcount : /\ l.is[Mod(r + i)].st = "copy" /\ l.is[Mod(r + i)].data = r + i
                                /\ l.is[Mod(r + i)].sum /\ l.is[Mod(r + i)].seq = Mod(r + i)
                                /\ \E y \in Seqno : Good(kf.is[y]) /\ kf.is[y].data = r + i
  BY <1>1, <1>2, AcceptIs
<1> HIDE DEF l
<1>4. \A x \in Seqno : l.is[x].st # "free" => \E i \in 1..l.rcount : x = Mod(r + i)
  BY <1>3 DEF Used, Residues
<1>5. ASSUME NEW x \in Seqno, Good(l.is[x])
      PROVE  Filed(l.is[x], w, r) /\ \E y \in Seqno : Good(kf.is[y]) /\ kf.is[y].data = l.is[x].data
  <2>1. PICK i \in 1..l.rcount : x = Mod(r + i)
    BY <1>4, <1>5 DEF Good
  <2>2. PICK y \in Seqno : Good(kf.is[y]) /\ kf.is[y].data = r + i
    BY <1>3
  <2>3. Filed(kf.is[y], w, r)
    BY <1>1, <2>2 DEF InOK
  <2>4. l.is[x].data = kf.is[y].data /\ l.is[x].seq = Mod(kf.is[y].data)
    BY <1>3, <2>1, <2>2
  <2> QED BY <2>2, <2>3, <2>4 DEF Filed
<1>6. InOK(l, w, r)
  <2>1. \A x \in Seqno : l.is[x].st = "raw" => x \notin Residues(r, WINDOWS)
    BY <1>3, <1>4
  <2>2. \A x \in Seqno : l.is[x].st = "copy" => l.is[x].sum /\ x \in Residues(r, l.rcount)
    BY <1>3, <1>4 DEF Residues
  <2> QED BY <1>1, <1>3, <1>5, <2>1, <2>2 DEF InOK
<1>7. DataOK(ld, l, k, w, r)
  <2>1. \A x \in Seqno : Good(l.is[x]) => SentOK(k, w, l.is[x].data)
    BY <1>1, <1>5 DEF DataOK
  <2>2. ASSUME NEW q, DataAt(q, kf, k, w, r) PROVE DataAt(q, l, k, w, r)
    BY <1>5, <2>2 DEF DataAt
  <2> QED BY <1>1, <2>1, <2>2 DEF DataOK
<1> QED BY <1>1, <1>6, <1>7 DEF Dir, l

(* pkread, after pkaccept: the first n packets that it may take are read.  *)
Without(k, l, r, n) == \A x \in Seqno : l.is[x] = IF x \in Residues(r, n) THEN FreeSlot ELSE k.is[x]
LEMMA ReadDir ==
  ASSUME NEW k \in PackT, NEW kf \in PackT, NEW w \in Nat, NEW r \in Nat, NEW ld, NEW la \in Seq(PacketT),
         Dir(k, w, ld, la, kf, r), Used(kf) = Residues(r, kf.rcount), NEW n \in Nat, n \in 1..kf.rcount,
         NEW lf, lf.pr = Mod(r + n), lf.rcount = kf.rcount - n, Without(kf, lf, r, n)
  PROVE  Dir(k, w, ld, la, lf, r + n) /\ Used(lf) = Residues(r + n, lf.rcount) /\ r + n <= w
<1> DEFINE p == w - k.xcount
<1>1. OutOK(k, w, r) /\ InOK(kf, w, r) /\ DataOK(ld, kf, k, w, r) /\ AckOK(la, p, r)
  BY DEF Dir
<1>2. r <= w /\ w <= r + WINDOWS /\ p <= r /\ p \in Nat
  BY DirApart
<1> HIDE DEF p
<1>3. kf.rcount \in 0..WINDOWS /\ n \in Int /\ n >= 1 /\ n <= kf.rcount /\ kf.rcount \in Int /\ n \in Nat
  <2>1. kf.rcount \in 0..WINDOWS
    BY DEF PackT
  <2> QED BY <2>1, Sizes
<1>4. \A x \in Seqno : kf.is[x].st # "free" => \E i \in 1..kf.rcount : x = Mod(r + i)
  BY DEF Used, Residues
<1>5. \A i \in 1..kf.rcount : Mod(r + i) \in Seqno
  <2>1. \A i \in 1..kf.rcount : r + i \in Int
    BY <1>3
  <2> QED BY <2>1, ModType
<1>6. \A i \in 1..kf.rcount : /\ kf.is[Mod(r + i)].st = "copy" /\ kf.is[Mod(r + i)].data = r + i
                              /\ Good(kf.is[Mod(r + i)]) /\ r + i \in 1..w
  <2>1. \A i \in 1..kf.rcount : kf.is[Mod(r + i)].st = "copy" /\ kf.is[Mod(r + i)].data = r + i
    BY <1>1 DEF InOK
  <2>2. \A i \in 1..kf.rcount : Good(kf.is[Mod(r + i)])
    BY <1>1, <1>5, <2>1 DEF InOK, Good
  <2> QED BY <1>1, <1>5, <2>1, <2>2 DEF InOK, Filed
<1>7. \A i \in 1..kf.rcount : Mod(r + i) \in Residues(r, n) <=> i <= n
  <2> SUFFICES ASSUME NEW i \in 1..kf.rcount, NEW j \in 1..n, Mod(r + i) = Mod(r + j) PROVE i = j
    BY <1>3 DEF Residues
  <2>1. i \in 1..MOD-1 /\ j \in 1..MOD-1
    BY <1>3, Sizes
  <2>2. r + i \in Int /\ r + j \in Int /\ (r + i) - (r + j) < MOD /\ (r + j) - (r + i) < MOD
    BY <2>1, Sizes
  <2>3. r + i = r + j
    BY <2>2, ModApart
  <2> QED BY <2>3
<1>8. \A x \in Seqno : lf.is[x] = IF x \in Residues(r, n) THEN FreeSlot ELSE kf.is[x]
  BY DEF Without
<1>9. \A x \in Seqno : lf.is[x].st # "free" =>
        lf.is[x] = kf.is[x] /\ \E i \in 1..lf.rcount : x = Mod(r + n + i) /\ x = Mod(r + (n + i)) /\ n + i \in 1..kf.rcount
  <2> SUFFICES ASSUME NEW x \in Seqno, lf.is[x].st # "free"
               PROVE  lf.is[x] = kf.is[x]
                      /\ \E i \in 1..lf.rcount : x = Mod(r + n + i) /\ x = Mod(r + (n + i)) /\ n + i \in 1..kf.rcount
    OBVIOUS
  <2>1. x \notin Residues(r, n) /\ lf.is[x] = kf.is[x]
    BY <1>8 DEF FreeSlot
  <2>2. PICK i \in 1..kf.rcount : x = Mod(r + i)
    BY <1>4, <2>1
  <2>3. i > n
    BY <1>3, <1>7, <2>1, <2>2
  <2>5. r + n + (i - n) = r + i /\ n + (i - n) = i
    BY <1>3, <2>3
  <2>6. i - n \in 1..kf.rcount - n
    BY <1>3, <2>3
  <2>4. i - n \in 1..lf.rcount /\ r + n + (i - n) = r + i /\ n + (i - n) = i
    BY <2>5, <2>6
  <2> QED BY <2>1, <2>2, <2>4
<1>10. \A i \in 1..lf.rcount : /\ n + i \in 1..kf.rcount /\ r + n + i = r + (n + i) /\ n + i > n
                               /\ lf.is[Mod(r + n + i)] = kf.is[Mod(r + (n + i))] /\ Mod(r + n + i) \in Seqno
  <2> SUFFICES ASSUME NEW i \in 1..lf.rcount
               PROVE  /\ n + i \in 1..kf.rcount /\ r + n + i = r + (n + i) /\ n + i > n
                      /\ lf.is[Mod(r + n + i)] = kf.is[Mod(r + (n + i))] /\ Mod(r + n + i) \in Seqno
    OBVIOUS
  <2>1. n + i \in 1..kf.rcount /\ r + n + i = r + (n + i) /\ n + i > n /\ ~(n + i <= n)
    <3>1. i \in 1..kf.rcount - n
      OBVIOUS
    <3> QED BY <1>3, <3>1
  <2>2. Mod(r + (n + i)) \notin Residues(r, n) /\ Mod(r + (n + i)) \in Seqno
    BY <1>5, <1>7, <2>1
  <2> QED BY <1>8, <2>1, <2>2
<1>11. r + n \in 1..w /\ r + n \in Nat
  BY <1>3, <1>6
<1>12. OutOK(k, w, r + n)
  <2>1. w - k.xcount \in 0..r + n /\ r + n <= w
    BY <1>2, <1>11 DEF p
  <2> QED BY <1>1, <2>1 DEF OutOK
<1>13. InOK(lf, w, r + n)
  <2>1. \A i \in 1..lf.rcount : lf.is[Mod(r + n + i)].st = "copy" /\ lf.is[Mod(r + n + i)].data = r + n + i
    BY <1>6, <1>10
  <2>2. ASSUME NEW x \in Seqno, lf.is[x].st = "copy" PROVE lf.is[x].sum /\ x \in Residues(r + n, lf.rcount)
    <3>1. lf.is[x] = kf.is[x] /\ \E i \in 1..lf.rcount : x = Mod(r + n + i)
      BY <1>9, <2>2
    <3>2. kf.is[x].sum
      BY <1>1, <2>2, <3>1 DEF InOK
    <3> QED BY <3>1, <3>2 DEF Residues
  <2>3. \A x \in Seqno : lf.is[x].st = "raw" => x \notin Residues(r + n, WINDOWS)
    BY <1>6, <1>9
  <2>4. ASSUME NEW x \in Seqno, Good(lf.is[x]) PROVE Filed(lf.is[x], w, r + n)
    <3>1. lf.is[x] = kf.is[x] /\ Good(kf.is[x])
      BY <1>9, <2>4 DEF Good
    <3>2. Filed(kf.is[x], w, r)
      BY <1>1, <3>1 DEF InOK
    <3>3. PICK i \in 1..lf.rcount : x = Mod(r + (n + i)) /\ n + i \in 1..kf.rcount
      BY <1>9, <2>4 DEF Good
    <3>4. kf.is[x].data = r + (n + i)
      BY <1>6, <3>3
    <3>5. r + n < r + (n + i) + WINDOWS
      BY <1>3, Sizes
    <3> QED BY <3>1, <3>2, <3>4, <3>5 DEF Filed
  <2> QED BY <2>1, <2>2, <2>3, <2>4 DEF InOK
<1>14. DataOK(ld, lf, k, w, r + n)
  <2>1. \A x \in Seqno : Good(lf.is[x]) => Good(kf.is[x]) /\ lf.is[x] = kf.is[x]
    BY <1>9 DEF Good
  <2>2. ASSUME NEW q, DataAt(q, kf, k, w, r) PROVE DataAt(q, lf, k, w, r + n)
    <3>1. kf.is[Mod(r + n)].data < q.data + WINDOWS /\ kf.is[Mod(r + n)].data = r + n
      BY <1>5, <1>6, <2>2 DEF DataAt
    <3> QED BY <2>1, <2>2, <3>1 DEF DataAt
  <2>3. \A x \in Seqno : Good(lf.is[x]) => SentOK(k, w, lf.is[x].data)
    BY <1>1, <2>1 DEF DataOK
  <2>4. ASSUME NEW m \in 1..r + n PROVE SentOK(k, w, m)
    <3>1. CASE m <= r
      BY <1>1, <1>3, <3>1 DEF DataOK
    <3>2. CASE m > r
      <4>1. m - r \in 1..kf.rcount /\ r + (m - r) = m
        BY <1>3, <3>2
      <4> QED BY <1>1, <1>5, <1>6, <4>1 DEF DataOK
    <3> QED BY <1>3, <3>1, <3>2
  <2> QED BY <1>1, <2>2, <2>3, <2>4 DEF DataOK
<1>15. AckOK(la, p, r + n)
  <2>1. ASSUME NEW i \in 1..Len(la), Acking(la[i]) PROVE p + Beyond(la[i].ack, p) <= r + n
    <3>1. la[i] \in PacketT
      OBVIOUS
    <3>2. la[i].ack - p \in Int
      <4>1. la[i].ack \in Seqno
        BY <3>1 DEF PacketT
      <4>2. la[i].ack \in Int
        BY <4>1, Sizes
      <4> QED BY <1>2, <4>2
    <3>3. Beyond(la[i].ack, p) \in Int
      BY <3>2, ModType DEF Beyond
    <3>4. p + Beyond(la[i].ack, p) <= r
      BY <1>1, <2>1 DEF AckOK
    <3> QED BY <1>2, <1>3, <3>3, <3>4
  <2> QED BY <1>1, <2>1 DEF AckOK
<1>16. Used(lf) = Residues(r + n, lf.rcount)
  <2>1. \A x \in Used(lf) : x \in Residues(r + n, lf.rcount)
    BY <1>9 DEF Used, Residues
  <2>2. \A i \in 1..lf.rcount : Mod(r + n + i) \in Used(lf)
    BY <1>6, <1>10 DEF Used
  <2> QED BY <2>1, <2>2 DEF Residues
<1> QED BY <1>11, <1>12, <1>13, <1>14, <1>15, <1>16 DEF Dir, p

-----------------------------------------------------------------------------
(* Both directions: an end has struct pack k, has written w and read r;    *)
(* "in" travels to it and "out" to the other, which has f, wf and rf.      *)
Both(k, w, r, in, out, f, wf, rf) ==
  /\ k \in PackT /\ f \in PackT /\ w \in Nat /\ r \in Nat /\ wf \in Nat /\ rf \in Nat
  /\ in \in Seq(PacketT) /\ out \in Seq(PacketT)
  /\ Dir(k, w, out, in, f, rf) /\ Dir(f, wf, in, out, k, r)

LEMMA BothFrame ==
  ASSUME NEW k, NEW l \in PackT, NEW f, NEW w, NEW r, NEW wf, NEW rf, NEW in, NEW out,
         Both(k, w, r, in, out, f, wf, rf), OutSame(k, l), InSame(k, l)
  PROVE  Both(l, w, r, in, out, f, wf, rf)
<1>1. OutSame(f, f) /\ InSame(f, f)
  BY DEF OutSame, InSame
<1>2. Dir(l, w, out, in, f, rf)
  BY <1>1, DirFrame DEF Both
<1>3. Dir(f, wf, in, out, l, r)
  BY <1>1, DirFrame DEF Both
<1> QED BY <1>2, <1>3 DEF Both

LEMMA BothTail ==
  ASSUME NEW k, NEW f, NEW w, NEW r, NEW wf, NEW rf, NEW in, NEW out, in # <<>>,
         Both(k, w, r, in, out, f, wf, rf)
  PROVE  Both(k, w, r, Tail(in), out, f, wf, rf)
<1>1. in \in Seq(PacketT) /\ out \in Seq(PacketT) /\ Tail(in) \in Seq(PacketT)
  BY HeadTailProperties DEF Both
<1> QED BY <1>1, DirTail DEF Both

LEMMA BothOutput ==
  ASSUME NEW k, NEW f, NEW w, NEW r, NEW wf, NEW rf, NEW in, NEW out, k.out = <<>>,
         Both(k, w, r, in, out, f, wf, rf)
  PROVE  Both(pkoutput(k), w, r, in, out \o pkoutput(k).out, f, wf, rf)
<1> USE DEF Both
<1>1. Dir(pkoutput(k), w, out \o pkoutput(k).out, in, f, rf)
  BY OutputSends
<1>2. Dir(f, wf, in, out \o pkoutput(k).out, pkoutput(k), r)
  BY OutputAcks
<1>3. pkoutput(k) \in PackT
  BY OutputIs
<1>4. out \o pkoutput(k).out \in Seq(PacketT)
  <2>1. pkoutput(k).out \in Seq(PacketT)
    BY <1>3 DEF PackT
  <2> QED BY <2>1, ConcatProperties
<1> QED BY <1>1, <1>2, <1>3, <1>4

(* The acknowledgement of the packet at the head of the line is taken.     *)
LEMMA BothSack ==
  ASSUME NEW k, NEW f, NEW w, NEW r, NEW wf, NEW rf, NEW in, NEW out, Both(k, w, r, in, out, f, wf, rf),
         in # <<>>, Acking(in[1]), NEW k1 \in PackT, k1.rpr = in[1].ack, InSame(k, k1),
         k1.ps = k.ps, k1.pscopy = k.pscopy, k1.xcount = k.xcount, k1.os = k.os, k1.ob = k.ob
  PROVE  /\ Dir(pksack(k1), w, out, Tail(in), f, rf) /\ Dir(f, wf, in, out, pksack(k1), r)
         /\ pksack(k1) \in PackT /\ InSame(k1, pksack(k1)) /\ pksack(k1).pool = k1.pool
         /\ pksack(k1).out = k1.out /\ pksack(k1).state = k1.state /\ pksack(k1).msg = k1.msg
         /\ pksack(k1).rmsg = k1.rmsg /\ pksack(k1).connodata = k1.connodata
<1> DEFINE l == pksack(k1)
<1> USE DEF Both
<1>1. /\ Dir(l, w, out, Tail(in), f, rf) /\ l \in PackT /\ InSame(k1, l) /\ l.pool = k1.pool
      /\ l.out = k1.out /\ l.state = k1.state /\ l.msg = k1.msg
      /\ l.rmsg = k1.rmsg /\ l.connodata = k1.connodata
  BY SackDir
<1> HIDE DEF l
<1>2. OutSame(f, f) /\ InSame(k, l)
  BY <1>1 DEF OutSame, InSame
<1>3. Dir(f, wf, in, out, l, r)
  BY <1>2, DirFrame
<1> QED BY <1>1, <1>3 DEF l

(* The states and messages that k may get.                                 *)
Told(k, l) ==
  /\ l \in PackT /\ OutSame(k, l) /\ InSame(k, l) /\ l.pool = k.pool /\ l.out = k.out /\ l.connodata = k.connodata

LEMMA TellIs ==
  ASSUME NEW k \in PackT, NEW s \in SUBSET State, NEW m \in SUBSET Message, NEW x \in SUBSET {"INITA", "INITB"},
         NEW l, l = [k EXCEPT !.state = s, !.msg = m, !.rmsg = x]
  PROVE  Told(k, l)
BY DEF Told, PackT, OutSame, InSame

LEMMA HandledIs ==
  ASSUME NEW k \in PackT, NEW type
  PROVE  Told(k, Handled(k, type))
<1>1. k.state \in SUBSET State /\ k.msg \in SUBSET Message /\ k.rmsg \in SUBSET {"INITA", "INITB"}
  BY DEF PackT
<1> DEFINE Is(s, m, x) == Handled(k, type) = [k EXCEPT !.state = s, !.msg = m, !.rmsg = x]
<1>2. CASE type = "INITA"
  <2>1. Is(k.state \cup {"INITa"}, k.msg \cup {"INITB"}, k.rmsg \cup {"INITB"})
    BY <1>2 DEF Handled, PackT
  <2>2. k.state \cup {"INITa"} \in SUBSET State /\ k.msg \cup {"INITB"} \in SUBSET Message
        /\ k.rmsg \cup {"INITB"} \in SUBSET {"INITA", "INITB"}
    BY <1>1, MessageIs DEF State
  <2> QED BY <2>1, <2>2, TellIs
<1>3. CASE type = "INITB" /\ Live(k)
  <2>1. Is(k.state, k.msg \cup {"INITC"}, k.rmsg)
    BY <1>3 DEF Handled, PackT
  <2>2. k.msg \cup {"INITC"} \in SUBSET Message
    BY <1>1, MessageIs
  <2> QED BY <1>1, <2>1, <2>2, TellIs
<1>4. CASE type = "INITB" /\ ~Live(k) /\ "INITa" \notin k.state
  <2>1. Is(k.state \cup {"INITb"}, k.msg, k.rmsg)
    BY <1>4 DEF Handled, PackT
  <2>2. k.state \cup {"INITb"} \in SUBSET State
    BY <1>1 DEF State
  <2> QED BY <1>1, <2>1, <2>2, TellIs
<1>5. CASE type = "INITB" /\ ~Live(k) /\ "INITa" \in k.state
  <2>1. Is(k.state \cup {"INITb"}, k.msg \cup {"INITC"}, k.rmsg \ {"INITA"})
    BY <1>5 DEF Handled, PackT
  <2>2. k.state \cup {"INITb"} \in SUBSET State /\ k.msg \cup {"INITC"} \in SUBSET Message
        /\ k.rmsg \ {"INITA"} \in SUBSET {"INITA", "INITB"}
    BY <1>1, MessageIs DEF State
  <2> QED BY <2>1, <2>2, TellIs
<1>6. CASE type = "INITC" /\ {"INITa", "INITb"} \subseteq k.state
  <2>1. Is({"LIVE"}, k.msg, k.rmsg \ {"INITB"})
    BY <1>6 DEF Handled, PackT
  <2>2. {"LIVE"} \in SUBSET State /\ k.rmsg \ {"INITB"} \in SUBSET {"INITA", "INITB"}
    BY <1>1 DEF State
  <2> QED BY <1>1, <2>1, <2>2, TellIs
<1>7. CASE type = "INITC" /\ ~({"INITa", "INITb"} \subseteq k.state)
  <2>1. Is(k.state, k.msg \cup {"INITB"}, k.rmsg)
    BY <1>7 DEF Handled, PackT
  <2>2. k.msg \cup {"INITB"} \in SUBSET Message
    BY <1>1, MessageIs
  <2> QED BY <1>1, <2>1, <2>2, TellIs
<1>8. CASE type = "RJ"
  <2>1. Is(k.state \cup {"RXMIT"}, k.msg \cup {"RR"}, k.rmsg)
    BY <1>8 DEF Handled, PackT
  <2>2. k.state \cup {"RXMIT"} \in SUBSET State /\ k.msg \cup {"RR"} \in SUBSET Message
    BY <1>1, MessageIs DEF State
  <2> QED BY <1>1, <2>1, <2>2, TellIs
<1>9. CASE type \notin {"INITA", "INITB", "INITC", "RJ"}
  <2>1. Is(k.state, k.msg, k.rmsg)
    BY <1>9 DEF Handled, PackT
  <2> QED BY <1>1, <2>1, TellIs
<1> QED BY <1>2, <1>3, <1>4, <1>5, <1>6, <1>7, <1>8, <1>9

-----------------------------------------------------------------------------
(* pkdata. A buffer was taken, so not all of the WINDOWS slots from p_pr   *)
(* downwards are used: the packet goes there, outside of the window.       *)
LEMMA FreeBelow ==
  ASSUME NEW k \in PackT, NEW r \in Nat, k.pr = Mod(r), Cardinality(Used(k)) < WINDOWS
  PROVE  LET free == {i \in 0..MOD-2 : k.is[(k.pr - i) % MOD].st = "free"}
             x == (k.pr - Min(free)) % MOD
         IN free # {} /\ x \in Seqno /\ k.is[x].st = "free" /\ x \notin Residues(r, WINDOWS)
<1> DEFINE free == {i \in 0..MOD-2 : k.is[(k.pr - i) % MOD].st = "free"}
           x == (k.pr - Min(free)) % MOD
           below == Residues(r - WINDOWS, WINDOWS)
<1>1. \A i \in Int : (k.pr - i) % MOD = Mod(r - i)
  <2> SUFFICES ASSUME NEW i \in Int PROVE (k.pr - i) % MOD = Mod(r - i)
    OBVIOUS
  <2>1. -i \in Int /\ Mod(r) \in Int
    BY ModType
  <2>2. Mod(Mod(r) + (-i)) = Mod(r + (-i))
    BY <2>1, ModAdd
  <2>3. Mod(r) + (-i) = Mod(r) - i /\ r + (-i) = r - i
    BY <2>1
  <2> QED BY <2>2, <2>3 DEF Mod
<1>2. ~(below \subseteq Used(k))
  <2>1. r - WINDOWS \in Int /\ WINDOWS \in 0..MOD
    BY Sizes
  <2>2. Cardinality(below) = WINDOWS
    BY <2>1, ResiduesCount
  <2>3. IsFiniteSet(Used(k)) /\ Cardinality(Used(k)) \in Nat
    BY UsedFinite
  <2> HIDE DEF below
  <2> SUFFICES ASSUME below \subseteq Used(k) PROVE FALSE
    OBVIOUS
  <2>4. Cardinality(below) <= Cardinality(Used(k))
    BY <2>3, FS_Subset
  <2> QED BY <2>2, <2>3, <2>4, Sizes
<1>3. PICK i \in 1..WINDOWS : Mod(r - WINDOWS + i) \notin Used(k)
  BY <1>2 DEF Residues
<1>4. /\ WINDOWS - i \in 0..WINDOWS-1 /\ WINDOWS - i \in 0..MOD-2 /\ WINDOWS - i \in Int
      /\ r - WINDOWS + i = r - (WINDOWS - i) /\ r - (WINDOWS - i) \in Int
  BY Sizes
<1>5. WINDOWS - i \in free
  <2>1. Mod(r - (WINDOWS - i)) \in Seqno
    BY <1>4, ModType
  <2> QED BY <1>1, <1>3, <1>4, <2>1 DEF Used
<1>6. free \subseteq Nat /\ free \subseteq 0..MOD-2
  OBVIOUS
<1>7. Min(free) \in free /\ Min(free) <= WINDOWS - i
  <2> HIDE DEF free
  <2> QED BY <1>5, <1>6, MinType
<1> DEFINE m == Min(free)
<1>8. m \in 0..WINDOWS-1 /\ m \in Int
  <2> HIDE DEF free
  <2>1. m \in Nat
    BY <1>6, <1>7
  <2> QED BY <1>4, <1>7, <2>1, Sizes
<1>9. k.is[x].st = "free"
  BY <1>7
<1> HIDE DEF m
<1>10. x = Mod(r - m)
  BY <1>1, <1>8 DEF m
<1>11. x \in Seqno
  <2>1. r - m \in Int
    BY <1>8
  <2> QED BY <1>10, <2>1, ModType
<1>12. x \notin Residues(r, WINDOWS)
  <2> SUFFICES ASSUME NEW j \in 1..WINDOWS, Mod(r - m) = Mod(r + j) PROVE FALSE
    BY <1>10 DEF Residues
  <2>1. r - m \in Int /\ r + j \in Int /\ (r - m) - (r + j) < MOD /\ (r + j) - (r - m) < MOD /\ r - m # r + j
    BY <1>8, Sizes
  <2> QED BY <2>1, ModApart
<1> QED BY <1>5, <1>9, <1>11, <1>12

LEMMA DataIs ==
  ASSUME NEW k \in PackT, k.out = <<>>, NEW r \in Nat, k.pr = Mod(r), k.pool + Cardinality(Used(k)) < WINDOWS,
         NEW p \in PacketT, NEW sum \in BOOLEAN
  PROVE  LET l == pkdata(k, p, sum)
         IN \/ /\ l = [pkoutput([k EXCEPT !.msg = @ \cup k.rmsg]) EXCEPT !.pool = @ + 1]
               /\ [k EXCEPT !.msg = @ \cup k.rmsg] \in PackT
            \/ /\ l \in PackT /\ l.out = <<>> /\ Live(k) /\ OutSame(k, l) /\ l.pr = k.pr /\ l.rcount = k.rcount
               /\ l.pool = k.pool
               /\ \E x \in Seqno : /\ k.is[x].st = "free" /\ x \notin Residues(r, WINDOWS)
                                   /\ l.is = [k.is EXCEPT ![x] = Filled(p, sum)]
<1> DEFINE free == {i \in 0..MOD-2 : k.is[(k.pr - i) % MOD].st = "free"}
           x == (k.pr - Min(free)) % MOD
           l == pkdata(k, p, sum)
<1>1. k.pool \in Nat /\ Cardinality(Used(k)) < WINDOWS
  <2>1. k.pool \in 0..WINDOWS /\ Cardinality(Used(k)) \in Nat
    BY UsedFinite DEF PackT
  <2> QED BY <2>1, Sizes
<1>2. free # {} /\ x \in Seqno /\ k.is[x].st = "free" /\ x \notin Residues(r, WINDOWS)
  BY <1>1, FreeBelow
<1>3. CASE "DRAINO" \in k.state \/ ~Live(k)
  <2>1. k.msg \cup k.rmsg \in SUBSET Message
    BY MessageIs DEF PackT
  <2>2. [k EXCEPT !.msg = @ \cup k.rmsg] \in PackT
    BY <2>1 DEF PackT
  <2> QED BY <1>3, <2>2 DEF pkdata
<1>4. CASE ~("DRAINO" \in k.state \/ ~Live(k))
  <2> DEFINE is == [k.is EXCEPT ![x] = Filled(p, sum)]
  <2>1. l = [k EXCEPT !.is = is]
    BY <1>2, <1>4 DEF pkdata, PackT
  <2>2. Filled(p, sum) \in SlotT
    BY DEF Filled, SlotT, PacketT
  <2> HIDE DEF x
  <2>3. is \in [Seqno -> SlotT]
    BY <1>2, <2>2 DEF PackT
  <2> HIDE DEF is, l
  <2>4. l \in PackT /\ l.out = <<>> /\ OutSame(k, l) /\ l.pr = k.pr /\ l.rcount = k.rcount /\ l.pool = k.pool /\ l.is = is
    BY <2>1, <2>3 DEF PackT, OutSame
  <2> QED BY <1>2, <1>4, <2>4 DEF is, l
<1> QED BY <1>3, <1>4

LEMMA UsedSame ==
  ASSUME NEW k, NEW l, l.is = k.is
  PROVE  Used(l) = Used(k)
BY DEF Used

LEMMA OutEmpty == ASSUME NEW ln \in Seq(PacketT) PROVE ln \o <<>> = ln
BY ConcatEmptySeq

(* pkoutput, or nothing to send.                                           *)
LEMMA BothMayOutput ==
  ASSUME NEW k, NEW f, NEW w, NEW r, NEW wf, NEW rf, NEW in, NEW out, k.out = <<>>,
         Both(k, w, r, in, out, f, wf, rf), NEW l, l = k \/ l = pkoutput(k)
  PROVE  l \in PackT /\ Both(l, w, r, in, out \o l.out, f, wf, rf) /\ InSame(k, l) /\ l.pool = k.pool
         /\ Live(l) = Live(k)
<1>3. k \in PackT /\ out \in Seq(PacketT)
  BY DEF Both
<1>1. CASE l = k
  <2>1. out \o l.out = out
    BY <1>1, <1>3, OutEmpty
  <2> QED BY <1>1, <1>3, <2>1 DEF InSame
<1>2. CASE l = pkoutput(k)
  <2>1. Both(l, w, r, in, out \o l.out, f, wf, rf)
    BY <1>2, BothOutput
  <2>2. l \in PackT /\ InSame(k, l) /\ l.pool = k.pool /\ l.state \in {k.state, k.state \ {"RXMIT"}}
    BY <1>2, <1>3, OutputIs
  <2> QED BY <2>1, <2>2 DEF Live
<1> QED BY <1>1, <1>2

(* pkcntl.                                                                 *)
LEMMA CntlBoth ==
  ASSUME NEW k, NEW f, NEW w, NEW r, NEW wf, NEW rf, NEW in, NEW out, k.out = <<>>,
         Both(k, w, r, in, out, f, wf, rf), in # <<>>, in[1].type # "data"
  PROVE  LET l == pkcntl(k, in[1])
         IN l \in PackT /\ Both(l, w, r, Tail(in), out \o l.out, f, wf, rf) /\ InSame(k, l) /\ l.pool = k.pool
<1> DEFINE p == in[1]
           l == pkcntl(k, p)
           k1 == Handled(k, p.type)
           k2 == IF p.type \in {"RJ", "RR"} THEN pksack([k1 EXCEPT !.rpr = p.ack]) ELSE k1
<1>1. p \in PacketT /\ k \in PackT /\ in \in Seq(PacketT) /\ out \in Seq(PacketT)
  BY DEF Both
<1>2. Both(k, w, r, Tail(in), out, f, wf, rf)
  BY BothTail
<1>3. CASE p.type = "CLOSE"
  <2>1. l = [k EXCEPT !.state = {"DOWN", "RCLOSE"}]
    BY <1>3 DEF pkcntl
  <2> HIDE DEF l, p
  <2>2. l \in PackT /\ OutSame(k, l) /\ InSame(k, l) /\ l.pool = k.pool /\ l.out = <<>>
    BY <1>1, <2>1 DEF PackT, State, OutSame, InSame
  <2>3. out \o l.out = out
    BY <2>2, OutEmpty
  <2>4. Both(l, w, r, Tail(in), out, f, wf, rf)
    BY <1>2, <2>2, BothFrame
  <2> QED BY <2>2, <2>3, <2>4 DEF l, p
<1>4. CASE p.type # "CLOSE"
  <2>1. Told(k, k1)
    BY <1>1, HandledIs
  <2>2. l = k2 \/ l = pkoutput(k2)
    BY <1>4 DEF pkcntl
  <2>3. k2 \in PackT /\ k2.out = <<>> /\ InSame(k, k2) /\ k2.pool = k.pool /\ Both(k2, w, r, Tail(in), out, f, wf, rf)
    <3>1. CASE p.type \in {"RJ", "RR"}
      <4> DEFINE k3 == [k1 EXCEPT !.rpr = p.ack]
      <4> HIDE DEF k1
      <4>1. p.ack \in Seqno
        BY <1>1 DEF PacketT
      <4> HIDE DEF p
      <4>2. /\ k3 \in PackT /\ k3.rpr = p.ack /\ InSame(k, k3) /\ k3.pool = k.pool /\ k3.out = <<>>
            /\ k3.ps = k.ps /\ k3.pscopy = k.pscopy /\ k3.xcount = k.xcount /\ k3.os = k.os /\ k3.ob = k.ob
        BY <2>1, <4>1 DEF Told, PackT, InSame, OutSame
      <4> HIDE DEF k3
      <4>3. Acking(in[1]) /\ k3.rpr = in[1].ack
        BY <3>1, <4>2 DEF Acking, p
      <4>4. k2 = pksack(k3)
        BY <3>1 DEF k3
      <4> HIDE DEF k2
      <4>7. /\ Dir(pksack(k3), w, out, Tail(in), f, rf) /\ Dir(f, wf, in, out, pksack(k3), r)
            /\ pksack(k3) \in PackT /\ InSame(k3, pksack(k3)) /\ pksack(k3).pool = k3.pool
            /\ pksack(k3).out = k3.out
        BY <4>2, <4>3, BothSack
      <4>5. /\ Dir(k2, w, out, Tail(in), f, rf) /\ Dir(f, wf, in, out, k2, r)
            /\ k2 \in PackT /\ InSame(k3, k2) /\ k2.pool = k3.pool /\ k2.out = k3.out
        BY <4>4, <4>7
      <4>6. Dir(f, wf, Tail(in), out, k2, r)
        BY <1>2, <4>2, <4>5, DirFrame DEF Both, OutSame, InSame
      <4> QED BY <1>2, <4>2, <4>5, <4>6 DEF Both, InSame
    <3>2. CASE p.type \notin {"RJ", "RR"}
      <4>1. k2 = k1
        BY <3>2
      <4> HIDE DEF k2, k1
      <4> QED BY <1>2, <2>1, <4>1, BothFrame DEF Told
    <3> QED BY <3>1, <3>2
  <2> HIDE DEF k2, l
  <2>4. l \in PackT /\ Both(l, w, r, Tail(in), out \o l.out, f, wf, rf) /\ InSame(k2, l) /\ l.pool = k2.pool
    BY <2>2, <2>3, BothMayOutput
  <2> QED BY <2>3, <2>4 DEF InSame, l, p
<1> QED BY <1>3, <1>4

(* What pkgetpack makes of a packet, when it finds a buffer for its data.  *)
Passed(k, l, how) ==
  /\ l.pool + Cardinality(Used(l)) = k.pool + Cardinality(Used(k)) - (IF how = "cut" THEN 1 ELSE 0)
  /\ ~Live(k) => Used(l) = Used(k) /\ l.rcount = k.rcount

LEMMA HandleBoth ==
  ASSUME NEW k, NEW f, NEW w, NEW r, NEW wf, NEW rf, NEW in, NEW out, k.out = <<>>,
         Both(k, w, r, in, out, f, wf, rf), in # <<>>, NEW how \in Damage(in[1]), ~Wild(k, in[1], how),
         k.connodata \in 0..CONNODATA, k.pool + Cardinality(Used(k)) <= WINDOWS
  PROVE  /\ Both(Handle(k, in[1], how), w, r, Tail(in), out \o Handle(k, in[1], how).out, f, wf, rf)
         /\ Passed(k, Handle(k, in[1], how), how)
<1> DEFINE p == in[1]
           l == Handle(k, p, how)
           k1 == [k EXCEPT !.connodata = @ + 1]
           kr == [k EXCEPT !.rpr = p.ack, !.connodata = 0]
           k2 == pksack(kr)
           k3 == [k2 EXCEPT !.pool = @ - 1]
           Result == /\ l \in PackT /\ Both(l, w, r, Tail(in), out \o l.out, f, wf, rf)
                     /\ l.pool + Cardinality(Used(l)) = k.pool + Cardinality(Used(k)) - (IF how = "cut" THEN 1 ELSE 0)
                     /\ ~Live(k) => Used(l) = Used(k) /\ l.rcount = k.rcount
<1> SUFFICES Result
  BY DEF Passed
<1>1. p \in PacketT /\ k \in PackT /\ in \in Seq(PacketT) /\ out \in Seq(PacketT)
  BY DEF Both
<1>2. k1 \in PackT /\ OutSame(k, k1) /\ InSame(k, k1) /\ k1.pool = k.pool /\ k1.out = <<>>
  <2>1. k.connodata + 1 \in 0..CONNODATA + 1
    BY Bounds
  <2> QED BY <1>1, <2>1 DEF PackT, OutSame, InSame
<1>3. Both(k, w, r, Tail(in), out, f, wf, rf)
  BY BothTail
<1>4. how \in {"none", "header", "sum", "cut"} /\ (how \in {"sum", "cut"} => p.type = "data")
  BY DEF Damage
<1>5. k.pool \in 0..WINDOWS /\ Cardinality(Used(k)) \in Nat
  BY <1>1, UsedFinite DEF PackT
<1>6. CASE how = "header"
  <2>1. l = k1
    BY <1>6 DEF Handle
  <2>2. out \o k1.out = out
    BY <1>1, <1>2, OutEmpty
  <2>3. Both(k1, w, r, Tail(in), out, f, wf, rf)
    BY <1>2, <1>3, BothFrame
  <2>4. Used(k1) = Used(k) /\ k1.rcount = k.rcount
    BY <1>2, UsedSame DEF InSame
  <2> HIDE DEF l, k1
  <2>5. l.pool + Cardinality(Used(l)) = k.pool + Cardinality(Used(k)) - (IF how = "cut" THEN 1 ELSE 0)
    BY <1>2, <1>5, <1>6, <2>1, <2>4
  <2> QED BY <1>2, <2>1, <2>2, <2>3, <2>4, <2>5
<1>7. CASE how = "none" /\ p.type # "data"
  <2>1. l = pkcntl(k1, p)
    BY <1>7 DEF Handle
  <2>2. Both(k1, w, r, in, out, f, wf, rf)
    BY <1>2, BothFrame
  <2> HIDE DEF l, k1
  <2>3. l \in PackT /\ Both(l, w, r, Tail(in), out \o l.out, f, wf, rf) /\ InSame(k1, l) /\ l.pool = k1.pool
    BY <1>2, <1>7, <2>1, <2>2, CntlBoth
  <2>4. Used(l) = Used(k) /\ l.rcount = k.rcount
    BY <1>2, <2>3, UsedSame DEF InSame
  <2>5. l.pool + Cardinality(Used(l)) = k.pool + Cardinality(Used(k)) - (IF how = "cut" THEN 1 ELSE 0)
    BY <1>2, <1>5, <1>7, <2>3, <2>4
  <2> QED BY <2>3, <2>4, <2>5
<1>8. CASE p.type = "data" /\ how # "header"
  <2>1. k.pool \in 1..WINDOWS
    BY <1>5, <1>8 DEF Wild
  <2>2. p.ack \in Seqno /\ 0 \in 0..CONNODATA + 1
    BY <1>1, Bounds DEF PacketT
  <2> HIDE DEF p
  <2>3. /\ kr \in PackT /\ kr.rpr = p.ack /\ InSame(k, kr) /\ kr.ps = k.ps /\ kr.pscopy = k.pscopy
        /\ kr.xcount = k.xcount /\ kr.os = k.os /\ kr.ob = k.ob /\ kr.pool = k.pool /\ kr.out = <<>>
        /\ kr.state = k.state
    BY <1>1, <2>2 DEF PackT, InSame
  <2>4. Acking(in[1]) /\ kr.rpr = in[1].ack
    BY <1>8, <2>3 DEF Acking, p
  <2> HIDE DEF kr
  <2>5. /\ Dir(k2, w, out, Tail(in), f, rf) /\ Dir(f, wf, in, out, k2, r)
        /\ k2 \in PackT /\ InSame(kr, k2) /\ k2.pool = kr.pool /\ k2.out = kr.out /\ k2.state = kr.state
    BY <2>3, <2>4, BothSack
  <2> HIDE DEF k2
  <2>6. k2.pool - 1 \in 0..WINDOWS /\ k2.pool = k.pool
    BY <2>1, <2>3, <2>5, Sizes
  <2>7. /\ k3 \in PackT /\ OutSame(k2, k3) /\ InSame(k2, k3) /\ k3.pool = k.pool - 1 /\ k3.out = <<>>
        /\ k3.state = k.state
    BY <2>3, <2>5, <2>6 DEF PackT, OutSame, InSame
  <2>8. InSame(k, k3) /\ Used(k3) = Used(k)
    <3>1. InSame(k, k3)
      BY <2>3, <2>5, <2>7 DEF InSame
    <3> QED BY <3>1, UsedSame DEF InSame
  <2>9. Dir(k3, w, out, Tail(in), f, rf) /\ Dir(f, wf, in, out, k3, r)
    <3>1. OutSame(f, f) /\ InSame(f, f)
      BY DEF OutSame, InSame
    <3> QED BY <2>5, <2>7, <3>1, DirFrame
  <2>10. Dir(f, wf, Tail(in), out, k3, r)
    <3>1. OutSame(f, f)
      BY DEF OutSame
    <3> QED BY <1>3, <2>8, <3>1, DirFrame DEF Both
  <2>11. /\ f \in PackT /\ w \in Nat /\ r \in Nat /\ wf \in Nat /\ rf \in Nat /\ Tail(in) \in Seq(PacketT)
         /\ Both(k3, w, r, Tail(in), out, f, wf, rf) /\ Live(k3) = Live(k)
    BY <1>3, <2>7, <2>9, <2>10 DEF Both, Live
  <2> HIDE DEF k3
  <2>12. CASE how = "cut"
    <3>1. l = k3
      BY <1>8, <2>12 DEF Handle, k3, k2, kr
    <3>2. out \o k3.out = out
      BY <1>1, <2>7, OutEmpty
    <3> HIDE DEF l
    <3>3. l.pool + Cardinality(Used(l)) = k.pool + Cardinality(Used(k)) - (IF how = "cut" THEN 1 ELSE 0)
      BY <1>5, <2>7, <2>8, <2>12, <3>1
    <3> QED BY <2>7, <2>8, <2>11, <3>1, <3>2, <3>3 DEF InSame
  <2>13. CASE how # "cut"
    <3>1. l = pkdata(k3, p, how = "none") /\ how \in {"none", "sum"}
      BY <1>4, <1>8, <2>13 DEF Handle, k3, k2, kr, p
    <3> DEFINE sum == how = "none"
               ko == [k3 EXCEPT !.msg = @ \cup k3.rmsg]
    <3>2. sum \in BOOLEAN /\ l = pkdata(k3, p, sum)
      BY <3>1
    <3> HIDE DEF l, sum
    <3>3. k3.pr = Mod(r)
      BY <2>9 DEF Dir, InOK
    <3>4. k3.pool + Cardinality(Used(k3)) < WINDOWS
      BY <1>5, <2>7, <2>8, Sizes
    <3>5. \/ l = [pkoutput(ko) EXCEPT !.pool = @ + 1] /\ ko \in PackT
          \/ /\ l \in PackT /\ l.out = <<>> /\ Live(k3) /\ OutSame(k3, l) /\ l.pr = k3.pr /\ l.rcount = k3.rcount
             /\ l.pool = k3.pool
             /\ \E x \in Seqno : /\ k3.is[x].st = "free" /\ x \notin Residues(r, WINDOWS)
                                 /\ l.is = [k3.is EXCEPT ![x] = Filled(p, sum)]
      <4>1. r \in Nat /\ p \in PacketT
        BY <1>1, <2>11
      <4>2. \/ pkdata(k3, p, sum) = [pkoutput(ko) EXCEPT !.pool = @ + 1] /\ ko \in PackT
            \/ /\ pkdata(k3, p, sum) \in PackT /\ pkdata(k3, p, sum).out = <<>> /\ Live(k3)
               /\ OutSame(k3, pkdata(k3, p, sum)) /\ pkdata(k3, p, sum).pr = k3.pr
               /\ pkdata(k3, p, sum).rcount = k3.rcount /\ pkdata(k3, p, sum).pool = k3.pool
               /\ \E x \in Seqno : /\ k3.is[x].st = "free" /\ x \notin Residues(r, WINDOWS)
                                   /\ pkdata(k3, p, sum).is = [k3.is EXCEPT ![x] = Filled(p, sum)]
        BY <2>7, <3>2, <3>3, <3>4, <4>1, DataIs
      <4> HIDE DEF ko
      <4> QED BY <3>2, <4>2
    <3>6. CASE l = [pkoutput(ko) EXCEPT !.pool = @ + 1] /\ ko \in PackT
      <4> DEFINE kp == pkoutput(ko)
      <4>1. OutSame(k3, ko) /\ InSame(k3, ko) /\ ko.out = <<>> /\ ko.pool = k.pool - 1
        BY <2>7 DEF OutSame, InSame
      <4> HIDE DEF ko
      <4>2. Both(ko, w, r, Tail(in), out, f, wf, rf)
        BY <2>11, <3>6, <4>1, BothFrame
      <4>3. Both(kp, w, r, Tail(in), out \o kp.out, f, wf, rf) /\ kp \in PackT /\ InSame(ko, kp) /\ kp.pool = ko.pool
        BY <4>1, <4>2, BothMayOutput
      <4> HIDE DEF kp
      <4>4. kp.pool + 1 \in 0..WINDOWS /\ kp.pool + 1 = k.pool
        BY <1>5, <4>1, <4>3
      <4>5. l = [kp EXCEPT !.pool = k.pool]
        BY <3>6, <4>3, <4>4 DEF PackT, kp
      <4>6. l \in PackT /\ OutSame(kp, l) /\ InSame(kp, l) /\ l.out = kp.out /\ l.pool = k.pool
        BY <1>5, <4>3, <4>5 DEF PackT, OutSame, InSame
      <4>7. Both(l, w, r, Tail(in), out \o l.out, f, wf, rf)
        BY <4>3, <4>6, BothFrame
      <4>8. InSame(k, l)
        BY <2>8, <4>1, <4>3, <4>6 DEF InSame
      <4>9. Used(l) = Used(k)
        BY <4>8, UsedSame DEF InSame
      <4>10. l.pool + Cardinality(Used(l)) = k.pool + Cardinality(Used(k)) - (IF how = "cut" THEN 1 ELSE 0)
        BY <1>5, <2>13, <4>6, <4>9
      <4> QED BY <4>6, <4>7, <4>8, <4>9, <4>10 DEF InSame
    <3>7. ASSUME l \in PackT, l.out = <<>>, Live(k3), OutSame(k3, l), l.pr = k3.pr, l.rcount = k3.rcount,
                 l.pool = k3.pool, NEW x \in Seqno, k3.is[x].st = "free", x \notin Residues(r, WINDOWS),
                 l.is = [k3.is EXCEPT ![x] = Filled(p, sum)]
          PROVE  Result
      <4>1. Dir(f, wf, Tail(in), out, l, r)
        <5>1. /\ f \in PackT /\ wf \in Nat /\ r \in Nat /\ in \in Seq(PacketT) /\ in[1].type = "data"
              /\ Dir(f, wf, in, out, k3, r) /\ k3 \in PackT
          BY <1>1, <1>8, <2>7, <2>9, <2>11, <3>7 DEF p
        <5>3. l.is[x] = Filled(in[1], sum) /\ \A y \in Seqno : y # x => l.is[y] = k3.is[y]
          BY <2>7, <3>7 DEF PackT, p
        <5>2. /\ sum \in BOOLEAN /\ x \in Seqno /\ k3.is[x].st = "free" /\ x \notin Residues(r, WINDOWS)
              /\ l.pr = k3.pr /\ l.rcount = k3.rcount /\ in # <<>>
          BY <3>2, <3>7
        <5> HIDE DEF p
        <5> QED BY <5>1, <5>2, <5>3, FileDir
      <4>2. Dir(l, w, out, Tail(in), f, rf)
        <5>1. OutSame(k3, l) /\ InSame(f, f)
          BY <3>7 DEF InSame
        <5> QED BY <2>9, <5>1, DirFrame
      <4>3. out \o l.out = out
        BY <1>1, <3>7, OutEmpty
      <4>4. Both(l, w, r, Tail(in), out \o l.out, f, wf, rf)
        BY <1>1, <2>11, <3>7, <4>1, <4>2, <4>3 DEF Both
      <4>5. Used(l) = Used(k3) \cup {x} /\ x \notin Used(k3)
        <5>1. k3.is \in [Seqno -> SlotT]
          BY <2>7 DEF PackT
        <5>2. Filled(p, sum).st = "raw"
          BY DEF Filled
        <5> QED BY <3>7, <5>1, <5>2 DEF Used
      <4>6. Cardinality(Used(l)) = Cardinality(Used(k3)) + 1
        BY <4>5, UsedFinite, FS_AddElement
      <4>7. l.pool + Cardinality(Used(l)) = k.pool + Cardinality(Used(k))
        BY <1>5, <2>7, <2>8, <3>7, <4>6
      <4>8. Live(k)
        BY <2>11, <3>7
      <4>9. l.pool + Cardinality(Used(l)) = k.pool + Cardinality(Used(k)) - (IF how = "cut" THEN 1 ELSE 0)
        BY <1>5, <2>13, <4>7
      <4> QED BY <3>7, <4>4, <4>8, <4>9
    <3> HIDE DEF Result, ko
    <3> QED BY <3>5, <3>6, <3>7
  <2> QED BY <2>12, <2>13
<1> QED BY <1>4, <1>6, <1>7, <1>8

-----------------------------------------------------------------------------
(* The inductive invariant: both directions; each end's buffers are in the *)
(* pool or a slot, but for those that faults lost; what it has read is     *)
(* 1, 2, 3...; and what its place in the program says.                     *)
ProgT == [pc : PC, tries : 0..GETRIES, call : Nat, left : Nat]
Writes(e, prg) == prg.call > 0 /\ Script[e][prg.call].op = "write"
EndOK(e, k, prg, w, s, fl) ==
  /\ k.pool + Cardinality(Used(k)) \in WINDOWS - fl..WINDOWS
  /\ s \in Seq(Nat) /\ s = [i \in 1..Len(s) |-> i]
  /\ prg \in ProgT /\ prg.call <= Len(Script[e])
  /\ prg.pc \in {"start", "opening"} =>
       w = 0 /\ s = <<>> /\ Used(k) = {} /\ k.rcount = 0 /\ ~Live(k) /\ prg.call = 0
  /\ prg.pc \in {"write", "window"} => Writes(e, prg)
  /\ prg.pc = "read" => ~Writes(e, prg)
  /\ prg.pc \in {"opening", "read", "write", "window"} => prg.left > 0
  /\ prg.pc \notin Ended => prg.tries < GETRIES
  /\ prg.pc = "wild" /\ ~Writes(e, prg) => fl >= WINDOWS
Ends ==
  \A e \in End : /\ EndOK(e, pk[e], prog[e], wrote[e], rcvd[e], faults)
                 /\ pk[e].out = <<>> /\ (prog[e].pc \in Ended => line[e] = <<>>)
Lines ==
  \A e \in End : Both(pk[e], wrote[e], Len(rcvd[e]), line[e], line[Peer(e)],
                      pk[Peer(e)], wrote[Peer(e)], Len(rcvd[Peer(e)]))
Typed ==
  /\ pk \in [End -> PackT] /\ prog \in [End -> ProgT] /\ wrote \in [End -> Nat] /\ rcvd \in [End -> Seq(Nat)]
  /\ line \in [End -> Seq(PacketT)] /\ faults \in 0..MaxFaults
Inv == Typed /\ Ends /\ Lines

LEMMA PeerIs ==
  ASSUME NEW e \in End
  PROVE  Peer(e) \in End /\ Peer(e) # e /\ Peer(Peer(e)) = e /\ \A d \in End : d = e \/ d = Peer(e)
BY DEF End, Peer

LEMMA BothSwap ==
  ASSUME NEW k, NEW f, NEW w, NEW r, NEW wf, NEW rf, NEW in, NEW out, Both(k, w, r, in, out, f, wf, rf)
  PROVE  Both(f, wf, rf, out, in, k, w, r)
BY DEF Both

(* An end has gone, and what comes for it is lost.                         *)
LEMMA BothEmpty ==
  ASSUME NEW k, NEW f, NEW w, NEW r, NEW wf, NEW rf, NEW in, NEW out, Both(k, w, r, in, out, f, wf, rf)
  PROVE  Both(k, w, r, <<>>, out, f, wf, rf)
<1>1. <<>> \in Seq(PacketT) /\ Len(<<>>) = 0
  OBVIOUS
<1>2. Dir(k, w, out, <<>>, f, rf)
  <2>1. AckOK(<<>>, w - k.xcount, rf)
    BY <1>1 DEF AckOK
  <2> QED BY <2>1 DEF Both, Dir
<1>3. Dir(f, wf, <<>>, out, k, r)
  <2>1. DataOK(in, k, f, wf, r)
    BY DEF Both, Dir
  <2>2. DataOK(<<>>, k, f, wf, r)
    BY <1>1, <2>1 DEF DataOK
  <2> QED BY <2>2 DEF Both, Dir
<1> QED BY <1>1, <1>2, <1>3 DEF Both

LEMMA EndFrame ==
  ASSUME NEW e, NEW k, NEW l, NEW prg, NEW w, NEW s, NEW fl \in Nat, NEW fm \in Nat, EndOK(e, k, prg, w, s, fl),
         l.is = k.is, l.pool = k.pool, l.rcount = k.rcount, Live(l) = Live(k), fl <= fm
  PROVE  EndOK(e, l, prg, w, s, fm)
<1>1. Used(l) = Used(k)
  BY UsedSame
<1>2. k.pool + Cardinality(Used(k)) \in WINDOWS - fm..WINDOWS
  <2>1. k.pool + Cardinality(Used(k)) \in WINDOWS - fl..WINDOWS
    BY DEF EndOK
  <2> QED BY <2>1, Sizes
<1>3. prg.pc = "wild" /\ ~Writes(e, prg) => fm >= WINDOWS
  <2>1. prg.pc = "wild" /\ ~Writes(e, prg) => fl >= WINDOWS
    BY DEF EndOK
  <2> QED BY <2>1, Sizes
<1> QED BY <1>1, <1>2, <1>3 DEF EndOK

LEMMA StepInv ==
  ASSUME Inv, NEW e \in End, NEW k, NEW prg, NEW rest, NEW w, NEW s, Step(e, k, prg, rest),
         wrote' = [wrote EXCEPT ![e] = w], rcvd' = [rcvd EXCEPT ![e] = s], faults' \in faults..MaxFaults,
         EndOK(e, k, prg, w, s, faults'),
         Both(k, w, Len(s), rest, line[Peer(e)] \o k.out, pk[Peer(e)], wrote[Peer(e)], Len(rcvd[Peer(e)]))
  PROVE  Inv'
<1> DEFINE d == Peer(e)
           k0 == [k EXCEPT !.out = <<>>]
           l1 == IF prg.pc \in Ended THEN <<>> ELSE rest
           l2 == IF prog[d].pc \in Ended THEN <<>> ELSE line[d] \o k.out
<1>1. d \in End /\ d # e /\ Peer(d) = e /\ \A x \in End : x = e \/ x = d
  BY PeerIs
<1> HIDE DEF d
<1>2. Typed /\ Ends /\ Lines
  BY DEF Inv
<1>3. k \in PackT /\ w \in Nat /\ rest \in Seq(PacketT) /\ line[d] \o k.out \in Seq(PacketT) /\ s \in Seq(Nat) /\ prg \in ProgT
  BY DEF Both, EndOK, d
<1>7. <<>> \in Seq(PacketT)
  OBVIOUS
<1>4. /\ k0 \in PackT /\ k0.out = <<>> /\ OutSame(k, k0) /\ InSame(k, k0)
      /\ k0.is = k.is /\ k0.pool = k.pool /\ k0.rcount = k.rcount /\ Live(k0) = Live(k)
  BY <1>3, <1>7 DEF PackT, OutSame, InSame, Live
<1> HIDE DEF k0
<1>5. /\ pk'[e] = k0 /\ pk'[d] = pk[d] /\ prog'[e] = prg /\ prog'[d] = prog[d] /\ wrote'[e] = w /\ wrote'[d] = wrote[d]
      /\ rcvd'[e] = s /\ rcvd'[d] = rcvd[d]
  BY <1>1, <1>2 DEF Step, Typed, k0
<1>6. line'[e] = l1 /\ line'[d] = l2
  BY <1>1, <1>2 DEF Step, Typed, d
<1>8. Typed'
  <2>1. l1 \in Seq(PacketT) /\ l2 \in Seq(PacketT)
    BY <1>3, <1>7
  <2> HIDE DEF l1, l2
  <2>2. pk' \in [End -> PackT] /\ prog' \in [End -> ProgT]
    BY <1>2, <1>3, <1>4 DEF Step, Typed, k0
  <2>3. wrote' \in [End -> Nat] /\ rcvd' \in [End -> Seq(Nat)]
    BY <1>2, <1>3 DEF Typed
  <2>4. line' \in [End -> Seq(PacketT)]
    <3>1. \A x \in End : line'[x] \in Seq(PacketT)
      BY <1>1, <1>6, <2>1
    <3>2. line' = [x \in End |-> line'[x]]
      BY <1>2 DEF Step, Typed
    <3> QED BY <3>1, <3>2
  <2>5. faults' \in 0..MaxFaults
    BY <1>2, Bounds DEF Typed
  <2> QED BY <2>2, <2>3, <2>4, <2>5 DEF Typed
<1>9. Ends'
  <2>1. faults \in Nat /\ faults' \in Nat /\ faults <= faults'
    BY <1>2, Bounds DEF Typed
  <2>2. EndOK(e, k0, prg, w, s, faults')
    BY <1>4, <2>1, EndFrame
  <2>3. EndOK(d, pk[d], prog[d], wrote[d], rcvd[d], faults) /\ pk[d].out = <<>>
    BY <1>1, <1>2 DEF Ends
  <2>4. EndOK(d, pk[d], prog[d], wrote[d], rcvd[d], faults')
    BY <2>1, <2>3, EndFrame
  <2> QED BY <1>1, <1>4, <1>5, <1>6, <2>2, <2>3, <2>4 DEF Ends
<1>10. Lines'
  <2>1. Both(k, w, Len(s), rest, line[d] \o k.out, pk[d], wrote[d], Len(rcvd[d]))
    BY DEF d
  <2>2. Both(k0, w, Len(s), rest, line[d] \o k.out, pk[d], wrote[d], Len(rcvd[d]))
    BY <1>4, <2>1, BothFrame
  <2>3. Both(k0, w, Len(s), l1, line[d] \o k.out, pk[d], wrote[d], Len(rcvd[d]))
    BY <2>2, BothEmpty
  <2>4. Both(pk[d], wrote[d], Len(rcvd[d]), line[d] \o k.out, l1, k0, w, Len(s))
    BY <2>3, BothSwap
  <2>5. Both(pk[d], wrote[d], Len(rcvd[d]), l2, l1, k0, w, Len(s))
    BY <2>4, BothEmpty
  <2> HIDE DEF l1, l2
  <2>6. Both(k0, w, Len(s), l1, l2, pk[d], wrote[d], Len(rcvd[d]))
    BY <2>5, BothSwap
  <2> QED BY <1>1, <1>5, <1>6, <2>5, <2>6 DEF Lines, d
<1> QED BY <1>8, <1>9, <1>10 DEF Inv

(* An end goes on, having written and read nothing.                        *)
LEMMA QuietInv ==
  ASSUME Inv, NEW e \in End, NEW k, NEW prg, NEW rest, Step(e, k, prg, rest),
         UNCHANGED <<wrote, rcvd>>, faults' \in faults..MaxFaults,
         EndOK(e, k, prg, wrote[e], rcvd[e], faults'),
         Both(k, wrote[e], Len(rcvd[e]), rest, line[Peer(e)] \o k.out, pk[Peer(e)], wrote[Peer(e)], Len(rcvd[Peer(e)]))
  PROVE  Inv'
<1>1. wrote' = [wrote EXCEPT ![e] = wrote[e]] /\ rcvd' = [rcvd EXCEPT ![e] = rcvd[e]]
  BY DEF Inv, Typed
<1> QED BY <1>1, StepInv

(* It has new messages to send, a new state, and perhaps sends.            *)
LEMMA TellInv ==
  ASSUME Inv, NEW e \in End, NEW k1, Told(pk[e], k1), NEW k, k = k1 \/ k = pkoutput(k1),
         NEW prg, Step(e, k, prg, line[e]), UNCHANGED <<wrote, rcvd, faults>>,
         EndOK(e, k1, prg, wrote[e], rcvd[e], faults)
  PROVE  Inv'
<1> DEFINE d == Peer(e)
<1>1. Both(pk[e], wrote[e], Len(rcvd[e]), line[e], line[d], pk[d], wrote[d], Len(rcvd[d])) /\ pk[e].out = <<>>
  BY DEF Inv, Lines, Ends
<1>2. k1 \in PackT /\ OutSame(pk[e], k1) /\ InSame(pk[e], k1) /\ k1.out = <<>>
  BY <1>1 DEF Told
<1>3. Both(k1, wrote[e], Len(rcvd[e]), line[e], line[d], pk[d], wrote[d], Len(rcvd[d]))
  BY <1>1, <1>2, BothFrame
<1>4. /\ Both(k, wrote[e], Len(rcvd[e]), line[e], line[d] \o k.out, pk[d], wrote[d], Len(rcvd[d]))
      /\ InSame(k1, k) /\ k.pool = k1.pool /\ Live(k) = Live(k1)
  BY <1>2, <1>3, BothMayOutput
<1>5. faults \in Nat /\ faults' = faults /\ faults \in faults..MaxFaults /\ faults <= faults
  BY Bounds DEF Inv, Typed
<1>6. EndOK(e, k, prg, wrote[e], rcvd[e], faults)
  BY <1>4, <1>5, EndFrame DEF InSame
<1> QED BY <1>4, <1>5, <1>6, QuietInv

LEMMA TellSame == ASSUME NEW k \in PackT PROVE Told(k, k)
BY DEF Told, OutSame, InSame

LEMMA EndIs ==
  ASSUME Inv, NEW e \in End
  PROVE  /\ pk[e] \in PackT /\ prog[e] \in ProgT /\ wrote[e] \in Nat /\ rcvd[e] \in Seq(Nat) /\ faults \in Nat
         /\ EndOK(e, pk[e], prog[e], wrote[e], rcvd[e], faults) /\ line[e] \in Seq(PacketT)
         /\ pk[e].out = <<>>
BY Bounds DEF Inv, Typed, Ends

LEMMA PkopenInv == ASSUME Inv, NEW e \in End, Pkopen(e) PROVE Inv'
<1> DEFINE k1 == [pk[e] EXCEPT !.msg = {"INITA"}, !.rmsg = {"INITA"}]
           prg == [prog[e] EXCEPT !.pc = "opening", !.left = PKMAXSTMSG]
<1>1. pk[e] \in PackT /\ prog[e] \in ProgT /\ EndOK(e, pk[e], prog[e], wrote[e], rcvd[e], faults)
  BY EndIs
<1>2. Told(pk[e], k1) /\ k1.pool = pk[e].pool /\ k1.is = pk[e].is /\ k1.rcount = pk[e].rcount /\ Live(k1) = Live(pk[e])
  BY <1>1, MessageIs DEF Told, PackT, OutSame, InSame, Live
<1>3. prog[e].pc = "start" /\ Step(e, pkoutput(k1), prg, line[e]) /\ UNCHANGED <<wrote, rcvd, faults>>
  BY DEF Pkopen
<1> HIDE DEF k1
<1>4. prg \in ProgT /\ prg.pc = "opening" /\ prg.call = prog[e].call /\ prg.tries = prog[e].tries /\ prg.left > 0
  BY <1>1, Bounds DEF ProgT, PC
<1> HIDE DEF prg
<1>5. EndOK(e, k1, prg, wrote[e], rcvd[e], faults)
  <2>1. Used(k1) = Used(pk[e])
    BY <1>2, UsedSame
  <2> QED BY <1>1, <1>2, <1>3, <1>4, <2>1 DEF EndOK, Ended
<1> QED BY <1>2, <1>3, <1>5, TellInv

LEMMA CallInv == ASSUME Inv, NEW e \in End, Call(e) PROVE Inv'
<1> DEFINE n == prog[e].call + 1
           c == Script[e][n]
           prg == [pc |-> IF c.op = "write" /\ Down(pk[e]) THEN "failed" ELSE c.op,
                   tries |-> 0, call |-> n, left |-> c.n]
<1>1. pk[e] \in PackT /\ prog[e] \in ProgT /\ EndOK(e, pk[e], prog[e], wrote[e], rcvd[e], faults)
  BY EndIs
<1>2. /\ prog[e].pc = "call" /\ prog[e].call < Len(Script[e])
      /\ Step(e, pk[e], prg, line[e]) /\ UNCHANGED <<wrote, rcvd, faults>>
  BY DEF Call
<1>3. c \in [op : {"write", "read"}, n : Nat \ {0}] /\ n \in Nat /\ n > 0 /\ n <= Len(Script[e])
  <2>1. Script[e] \in Seq([op : {"write", "read"}, n : Nat \ {0}])
    BY ScriptAssumption
  <2>2. n \in 1..Len(Script[e])
    BY <1>1, <1>2, <2>1 DEF ProgT
  <2> HIDE DEF n
  <2>3. Script[e][n] \in [op : {"write", "read"}, n : Nat \ {0}]
    BY <2>1, <2>2, ElementOfSeq
  <2>4. Len(Script[e]) \in Nat
    BY <2>1
  <2> QED BY <2>2, <2>3, <2>4
<1> HIDE DEF c, n
<1>4. prg \in ProgT /\ prg.call = n /\ prg.left > 0 /\ prg.tries < GETRIES /\ prg.pc \in {"failed", "read", "write"}
      /\ (prg.pc = "write" => c.op = "write") /\ (prg.pc = "read" => c.op = "read")
  BY <1>3, Bounds DEF ProgT, PC, Ended
<1> HIDE DEF prg
<1>5. prg.pc = "write" => Writes(e, prg)
  BY <1>3, <1>4 DEF Writes, c
<1>6. prg.pc = "read" => ~Writes(e, prg)
  BY <1>3, <1>4 DEF Writes, c
<1>7. EndOK(e, pk[e], prg, wrote[e], rcvd[e], faults)
  BY <1>1, <1>3, <1>4, <1>5, <1>6 DEF EndOK
<1>8. Told(pk[e], pk[e])
  BY <1>1, TellSame
<1> QED BY <1>2, <1>7, <1>8, TellInv

(* What an end must be where nothing is asked of it but its buffers.       *)
LEMMA EndMoves ==
  ASSUME NEW e, NEW k, NEW prg, NEW prh, NEW w, NEW s, NEW fl, EndOK(e, k, prg, w, s, fl),
         NEW pc \in {"call", "flush", "bye", "closed", "failed"}, NEW l, l.is = k.is, l.pool = k.pool,
         prh \in ProgT, prh.pc = pc, prh.call = prg.call, pc \in Ended \/ prh.tries < GETRIES
  PROVE  EndOK(e, l, prh, w, s, fl)
<1>1. Used(l) = Used(k)
  BY UsedSame
<1> QED BY <1>1 DEF EndOK, Ended

LEMMA PkcloseInv == ASSUME Inv, NEW e \in End, Pkclose(e) PROVE Inv'
<1> DEFINE k1 == [pk[e] EXCEPT !.state = @ \cup {"DRAINO"}]
           prg == [prog[e] EXCEPT !.pc = "flush", !.left = 2]
<1>1. pk[e] \in PackT /\ prog[e] \in ProgT /\ EndOK(e, pk[e], prog[e], wrote[e], rcvd[e], faults)
  BY EndIs
<1>2. Told(pk[e], k1) /\ k1.pool = pk[e].pool /\ k1.is = pk[e].is
  BY <1>1 DEF Told, PackT, State, OutSame, InSame
<1>3. prog[e].pc = "call" /\ Step(e, k1, prg, line[e]) /\ UNCHANGED <<wrote, rcvd, faults>>
  BY DEF Pkclose
<1> HIDE DEF k1
<1>4. prg \in ProgT /\ prg.pc = "flush" /\ prg.call = prog[e].call /\ prg.tries < GETRIES
  BY <1>1, <1>3 DEF ProgT, PC, EndOK, Ended
<1> HIDE DEF prg
<1>5. EndOK(e, k1, prg, wrote[e], rcvd[e], faults)
  BY <1>1, <1>2, <1>4, EndMoves
<1> QED BY <1>2, <1>3, <1>5, TellInv

LEMMA PkcloseFlushInv == ASSUME Inv, NEW e \in End, PkcloseFlush(e) PROVE Inv'
<1>1. pk[e] \in PackT /\ prog[e] \in ProgT /\ EndOK(e, pk[e], prog[e], wrote[e], rcvd[e], faults)
  BY EndIs
<1>2. prog[e].pc = "flush" /\ UNCHANGED <<wrote, rcvd, faults>>
  BY DEF PkcloseFlush
<1>3. CASE MayFlush(pk[e]) /\ prog[e].left > 0
  <2> DEFINE prg == [prog[e] EXCEPT !.left = @ - 1]
  <2>1. Step(e, pkoutput(pk[e]), prg, line[e])
    BY <1>3 DEF PkcloseFlush
  <2>5. prog[e].left - 1 \in Nat /\ prog[e].tries < GETRIES
    BY <1>1, <1>2, <1>3 DEF ProgT, EndOK, Ended
  <2>2. prg \in ProgT /\ prg.pc = "flush" /\ prg.call = prog[e].call /\ prg.tries < GETRIES
    BY <1>1, <1>2, <2>5 DEF ProgT
  <2> HIDE DEF prg
  <2>3. EndOK(e, pk[e], prg, wrote[e], rcvd[e], faults)
    BY <1>1, <2>2, EndMoves
  <2>4. Told(pk[e], pk[e])
    BY <1>1, TellSame
  <2> QED BY <1>2, <2>1, <2>3, <2>4, TellInv
<1>4. CASE ~(MayFlush(pk[e]) /\ prog[e].left > 0)
  <2> DEFINE k1 == [pk[e] EXCEPT !.state = @ \cup {"DOWN"}]
             prg == [prog[e] EXCEPT !.pc = "bye", !.left = 2]
  <2>1. Step(e, k1, prg, line[e])
    BY <1>4 DEF PkcloseFlush
  <2>2. Told(pk[e], k1) /\ k1.pool = pk[e].pool /\ k1.is = pk[e].is
    BY <1>1 DEF Told, PackT, State, OutSame, InSame
  <2>3. prg \in ProgT /\ prg.pc = "bye" /\ prg.call = prog[e].call /\ prg.tries < GETRIES
    BY <1>1, <1>2 DEF ProgT, PC, EndOK, Ended
  <2> HIDE DEF k1, prg
  <2>4. EndOK(e, k1, prg, wrote[e], rcvd[e], faults)
    BY <1>1, <2>2, <2>3, EndMoves
  <2> QED BY <1>2, <2>1, <2>2, <2>4, TellInv
<1> QED BY <1>3, <1>4

LEMMA PkcloseByeInv == ASSUME Inv, NEW e \in End, PkcloseBye(e) PROVE Inv'
<1>1. pk[e] \in PackT /\ prog[e] \in ProgT /\ EndOK(e, pk[e], prog[e], wrote[e], rcvd[e], faults)
  BY EndIs
<1>2. prog[e].pc = "bye" /\ UNCHANGED <<wrote, rcvd, faults>>
  BY DEF PkcloseBye
<1>3. CASE "RCLOSE" \in pk[e].state \/ prog[e].left = 0
  <2> DEFINE prg == [prog[e] EXCEPT !.pc = "closed"]
  <2>1. Step(e, pk[e], prg, line[e])
    BY <1>3 DEF PkcloseBye, Go
  <2>2. prg \in ProgT /\ prg.pc = "closed" /\ prg.call = prog[e].call
    BY <1>1 DEF ProgT, PC, Ended
  <2> HIDE DEF prg
  <2>3. EndOK(e, pk[e], prg, wrote[e], rcvd[e], faults)
    BY <1>1, <2>2, EndMoves DEF Ended
  <2>4. Told(pk[e], pk[e])
    BY <1>1, TellSame
  <2> QED BY <1>2, <2>1, <2>3, <2>4, TellInv
<1>4. CASE ~("RCLOSE" \in pk[e].state \/ prog[e].left = 0)
  <2> DEFINE k1 == [pk[e] EXCEPT !.msg = {"CLOSE"}]
             prg == [prog[e] EXCEPT !.left = @ - 1]
  <2>1. Step(e, pkoutput(k1), prg, line[e])
    BY <1>4 DEF PkcloseBye
  <2>2. Told(pk[e], k1) /\ k1.pool = pk[e].pool /\ k1.is = pk[e].is
    BY <1>1, MessageIs DEF Told, PackT, OutSame, InSame
  <2>5. prog[e].left - 1 \in Nat /\ prog[e].tries < GETRIES
    BY <1>1, <1>2, <1>4 DEF ProgT, EndOK, Ended
  <2>3. prg \in ProgT /\ prg.pc = "bye" /\ prg.call = prog[e].call /\ prg.tries < GETRIES
    BY <1>1, <1>2, <2>5 DEF ProgT
  <2> HIDE DEF k1, prg
  <2>4. EndOK(e, k1, prg, wrote[e], rcvd[e], faults)
    BY <1>1, <2>2, <2>3, EndMoves
  <2> QED BY <1>2, <2>1, <2>2, <2>4, TellInv
<1> QED BY <1>3, <1>4

LEMMA PkwriteWaitInv == ASSUME Inv, NEW e \in End, PkwriteWait(e) PROVE Inv'
<1> DEFINE k == IF pk[e].xcount >= WINDOWS THEN pkoutput(pk[e]) ELSE pk[e]
           prg == [prog[e] EXCEPT !.pc = "window"]
<1>1. pk[e] \in PackT /\ prog[e] \in ProgT /\ EndOK(e, pk[e], prog[e], wrote[e], rcvd[e], faults)
  BY EndIs
<1>2. prog[e].pc = "write" /\ Step(e, k, prg, line[e]) /\ UNCHANGED <<wrote, rcvd, faults>>
  BY DEF PkwriteWait, Go
<1>3. k = pk[e] \/ k = pkoutput(pk[e])
  OBVIOUS
<1> HIDE DEF k
<1>4. prg \in ProgT /\ prg.pc = "window" /\ prg.call = prog[e].call /\ prg.left = prog[e].left /\ prg.tries = prog[e].tries
  BY <1>1 DEF ProgT, PC, Ended
<1> HIDE DEF prg
<1>5. EndOK(e, pk[e], prg, wrote[e], rcvd[e], faults)
  BY <1>1, <1>2, <1>4 DEF EndOK, Writes, Ended
<1>6. Told(pk[e], pk[e])
  BY <1>1, TellSame
<1> QED BY <1>2, <1>3, <1>5, <1>6, TellInv

LEMMA PkfailInv == ASSUME Inv, NEW e \in End, Pkfail(e) PROVE Inv'
<1> DEFINE prg == [prog[e] EXCEPT !.pc = "failed"]
<1>1. pk[e] \in PackT /\ prog[e] \in ProgT /\ EndOK(e, pk[e], prog[e], wrote[e], rcvd[e], faults)
  BY EndIs
<1>2. Step(e, pk[e], prg, line[e]) /\ UNCHANGED <<wrote, rcvd, faults>>
  BY DEF Pkfail, Go
<1>3. prg \in ProgT /\ prg.pc = "failed" /\ prg.call = prog[e].call
  BY <1>1 DEF ProgT, PC, Ended
<1> HIDE DEF prg
<1>4. EndOK(e, pk[e], prg, wrote[e], rcvd[e], faults)
  BY <1>1, <1>3, EndMoves DEF Ended
<1>5. Told(pk[e], pk[e])
  BY <1>1, TellSame
<1> QED BY <1>2, <1>4, <1>5, TellInv

LEMMA TimeoutInv == ASSUME Inv, NEW e \in End, Timeout(e) PROVE Inv'
<1> DEFINE k == pk[e]
           again == IF k.msg \cup k.rmsg = {} THEN {"RR"} ELSE k.msg \cup k.rmsg
           state == IF Live(k) THEN k.state \cup {"RXMIT"} ELSE k.state
           k1 == [k EXCEPT !.msg = again, !.state = state]
           prg == [prog[e] EXCEPT !.tries = @ + 1,
                                  !.pc = IF prog[e].tries + 1 >= GETRIES THEN "failed" ELSE @]
<1>1. k \in PackT /\ prog[e] \in ProgT /\ EndOK(e, k, prog[e], wrote[e], rcvd[e], faults)
  BY EndIs
<1>2. prog[e].pc \in {"opening", "window", "read"} /\ line[e] = <<>> /\ UNCHANGED <<wrote, rcvd, faults>>
  BY DEF Timeout, Silent, Getting
<1>3. Step(e, pkoutput(k1), prg, line[e])
  <2>1. k1 = [k EXCEPT !.msg = again, !.state = IF Live(k) THEN @ \cup {"RXMIT"} ELSE @]
    BY <1>1 DEF PackT
  <2> QED BY <1>2, <2>1 DEF Timeout
<1>4. again \in SUBSET Message /\ state \in SUBSET State /\ (Live(k) <=> "LIVE" \in state)
  BY <1>1, MessageIs DEF PackT, State, Live
<1> HIDE DEF again, state
<1>5. Told(k, k1) /\ k1.pool = k.pool /\ k1.is = k.is /\ k1.rcount = k.rcount /\ Live(k1) = Live(k)
  <2> HIDE DEF k
  <2>1. k1 \in PackT /\ OutSame(k, k1) /\ InSame(k, k1) /\ k1.pool = k.pool /\ k1.out = k.out /\ k1.connodata = k.connodata
    BY <1>1, <1>4 DEF PackT, OutSame, InSame
  <2>2. k1.state = state
    BY <1>1 DEF PackT
  <2> QED BY <1>4, <2>1, <2>2 DEF Told, InSame, Live
<1> HIDE DEF k1
<1>6. /\ prg \in ProgT /\ prg.call = prog[e].call /\ prg.left = prog[e].left
      /\ \/ prg.pc = "failed"
         \/ prg.pc = prog[e].pc /\ prg.tries < GETRIES
  <2>1. prog[e].tries < GETRIES /\ prog[e].tries \in Nat
    BY <1>1, <1>2, Bounds DEF EndOK, Ended, ProgT
  <2>2. prog[e].tries + 1 \in 0..GETRIES
    BY <2>1, Bounds
  <2> DEFINE pc == IF prog[e].tries + 1 >= GETRIES THEN "failed" ELSE prog[e].pc
  <2>3. pc \in PC /\ (pc = "failed" \/ (pc = prog[e].pc /\ prog[e].tries + 1 < GETRIES))
    BY <1>1, <2>1, Bounds DEF ProgT, PC, Ended
  <2>4. prg = [prog[e] EXCEPT !.tries = prog[e].tries + 1, !.pc = pc]
    BY <1>1 DEF ProgT
  <2> HIDE DEF pc, prg
  <2>5. prg \in ProgT /\ prg.call = prog[e].call /\ prg.left = prog[e].left /\ prg.pc = pc /\ prg.tries = prog[e].tries + 1
    BY <1>1, <2>2, <2>3, <2>4 DEF ProgT
  <2> QED BY <2>3, <2>5
<1> HIDE DEF prg
<1>7. EndOK(e, k1, prg, wrote[e], rcvd[e], faults)
  <2>1. CASE prg.pc = "failed"
    BY <1>1, <1>5, <1>6, <2>1, EndMoves DEF Ended
  <2>2. CASE prg.pc = prog[e].pc /\ prg.tries < GETRIES
    <3>1. Used(k1) = Used(k)
      BY <1>5, UsedSame
    <3> HIDE DEF k
    <3> QED BY <1>1, <1>2, <1>5, <1>6, <2>2, <3>1 DEF EndOK, Writes, Ended
  <2> QED BY <1>6, <2>1, <2>2
<1> QED BY <1>2, <1>3, <1>5, <1>7, TellInv

(* The numbers an end has read, whose last is r, and the next n.           *)
LEMMA ReadMore ==
  ASSUME NEW s \in Seq(Nat), NEW n \in Nat, NEW t, t = [i \in 1..n |-> Len(s) + i],
         s = [i \in 1..Len(s) |-> i]
  PROVE  /\ s \o t \in Seq(Nat) /\ Len(s \o t) = Len(s) + n
         /\ s \o t = [i \in 1..Len(s \o t) |-> i]
<1>1. t \in Seq(Nat) /\ Len(t) = n /\ Len(s) \in Nat
  OBVIOUS
<1>2. /\ s \o t \in Seq(Nat) /\ Len(s \o t) = Len(s) + n
      /\ \A i \in 1..Len(s) + n : (s \o t)[i] = IF i <= Len(s) THEN s[i] ELSE t[i - Len(s)]
  BY <1>1, ConcatProperties
<1>3. \A i \in 1..Len(s) + n : (s \o t)[i] = i
  <2> SUFFICES ASSUME NEW i \in 1..Len(s) + n PROVE (s \o t)[i] = i
    OBVIOUS
  <2>1. CASE i <= Len(s)
    <3>1. i \in 1..Len(s)
      BY <1>1, <2>1
    <3>2. s[i] = i
      BY <3>1
    <3> QED BY <1>2, <2>1, <3>2
  <2>2. CASE ~(i <= Len(s))
    <3>1. i - Len(s) \in 1..n /\ Len(s) + (i - Len(s)) = i
      BY <1>1, <2>2
    <3>2. t[i - Len(s)] = i
      BY <3>1
    <3> QED BY <1>2, <2>2, <3>2
  <2> QED BY <2>1, <2>2
<1> DEFINE u == s \o t
<1>4. u = [i \in 1..Len(u) |-> u[i]]
  BY <1>2
<1> QED BY <1>2, <1>3, <1>4

Accepted(k, l, r) ==
  /\ l \in PackT /\ l.out = k.out /\ l.pool + Cardinality(Used(l)) = k.pool + Cardinality(Used(k))
  /\ Used(l) = Residues(r, l.rcount) /\ Cardinality(Used(l)) = l.rcount /\ l.rcount \in 0..WINDOWS
  /\ \A i \in 1..l.rcount : l.is[Mod(r + i)].data = r + i
LEMMA AcceptBoth ==
  ASSUME NEW k, NEW f, NEW w, NEW r, NEW wf, NEW rf, NEW in, NEW out, Both(k, w, r, in, out, f, wf, rf),
         k.pool + Cardinality(Used(k)) <= WINDOWS
  PROVE  Both(pkaccept(k), w, r, in, out, f, wf, rf) /\ Accepted(k, pkaccept(k), r)
<1> DEFINE l == pkaccept(k)
<1>1. /\ k \in PackT /\ f \in PackT /\ r \in Nat /\ wf \in Nat /\ w \in Nat /\ rf \in Nat
      /\ Dir(k, w, out, in, f, rf) /\ Dir(f, wf, in, out, k, r) /\ InOK(k, wf, r)
  BY DEF Both, Dir
<1>2. wf <= r + WINDOWS
  BY <1>1, DirApart
<1>3. /\ l \in PackT /\ OutSame(k, l) /\ l.pr = k.pr /\ l.out = k.out
      /\ Used(l) = Residues(r, l.rcount)
      /\ l.pool = k.pool + Cardinality(Used(k)) - l.rcount
      /\ \A i \in 1..l.rcount : l.is[Mod(r + i)].data = r + i
  BY <1>1, <1>2, AcceptIs
<1>4. Dir(f, wf, in, out, l, r)
  BY <1>1, AcceptDir
<1> HIDE DEF l
<1>5. Dir(l, w, out, in, f, rf)
  <2>1. InSame(f, f)
    BY DEF InSame
  <2> QED BY <1>1, <1>3, <2>1, DirFrame
<1>6. l.rcount \in 0..WINDOWS /\ k.pool \in 0..WINDOWS /\ Cardinality(Used(k)) \in Nat
  BY <1>1, <1>3, UsedFinite DEF PackT
<1>7. Cardinality(Used(l)) = l.rcount
  <2>1. l.rcount \in 0..MOD /\ r \in Int
    BY <1>1, <1>6, Sizes
  <2> QED BY <1>3, <2>1, ResiduesCount
<1>8. l.pool + Cardinality(Used(l)) = k.pool + Cardinality(Used(k))
  BY <1>3, <1>6, <1>7
<1>9. Both(l, w, r, in, out, f, wf, rf)
  BY <1>3, <1>4, <1>5 DEF Both
<1>10. Accepted(k, l, r)
  BY <1>3, <1>6, <1>7, <1>8 DEF Accepted
<1> QED BY <1>9, <1>10 DEF l

(* What pkread does with the n packets that it takes.                      *)
Took(k, n, l) ==
  LET got == {(k.pr + i) % MOD : i \in 1..n}
  IN l = [Release(k, got) EXCEPT !.pr = (k.pr + n) % MOD, !.rcount = @ - n, !.msg = @ \cup {"RR"}]
LEMMA ReadBoth ==
  ASSUME NEW k, NEW f, NEW w, NEW r, NEW wf, NEW rf, NEW in, NEW out, Both(k, w, r, in, out, f, wf, rf),
         k.pool + Cardinality(Used(k)) <= WINDOWS, Used(k) = Residues(r, k.rcount), Cardinality(Used(k)) = k.rcount,
         NEW n \in 1..k.rcount, NEW l, Took(k, n, l)
  PROVE  /\ l \in PackT /\ Both(l, w, r + n, in, out, f, wf, rf) /\ l.out = k.out /\ Live(l) = Live(k)
         /\ l.pool + Cardinality(Used(l)) = k.pool + Cardinality(Used(k)) /\ r + n <= wf
<1>1. /\ k \in PackT /\ f \in PackT /\ r \in Nat /\ wf \in Nat /\ w \in Nat /\ rf \in Nat
      /\ in \in Seq(PacketT) /\ out \in Seq(PacketT)
      /\ Dir(k, w, out, in, f, rf) /\ Dir(f, wf, in, out, k, r) /\ InOK(k, wf, r)
  BY DEF Both, Dir
<1>2. k.rcount \in 0..WINDOWS /\ k.pool \in 0..WINDOWS /\ n \in Nat /\ n > 0 /\ k.rcount \in Nat /\ k.pool \in Nat
  <2>1. k.rcount \in 0..WINDOWS /\ k.pool \in 0..WINDOWS
    BY <1>1 DEF PackT
  <2> QED BY <2>1, Sizes
<1>3. \A i \in 1..n : (k.pr + i) % MOD = Mod(r + i)
  <2> SUFFICES ASSUME NEW i \in 1..n PROVE (k.pr + i) % MOD = Mod(r + i)
    OBVIOUS
  <2>1. (k.pr + i) % MOD = Mod(Mod(r) + i)
    BY <1>1 DEF InOK, Mod
  <2>2. i \in Int /\ r \in Int
    BY <1>1
  <2> QED BY <2>1, <2>2, ModAdd
<1> DEFINE got == {(k.pr + i) % MOD : i \in 1..n}
<1>4. got = Residues(r, n)
  BY <1>3 DEF Residues
<1>5. Cardinality(got) = n
  <2>1. n \in 0..MOD /\ r \in Int
    BY <1>1, <1>2, Sizes
  <2> QED BY <1>4, <2>1, ResiduesCount
<1> DEFINE pr == (k.pr + n) % MOD
           is == [x \in Seqno |-> IF x \in got THEN FreeSlot ELSE k.is[x]]
           msg == k.msg \cup {"RR"}
<1>6. pr = Mod(r + n) /\ pr \in Seqno
  <2>1. n \in 1..n /\ r + n \in Int
    BY <1>1, <1>2
  <2> QED BY <1>3, <2>1, ModType
<1>7. is \in [Seqno -> SlotT]
  <2>1. FreeSlot \in SlotT
    BY Sizes DEF FreeSlot, SlotT
  <2> QED BY <1>1, <2>1 DEF PackT
<1>8. l = [k EXCEPT !.is = is, !.pool = k.pool + n, !.pr = pr, !.rcount = k.rcount - n, !.msg = msg]
  BY <1>1, <1>5 DEF Release, PackT, Took
<1>9. \A x \in Seqno : is[x] = IF x \in Residues(r, n) THEN FreeSlot ELSE k.is[x]
  BY <1>4
<1>10. msg \in SUBSET Message
  BY <1>1, MessageIs DEF PackT
<1> HIDE DEF pr, is, msg, got
<1>11. k.pool + n \in 0..WINDOWS /\ k.rcount - n \in 0..WINDOWS /\ k.pool + n + (k.rcount - n) = k.pool + k.rcount
  BY <1>2, Sizes
<1>12. l \in PackT
  <2> DEFINE k1 == [k EXCEPT !.is = is, !.pool = k.pool + n]
  <2>1. k1 \in PackT
    BY <1>1, <1>7, <1>11 DEF PackT
  <2>2. l = [k1 EXCEPT !.pr = pr, !.rcount = k.rcount - n, !.msg = msg]
    BY <1>1, <1>8 DEF PackT
  <2> HIDE DEF k1
  <2> QED BY <1>6, <1>10, <1>11, <2>1, <2>2 DEF PackT
<1>13. /\ l.is = is /\ l.pool = k.pool + n /\ l.pr = pr /\ l.rcount = k.rcount - n /\ l.out = k.out
       /\ l.state = k.state /\ OutSame(k, l)
  BY <1>1, <1>8 DEF PackT, OutSame
<1>14. Dir(f, wf, in, out, l, r + n) /\ Used(l) = Residues(r + n, l.rcount) /\ r + n <= wf
  <2>1. l.pr = Mod(r + n) /\ l.rcount = k.rcount - n /\ Without(k, l, r, n)
    BY <1>6, <1>9, <1>13 DEF Without
  <2> QED BY <1>1, <1>2, <2>1, ReadDir
<1>15. Dir(l, w, out, in, f, rf)
  <2>1. InSame(f, f)
    BY DEF InSame
  <2> QED BY <1>1, <1>13, <2>1, DirFrame
<1>16. Cardinality(Used(l)) = k.rcount - n
  <2>2. l.rcount \in 0..MOD
    BY <1>11, <1>13, Sizes
  <2>1. l.rcount \in 0..MOD /\ r + n \in Int
    BY <1>1, <1>2, <2>2
  <2> QED BY <1>13, <1>14, <2>1, ResiduesCount
<1>17. r + n \in Nat
  BY <1>1, <1>2
<1>18. Both(l, w, r + n, in, out, f, wf, rf)
  BY <1>1, <1>12, <1>14, <1>15, <1>17 DEF Both
<1>19. l.pool + Cardinality(Used(l)) = k.pool + Cardinality(Used(k))
  BY <1>2, <1>11, <1>13, <1>16
<1> QED BY <1>12, <1>13, <1>14, <1>18, <1>19 DEF Live

(* What the invariant says of end e and the other.                         *)
LEMMA BothIs ==
  ASSUME Inv, NEW e \in End
  PROVE  /\ Both(pk[e], wrote[e], Len(rcvd[e]), line[e], line[Peer(e)], pk[Peer(e)], wrote[Peer(e)], Len(rcvd[Peer(e)]))
         /\ pk[e].pool + Cardinality(Used(pk[e])) <= WINDOWS
         /\ faults \in faults..MaxFaults
<1>1. EndOK(e, pk[e], prog[e], wrote[e], rcvd[e], faults) /\ faults \in Nat
  BY EndIs
<1>2. pk[e].pool + Cardinality(Used(pk[e])) \in WINDOWS - faults..WINDOWS
  BY <1>1 DEF EndOK
<1>3. pk[e].pool + Cardinality(Used(pk[e])) <= WINDOWS
  BY <1>1, <1>2, Sizes
<1> QED BY <1>3, Bounds DEF Inv, Lines, Typed

(* pkwrite gives the packet a number, and pkoutput sends it or another.    *)
LEMMA PkwritePutInv == ASSUME Inv, NEW e \in End, PkwritePut(e) PROVE Inv'
<1> DEFINE d == Peer(e)
           w == wrote[e]
           r == Len(rcvd[e])
           x == next(pk[e].pscopy)
           k == [pk[e] EXCEPT !.pscopy = x, !.xcount = @ + 1, !.os[x] = "ready", !.ob[x] = wrote[e] + 1]
           pc == IF prog[e].left = 1 THEN "call" ELSE "write"
           prg == [prog[e] EXCEPT !.left = @ - 1, !.pc = pc]
<1>1. /\ pk[e] \in PackT /\ prog[e] \in ProgT /\ w \in Nat /\ rcvd[e] \in Seq(Nat)
      /\ EndOK(e, pk[e], prog[e], w, rcvd[e], faults) /\ pk[e].out = <<>>
  BY EndIs
<1>2. Both(pk[e], w, r, line[e], line[d], pk[d], wrote[d], Len(rcvd[d])) /\ faults \in faults..MaxFaults
  BY BothIs
<1>3. /\ prog[e].pc = "write" /\ pk[e].xcount < WINDOWS /\ Step(e, pkoutput(k), prg, line[e])
      /\ wrote' = [wrote EXCEPT ![e] = w + 1] /\ UNCHANGED <<rcvd, faults>>
  BY DEF PkwritePut
<1> HIDE DEF w, r, d
<1>4. x = Mod(w + 1) /\ x \in Seqno
  <2>1. pk[e].pscopy = Mod(w) /\ pk[e].pscopy \in Seqno
    BY <1>1, <1>2 DEF Both, Dir, OutOK, PackT
  <2>2. x = Mod(Mod(w) + 1) /\ x \in Seqno
    BY <2>1, NextIs
  <2> QED BY <1>1, <2>2, ModAdd
<1> DEFINE os == [pk[e].os EXCEPT ![x] = "ready"]
           ob == [pk[e].ob EXCEPT ![x] = w + 1]
<1>5. k = [pk[e] EXCEPT !.pscopy = x, !.xcount = pk[e].xcount + 1, !.os = os, !.ob = ob]
  BY <1>1 DEF PackT, w
<1> HIDE DEF x
<1>6. /\ os \in [Seqno -> {"null", "ready", "sent"}] /\ ob \in [Seqno -> Nat] /\ os[x] = "ready" /\ ob[x] = w + 1
      /\ \A y \in Seqno : y # x => os[y] = pk[e].os[y] /\ ob[y] = pk[e].ob[y]
  BY <1>1, <1>4 DEF PackT
<1>7. pk[e].xcount + 1 \in 0..WINDOWS
  <2>1. pk[e].xcount \in 0..WINDOWS
    BY <1>1 DEF PackT
  <2> QED BY <1>3, <2>1, Sizes
<1> HIDE DEF k, os, ob
<1>8. k \in PackT
  <2> DEFINE k1 == [pk[e] EXCEPT !.pscopy = x, !.xcount = pk[e].xcount + 1]
  <2>1. k1 \in PackT
    BY <1>1, <1>4, <1>7 DEF PackT
  <2>2. k = [k1 EXCEPT !.os = os, !.ob = ob]
    BY <1>1, <1>5 DEF PackT
  <2> HIDE DEF k1
  <2> QED BY <1>6, <2>1, <2>2 DEF PackT
<1>9. /\ k.os = os /\ k.ob = ob /\ k.pscopy = x /\ k.xcount = pk[e].xcount + 1 /\ k.ps = pk[e].ps /\ k.rpr = pk[e].rpr
      /\ k.out = <<>> /\ k.pool = pk[e].pool /\ k.is = pk[e].is /\ k.state = pk[e].state /\ k.rcount = pk[e].rcount
      /\ InSame(pk[e], k)
  BY <1>1, <1>5 DEF PackT, InSame
<1>10. Dir(k, w + 1, line[d], line[e], pk[d], Len(rcvd[d]))
  <2>1. /\ k.pscopy = Mod(w + 1) /\ k.os[Mod(w + 1)] = "ready" /\ k.ob[Mod(w + 1)] = w + 1
        /\ \A y \in Seqno : y # Mod(w + 1) => k.os[y] = pk[e].os[y] /\ k.ob[y] = pk[e].ob[y]
    BY <1>4, <1>6, <1>9
  <2>2. Len(rcvd[d]) \in Nat /\ Dir(pk[e], w, line[d], line[e], pk[d], Len(rcvd[d]))
    BY <1>2 DEF Both
  <2> QED BY <1>1, <1>3, <1>9, <2>1, <2>2, PutDir
<1>11. Dir(pk[d], wrote[d], line[e], line[d], k, r)
  <2>1. OutSame(pk[d], pk[d])
    BY DEF OutSame
  <2> QED BY <1>2, <1>9, <2>1, DirFrame DEF Both
<1>12. Both(k, w + 1, r, line[e], line[d], pk[d], wrote[d], Len(rcvd[d]))
  <2>1. w + 1 \in Nat
    BY <1>1
  <2> QED BY <1>2, <1>8, <1>10, <1>11, <2>1 DEF Both
<1> DEFINE l == pkoutput(k)
<1>13. Both(l, w + 1, r, line[e], line[d] \o l.out, pk[d], wrote[d], Len(rcvd[d])) /\ InSame(k, l) /\ l.pool = k.pool
  BY <1>9, <1>12, BothMayOutput
<1>14. prg \in ProgT /\ prg.pc = pc /\ prg.call = prog[e].call /\ prg.tries = prog[e].tries /\ prg.left = prog[e].left - 1
       /\ (pc = "write" => prg.left > 0) /\ pc \in {"call", "write"}
  <2>1. prog[e].left \in Nat /\ prog[e].left > 0
    BY <1>1, <1>3 DEF EndOK, ProgT
  <2>2. prog[e].left - 1 \in Nat /\ (pc = "write" => prog[e].left - 1 > 0)
    BY <2>1
  <2>3. pc \in PC /\ pc \in {"call", "write"}
    BY DEF PC
  <2> HIDE DEF pc
  <2>4. prg = [prog[e] EXCEPT !.left = prog[e].left - 1, !.pc = pc]
    BY <1>1 DEF ProgT
  <2> HIDE DEF prg
  <2> QED BY <1>1, <2>2, <2>3, <2>4 DEF ProgT
<1> HIDE DEF prg, pc, l
<1>15. EndOK(e, l, prg, w + 1, rcvd[e], faults)
  <2>1. Used(l) = Used(pk[e]) /\ l.pool = pk[e].pool
    BY <1>9, <1>13, UsedSame DEF InSame
  <2> QED BY <1>1, <1>3, <1>14, <2>1 DEF EndOK, Writes, Ended
<1>16. rcvd' = [rcvd EXCEPT ![e] = rcvd[e]] /\ faults' \in faults..MaxFaults /\ faults' = faults
  BY <1>2, <1>3 DEF Inv, Typed
<1> DEFINE v == w + 1
<1>17. Step(e, l, prg, line[e]) /\ wrote' = [wrote EXCEPT ![e] = v] /\ EndOK(e, l, prg, v, rcvd[e], faults')
  BY <1>3, <1>15, <1>16 DEF l
<1>18. Both(l, v, Len(rcvd[e]), line[e], line[Peer(e)] \o l.out, pk[Peer(e)], wrote[Peer(e)], Len(rcvd[Peer(e)]))
  BY <1>13 DEF r, d
<1> HIDE DEF v
<1> QED BY <1>16, <1>17, <1>18, StepInv

LEMMA PkacceptInv == ASSUME Inv, NEW e \in End, Pkaccept(e) PROVE Inv'
<1> DEFINE d == Peer(e)
           k == pkaccept(pk[e])
           prg == [prog[e] EXCEPT !.pc = "read"]
<1>1. /\ pk[e] \in PackT /\ prog[e] \in ProgT /\ EndOK(e, pk[e], prog[e], wrote[e], rcvd[e], faults)
      /\ pk[e].out = <<>> /\ line[d] \in Seq(PacketT)
  BY EndIs, PeerIs
<1>2. /\ Both(pk[e], wrote[e], Len(rcvd[e]), line[e], line[d], pk[d], wrote[d], Len(rcvd[d]))
      /\ pk[e].pool + Cardinality(Used(pk[e])) <= WINDOWS /\ faults \in faults..MaxFaults
  BY BothIs
<1>3. prog[e].pc = "read" /\ Step(e, k, prg, line[e]) /\ UNCHANGED <<wrote, rcvd, faults>>
  BY DEF Pkaccept, Go
<1>4. prg = prog[e]
  BY <1>1, <1>3 DEF ProgT
<1> HIDE DEF d, prg
<1>9. Both(k, wrote[e], Len(rcvd[e]), line[e], line[d], pk[d], wrote[d], Len(rcvd[d])) /\ Accepted(pk[e], k, Len(rcvd[e]))
  BY <1>2, AcceptBoth
<1> HIDE DEF k
<1>5. /\ Both(k, wrote[e], Len(rcvd[e]), line[e], line[d], pk[d], wrote[d], Len(rcvd[d])) /\ k.out = <<>>
      /\ k.pool + Cardinality(Used(k)) = pk[e].pool + Cardinality(Used(pk[e]))
  BY <1>1, <1>9 DEF Accepted
<1>6. EndOK(e, k, prg, wrote[e], rcvd[e], faults)
  BY <1>1, <1>3, <1>4, <1>5 DEF EndOK
<1>7. line[d] \o k.out = line[d]
  BY <1>1, <1>5, OutEmpty
<1>8. faults' = faults /\ faults' \in faults..MaxFaults
  BY <1>2, <1>3
<1> QED BY <1>3, <1>5, <1>6, <1>7, <1>8, QuietInv DEF d

(* pkread returns what pkaccept accepted: the next n packets.              *)
LEMMA PkreadIs ==
  ASSUME Inv, NEW e \in End, Pkread(e)
  PROVE  \E n \in 1..WINDOWS, k \in PackT, prg \in ProgT :
           /\ Both(k, wrote[e], Len(rcvd[e]) + n, line[e], line[Peer(e)], pk[Peer(e)], wrote[Peer(e)], Len(rcvd[Peer(e)]))
           /\ k.out = <<>> /\ k.pool + Cardinality(Used(k)) = pk[e].pool + Cardinality(Used(pk[e]))
           /\ Len(rcvd[e]) + n <= wrote[Peer(e)]
           /\ prog[e].pc = "read" /\ prg.call = prog[e].call /\ prg.tries = prog[e].tries
           /\ \/ prg.pc = "call"
              \/ prg.pc = "read" /\ prg.left > 0
           /\ Step(e, pkoutput(k), prg, line[e])
           /\ rcvd' = [rcvd EXCEPT ![e] = rcvd[e] \o [i \in 1..n |-> Len(rcvd[e]) + i]]
           /\ UNCHANGED <<wrote, faults>>
<1> DEFINE d == Peer(e)
           r == Len(rcvd[e])
           k0 == pkaccept(pk[e])
           n == Min({k0.rcount, prog[e].left})
           got(i) == (k0.pr + i) % MOD
           k == [Release(k0, {got(i) : i \in 1..n}) EXCEPT
                  !.pr = got(n), !.rcount = @ - n, !.msg = @ \cup {"RR"}]
           pc == IF n = prog[e].left THEN "call" ELSE "read"
           prg == [prog[e] EXCEPT !.left = @ - n, !.pc = pc]
           data == [i \in 1..n |-> k0.is[got(i)].data]
<1>1. /\ pk[e] \in PackT /\ prog[e] \in ProgT /\ EndOK(e, pk[e], prog[e], wrote[e], rcvd[e], faults)
      /\ pk[e].out = <<>> /\ r \in Nat
  BY EndIs
<1>2. /\ Both(pk[e], wrote[e], r, line[e], line[d], pk[d], wrote[d], Len(rcvd[d]))
      /\ pk[e].pool + Cardinality(Used(pk[e])) <= WINDOWS
  BY BothIs
<1>3. /\ prog[e].pc = "read" /\ n > 0 /\ Step(e, pkoutput(k), prg, line[e])
      /\ rcvd' = [rcvd EXCEPT ![e] = rcvd[e] \o data] /\ UNCHANGED <<wrote, faults>>
  BY <1>1 DEF Pkread, Inv, Typed
<1> HIDE DEF d, r
<1>4. /\ k0 \in PackT /\ Both(k0, wrote[e], r, line[e], line[d], pk[d], wrote[d], Len(rcvd[d])) /\ k0.out = <<>>
      /\ k0.pool + Cardinality(Used(k0)) = pk[e].pool + Cardinality(Used(pk[e]))
      /\ Used(k0) = Residues(r, k0.rcount) /\ Cardinality(Used(k0)) = k0.rcount /\ k0.rcount \in 0..WINDOWS
      /\ \A i \in 1..k0.rcount : k0.is[Mod(r + i)].data = r + i
  <2>1. Both(k0, wrote[e], r, line[e], line[d], pk[d], wrote[d], Len(rcvd[d])) /\ Accepted(pk[e], k0, r)
    BY <1>2, AcceptBoth
  <2> HIDE DEF k0
  <2> QED BY <1>1, <2>1 DEF Accepted
<1> HIDE DEF k0
<1>5. prog[e].left \in Nat /\ k0.rcount \in Nat
  BY <1>1, <1>4, Sizes DEF ProgT
<1>6. n \in {k0.rcount, prog[e].left} /\ n <= k0.rcount /\ n <= prog[e].left
  <2> DEFINE S == {k0.rcount, prog[e].left}
  <2>1. S \subseteq Nat /\ S # {} /\ k0.rcount \in S /\ prog[e].left \in S
    BY <1>5
  <2> HIDE DEF S
  <2>2. Min(S) \in S /\ \A y \in S : Min(S) <= y
    BY <2>1, MinType
  <2> QED BY <2>1, <2>2 DEF S
<1> HIDE DEF n
<1>7. n \in 1..WINDOWS /\ n \in 1..k0.rcount /\ n \in Nat
  BY <1>3, <1>4, <1>5, <1>6, Sizes
<1>8. Took(k0, n, k)
  BY DEF Took
<1>9. data = [i \in 1..n |-> r + i]
  <2>1. k0.pr = Mod(r) /\ r \in Nat
    BY <1>4 DEF Both, Dir, InOK
  <2>2. ASSUME NEW i \in 1..n PROVE k0.is[got(i)].data = r + i
    <3>1. i \in 1..k0.rcount /\ i \in Int /\ r \in Int
      <4>1. i \in Nat /\ i >= 1 /\ i <= n /\ n <= k0.rcount
        BY <1>6, <1>7
      <4>2. i <= k0.rcount
        BY <1>5, <1>7, <4>1
      <4> QED BY <2>1, <4>1, <4>2
    <3>2. got(i) = Mod(Mod(r) + i)
      BY <2>1 DEF Mod
    <3>3. got(i) = Mod(r + i)
      BY <3>1, <3>2, ModAdd
    <3> HIDE DEF got
    <3> QED BY <1>4, <3>1, <3>3
  <2> HIDE DEF got
  <2> QED BY <2>2
<1> HIDE DEF k, data
<1>10. /\ k \in PackT /\ Both(k, wrote[e], r + n, line[e], line[d], pk[d], wrote[d], Len(rcvd[d])) /\ k.out = k0.out
       /\ k.pool + Cardinality(Used(k)) = k0.pool + Cardinality(Used(k0)) /\ r + n <= wrote[d]
  <2>1. k0.pool + Cardinality(Used(k0)) <= WINDOWS
    BY <1>2, <1>4
  <2> QED BY <1>4, <1>7, <1>8, <2>1, ReadBoth
<1>11. /\ prg \in ProgT /\ prg.call = prog[e].call /\ prg.tries = prog[e].tries
       /\ \/ prg.pc = "call"
          \/ prg.pc = "read" /\ prg.left > 0
  <2>1. prog[e].left - n \in Nat /\ (pc = "read" => prog[e].left - n > 0)
    BY <1>5, <1>6, <1>7
  <2>2. pc \in PC /\ pc \in {"call", "read"}
    BY DEF PC
  <2> HIDE DEF pc
  <2>3. prg = [prog[e] EXCEPT !.left = prog[e].left - n, !.pc = pc]
    BY <1>1 DEF ProgT
  <2> HIDE DEF prg
  <2> QED BY <1>1, <2>1, <2>2, <2>3 DEF ProgT
<1> HIDE DEF prg
<1>12. rcvd' = [rcvd EXCEPT ![e] = rcvd[e] \o [i \in 1..n |-> r + i]]
  BY <1>3, <1>9
<1> QED BY <1>3, <1>4, <1>7, <1>10, <1>11, <1>12 DEF r, d

LEMMA PkreadInv == ASSUME Inv, NEW e \in End, Pkread(e) PROVE Inv'
<1> DEFINE d == Peer(e)
           Did(n, k, prg) ==
             /\ Both(k, wrote[e], Len(rcvd[e]) + n, line[e], line[d], pk[d], wrote[d], Len(rcvd[d]))
             /\ k.out = <<>> /\ k.pool + Cardinality(Used(k)) = pk[e].pool + Cardinality(Used(pk[e]))
             /\ Len(rcvd[e]) + n <= wrote[d]
             /\ prog[e].pc = "read" /\ prg.call = prog[e].call /\ prg.tries = prog[e].tries
             /\ \/ prg.pc = "call"
                \/ prg.pc = "read" /\ prg.left > 0
             /\ Step(e, pkoutput(k), prg, line[e])
             /\ rcvd' = [rcvd EXCEPT ![e] = rcvd[e] \o [i \in 1..n |-> Len(rcvd[e]) + i]]
             /\ UNCHANGED <<wrote, faults>>
<1>1. \E n \in 1..WINDOWS, k \in PackT, prg \in ProgT : Did(n, k, prg)
  BY PkreadIs
<1>2. PICK n \in 1..WINDOWS, k \in PackT, prg \in ProgT : Did(n, k, prg)
  BY <1>1
<1> DEFINE l == pkoutput(k)
           t == [i \in 1..n |-> Len(rcvd[e]) + i]
           s == rcvd[e] \o t
<1>3. /\ pk[e] \in PackT /\ prog[e] \in ProgT /\ EndOK(e, pk[e], prog[e], wrote[e], rcvd[e], faults)
      /\ rcvd[e] \in Seq(Nat) /\ faults' \in faults..MaxFaults /\ faults' = faults
  BY <1>2, EndIs, BothIs
<1>4. s \in Seq(Nat) /\ Len(s) = Len(rcvd[e]) + n /\ s = [i \in 1..Len(s) |-> i]
  <2>1. n \in Nat /\ rcvd[e] = [i \in 1..Len(rcvd[e]) |-> i]
    BY <1>3, Sizes DEF EndOK
  <2> QED BY <1>3, <2>1, ReadMore
<1>5. /\ Both(k, wrote[e], Len(s), line[e], line[d], pk[d], wrote[d], Len(rcvd[d])) /\ k.out = <<>>
      /\ Step(e, l, prg, line[e]) /\ rcvd' = [rcvd EXCEPT ![e] = s]
  BY <1>2, <1>4
<1> HIDE DEF s, d
<1>6. /\ Both(l, wrote[e], Len(s), line[e], line[d] \o l.out, pk[d], wrote[d], Len(rcvd[d]))
      /\ InSame(k, l) /\ l.pool = k.pool
  BY <1>5, BothMayOutput
<1> HIDE DEF l
<1>7. EndOK(e, l, prg, wrote[e], s, faults)
  <2>1. Used(l) = Used(k)
    BY <1>6, UsedSame DEF InSame
  <2>2. l.pool + Cardinality(Used(l)) = pk[e].pool + Cardinality(Used(pk[e]))
    BY <1>2, <1>6, <2>1
  <2> QED BY <1>2, <1>3, <1>4, <2>2 DEF EndOK, Writes, Ended
<1>8. wrote' = [wrote EXCEPT ![e] = wrote[e]] /\ EndOK(e, l, prg, wrote[e], s, faults')
  BY <1>2, <1>3, <1>7 DEF Inv, Typed
<1>9. Both(l, wrote[e], Len(s), line[e], line[Peer(e)] \o l.out, pk[Peer(e)], wrote[Peer(e)], Len(rcvd[Peer(e)]))
  BY <1>6 DEF d
<1> QED BY <1>3, <1>5, <1>8, <1>9, StepInv

(* A packet finds the pool empty while no call of pkwrite waits: faults     *)
(* lost the buffers.                                                       *)
LEMMA NoBuffer ==
  ASSUME Inv, NEW e \in End, Getting(e), pk[e].pool = 0, ~Writes(e, prog[e])
  PROVE  faults >= WINDOWS
<1>1. /\ pk[e] \in PackT /\ EndOK(e, pk[e], prog[e], wrote[e], rcvd[e], faults) /\ faults \in Nat
      /\ rcvd[e] \in Seq(Nat)
  BY EndIs
<1>2. prog[e].pc = "opening" \/ (prog[e].pc = "read" /\ ~Pending(pk[e]))
  BY <1>1 DEF Getting, EndOK
<1>3. Used(pk[e]) = {}
  <2>1. CASE prog[e].pc = "opening"
    BY <1>1, <2>1 DEF EndOK
  <2>2. CASE ~Pending(pk[e])
    <3>1. pk[e].rcount = 0 /\ \A x \in Seqno : pk[e].is[x].st # "raw"
      <4>1. pk[e].rcount \in 0..WINDOWS
        BY <1>1 DEF PackT
      <4> QED BY <2>2, <4>1, Sizes DEF Pending
    <3>2. \A x \in Seqno : pk[e].is[x].st = "copy" => x \in Residues(Len(rcvd[e]), pk[e].rcount)
      BY BothIs DEF Both, Dir, InOK
    <3>3. Residues(Len(rcvd[e]), 0) = {}
      BY DEF Residues
    <3>4. \A x \in Seqno : pk[e].is[x].st \in {"free", "raw", "copy"}
      BY <1>1 DEF PackT, SlotT
    <3> QED BY <3>1, <3>2, <3>3, <3>4 DEF Used
  <2> QED BY <1>2, <2>1, <2>2
<1>4. Cardinality({}) = 0
  BY FS_EmptySet
<1>5. pk[e].pool + Cardinality(Used(pk[e])) \in WINDOWS - faults..WINDOWS
  BY <1>1 DEF EndOK
<1>6. 0 \in WINDOWS - faults..WINDOWS
  BY <1>3, <1>4, <1>5
<1> QED BY <1>1, <1>6, Sizes

(* pkopen puts the numbers back where they were.                           *)
LEMMA ResetBoth ==
  ASSUME NEW k, NEW f, NEW wf, NEW rf, NEW in, NEW out, Both(k, 0, 0, in, out, f, wf, rf)
  PROVE  /\ Both(pkreset(k), 0, 0, in, out, f, wf, rf) /\ InSame(k, pkreset(k)) /\ pkreset(k).pool = k.pool
         /\ pkreset(k).out = k.out
<1> DEFINE l == pkreset(k)
<1>1. k \in PackT /\ rf \in Nat /\ k.xcount \in 0..WINDOWS
  BY DEF Both, PackT
<1>2. 0 - k.xcount \in 0..rf /\ k.ps = Mod(0 - k.xcount) /\ k.rpr = Mod(0 - k.xcount) /\ k.pr = Mod(0)
  BY DEF Both, Dir, OutOK, InOK
<1>3. k.xcount = 0
  BY <1>1, <1>2, Sizes
<1>4. 0 \in Seqno /\ 1 \in Seqno
  BY Sizes DEF Seqno
<1>5. Mod(0) = 0
  BY <1>4, ModSame
<1>6. k.ps = 0 /\ k.rpr = 0 /\ k.pr = 0
  BY <1>2, <1>3, <1>5
<1>7. l \in PackT /\ OutSame(k, l) /\ InSame(k, l) /\ l.pool = k.pool /\ l.out = k.out
  BY <1>1, <1>4, <1>6 DEF pkreset, PackT, OutSame, InSame
<1> HIDE DEF l
<1>8. Both(l, 0, 0, in, out, f, wf, rf)
  BY <1>7, BothFrame
<1> QED BY <1>7, <1>8 DEF l

(* The four ways Receive goes on.                                          *)
ReceivedAs(e, how, k, q) ==
  LET wild == Wild(pk[e], line[e][1], how)
      rest == Tail(line[e])
  IN \/ /\ wild /\ q.pc = "wild" /\ Step(e, pk[e], q, rest)
     \/ /\ ~wild /\ prog[e].pc = "opening" /\ Live(k) /\ q.pc = "call" /\ Step(e, pkreset(k), q, rest)
     \/ /\ ~wild /\ prog[e].pc = "opening" /\ ~Live(k) /\ Step(e, k, q, rest)
        /\ q.pc = "failed" \/ (q.pc = "opening" /\ q.left > 0)
     \/ /\ ~wild /\ Step(e, k, q, rest) /\ q.left > 0
        /\ (prog[e].pc = "window" /\ q.pc = "write") \/ (prog[e].pc = "read" /\ q.pc = "read")

LEMMA ReceiveIs ==
  ASSUME Inv, NEW e \in End, NEW how, Receive(e, how)
  PROVE  \E q \in ProgT : /\ q.tries = 0 /\ q.call = prog[e].call
                          /\ ReceivedAs(e, how, Handle(pk[e], line[e][1], how), q)
<1> DEFINE p == line[e][1]
           k == Handle(pk[e], p, how)
           wild == Wild(pk[e], p, how)
           old == [prog[e] EXCEPT !.tries = 0]
           q1 == [old EXCEPT !.pc = "wild"]
           q2 == [old EXCEPT !.pc = "call", !.left = 0]
           pc3 == IF old.left = 1 THEN "failed" ELSE old.pc
           q3 == [old EXCEPT !.left = old.left - 1, !.pc = pc3]
           pc4 == IF old.pc = "window" THEN "write" ELSE old.pc
           q4 == [old EXCEPT !.pc = pc4]
           rest == Tail(line[e])
           Goal == \E q \in ProgT : q.tries = 0 /\ q.call = prog[e].call /\ ReceivedAs(e, how, k, q)
<1> SUFFICES Goal
  OBVIOUS
<1>1. /\ prog[e] \in ProgT /\ prog[e].pc \in {"opening", "window", "read"} /\ Head(line[e]) = p
      /\ prog[e].left > 0
  <2>1. EndOK(e, pk[e], prog[e], wrote[e], rcvd[e], faults) /\ prog[e] \in ProgT /\ line[e] \in Seq(PacketT)
    BY EndIs
  <2>2. prog[e].pc \in {"opening", "window", "read"}
    BY DEF Receive, Getting
  <2>3. prog[e].left > 0
    BY <2>1, <2>2 DEF EndOK
  <2> QED BY <2>1, <2>2, <2>3
<1>2. (CASE wild -> Step(e, pk[e], q1, rest)
         [] ~wild /\ old.pc = "opening" /\ Live(k) -> Step(e, pkreset(k), q2, rest)
         [] ~wild /\ old.pc = "opening" /\ ~Live(k) -> Step(e, k, q3, rest)
         [] OTHER -> Step(e, k, q4, rest))
  BY <1>1 DEF Receive
<1>3. old \in ProgT /\ old.pc = prog[e].pc /\ old.left = prog[e].left /\ old.call = prog[e].call /\ old.tries = 0
  BY <1>1, Bounds DEF ProgT
<1> HIDE DEF old, k, p, rest, wild
<1>4. q1 \in ProgT /\ q1.pc = "wild" /\ q1.call = prog[e].call /\ q1.tries = 0
  BY <1>3 DEF ProgT, PC, Ended
<1>5. q2 \in ProgT /\ q2.pc = "call" /\ q2.call = prog[e].call /\ q2.tries = 0
  BY <1>3 DEF ProgT, PC
<1>6. q3 \in ProgT /\ q3.pc = pc3 /\ q3.left = old.left - 1 /\ q3.call = prog[e].call /\ q3.tries = 0
  <2>1. old.left - 1 \in Nat /\ pc3 \in PC
    BY <1>1, <1>3 DEF ProgT, PC, Ended
  <2> HIDE DEF pc3
  <2> QED BY <1>3, <2>1 DEF ProgT
<1>7. q4 \in ProgT /\ q4.pc = pc4 /\ q4.left = prog[e].left /\ q4.call = prog[e].call /\ q4.tries = 0
  <2>1. pc4 \in PC
    BY <1>1, <1>3 DEF PC
  <2> HIDE DEF pc4
  <2> QED BY <1>3, <2>1 DEF ProgT
<1> HIDE DEF q1, q2, q3, q4
<1>8. CASE wild
  <2>1. ReceivedAs(e, how, k, q1)
    BY <1>2, <1>4, <1>8 DEF ReceivedAs, rest, p, wild
  <2> QED BY <1>4, <2>1
<1>9. CASE ~wild /\ old.pc = "opening" /\ Live(k)
  <2>1. ReceivedAs(e, how, k, q2)
    BY <1>2, <1>3, <1>5, <1>9 DEF ReceivedAs, rest, p, wild
  <2> QED BY <1>5, <2>1
<1>10. CASE ~wild /\ old.pc = "opening" /\ ~Live(k)
  <2>1. old.left \in Nat /\ old.left > 0 /\ (old.left # 1 => old.left - 1 > 0)
    BY <1>1, <1>3 DEF ProgT
  <2>2. q3.pc = "failed" \/ (q3.pc = "opening" /\ q3.left > 0)
    BY <1>6, <1>10, <2>1
  <2>3. ReceivedAs(e, how, k, q3)
    BY <1>2, <1>3, <1>10, <2>2 DEF ReceivedAs, rest, p, wild
  <2> QED BY <1>6, <2>3
<1>11. CASE ~wild /\ old.pc # "opening"
  <2>1. ReceivedAs(e, how, k, q4)
    BY <1>1, <1>2, <1>3, <1>7, <1>11 DEF ReceivedAs, rest, p, wild
  <2> QED BY <1>7, <2>1
<1> QED BY <1>8, <1>9, <1>10, <1>11

LEMMA ReceiveInv == ASSUME Inv, NEW e \in End, NEW how, Receive(e, how) PROVE Inv'
<1> DEFINE d == Peer(e)
           p == line[e][1]
           k == Handle(pk[e], p, how)
           rest == Tail(line[e])
           w == wrote[e]
           s == rcvd[e]
           r == Len(s)
           Line(l) == Both(l, w, r, rest, line[d] \o l.out, pk[d], wrote[d], Len(rcvd[d]))
<1>1. /\ pk[e] \in PackT /\ prog[e] \in ProgT /\ EndOK(e, pk[e], prog[e], w, s, faults) /\ pk[e].out = <<>>
      /\ line[e] \in Seq(PacketT) /\ faults \in Nat /\ w \in Nat /\ r \in Nat
  BY EndIs
<1>2. /\ Both(pk[e], w, r, line[e], line[d], pk[d], wrote[d], Len(rcvd[d]))
      /\ pk[e].pool + Cardinality(Used(pk[e])) <= WINDOWS
  BY BothIs
<1>3. Getting(e) /\ ~GivesUp(e) /\ line[e] # <<>> /\ Fault(how) /\ UNCHANGED <<wrote, rcvd>>
  BY DEF Receive
<1>4. how \in Damage(p)
  <2>1. Head(line[e]) = p
    BY <1>1, <1>3
  <2> QED BY <2>1 DEF Receive
<1>5. pk[e].connodata \in 0..CONNODATA
  <2>1. pk[e].connodata \in 0..CONNODATA + 1 /\ ~(pk[e].connodata > CONNODATA)
    BY <1>1, <1>3 DEF GivesUp, PackT
  <2> QED BY <2>1, Bounds
<1>6. /\ faults' \in faults..MaxFaults /\ faults' \in Nat /\ faults <= faults' /\ (how = "cut" => faults' = faults + 1)
      /\ faults \in 0..MaxFaults
  <2>1. faults \in 0..MaxFaults
    BY DEF Inv, Typed
  <2>2. CASE how = "none"
    <3>1. faults' = faults
      BY <1>1, <1>3, <2>2 DEF Fault
    <3> QED BY <2>1, <2>2, <3>1, Bounds
  <2>3. CASE how # "none"
    <3>1. faults' = faults + 1 /\ faults < MaxFaults
      BY <1>3, <2>3 DEF Fault
    <3> QED BY <2>1, <3>1, Bounds
  <2> QED BY <2>2, <2>3
<1>7. PICK q \in ProgT : q.tries = 0 /\ q.call = prog[e].call /\ ReceivedAs(e, how, k, q)
  BY ReceiveIs
<1>8. CASE Wild(pk[e], p, how)
  <2>1. q.pc = "wild" /\ Step(e, pk[e], q, rest)
    BY <1>7, <1>8 DEF ReceivedAs
  <2>2. Line(pk[e])
    <3>1. Both(pk[e], w, r, rest, line[d], pk[d], wrote[d], Len(rcvd[d]))
      BY <1>2, <1>3, BothTail
    <3>2. line[d] \in Seq(PacketT)
      BY <1>2 DEF Both
    <3>3. line[d] \o pk[e].out = line[d]
      BY <1>1, <3>2, OutEmpty
    <3> QED BY <3>1, <3>3
  <2>3. ~Writes(e, q) => faults >= WINDOWS
    <3>1. pk[e].pool = 0
      BY <1>8 DEF Wild
    <3>2. Writes(e, q) = Writes(e, prog[e])
      BY <1>7 DEF Writes
    <3> QED BY <1>3, <3>1, <3>2, NoBuffer
  <2>4. EndOK(e, pk[e], q, w, s, faults)
    BY <1>1, <1>7, <2>1, <2>3 DEF EndOK, Ended
  <2>5. EndOK(e, pk[e], q, w, s, faults')
    BY <1>1, <1>6, <2>4, EndFrame
  <2> QED BY <1>3, <1>6, <2>1, <2>2, <2>5, QuietInv DEF w, s, r, d
<1>9. CASE ~Wild(pk[e], p, how)
  <2>1. k \in PackT /\ Line(k) /\ Passed(pk[e], k, how)
    <3> HIDE DEF w, s, r, d, p, rest
    <3>1. LET l == Handle(pk[e], line[e][1], how)
          IN /\ Both(l, w, r, Tail(line[e]), line[d] \o l.out, pk[d], wrote[d], Len(rcvd[d]))
             /\ Passed(pk[e], l, how)
      <4>1. how \in Damage(line[e][1]) /\ ~Wild(pk[e], line[e][1], how)
        BY <1>4, <1>9 DEF p
      <4> QED BY <1>1, <1>2, <1>3, <1>5, <4>1, HandleBoth
    <3>2. Both(k, w, r, rest, line[d] \o k.out, pk[d], wrote[d], Len(rcvd[d])) /\ Passed(pk[e], k, how)
      BY <3>1 DEF p, rest
    <3> HIDE DEF k
    <3> QED BY <3>2 DEF Both
  <2> HIDE DEF k
  <2>2. k.pool + Cardinality(Used(k)) \in WINDOWS - faults'..WINDOWS
    <3> DEFINE a == pk[e].pool + Cardinality(Used(pk[e]))
               b == k.pool + Cardinality(Used(k))
    <3>1. a \in WINDOWS - faults..WINDOWS
      BY <1>1 DEF EndOK
    <3>2. /\ how = "cut" => b = a - 1
          /\ how # "cut" => b = a - 0
      <4>1. pk[e].pool \in Int /\ Cardinality(Used(pk[e])) \in Int /\ k.pool \in Int /\ Cardinality(Used(k)) \in Int
        <5>1. pk[e].pool \in 0..WINDOWS /\ k.pool \in 0..WINDOWS
          BY <1>1, <2>1 DEF PackT
        <5>2. Cardinality(Used(pk[e])) \in Nat /\ Cardinality(Used(k)) \in Nat
          BY UsedFinite
        <5> QED BY <5>1, <5>2, Sizes
      <4> QED BY <2>1, <4>1 DEF Passed
    <3> HIDE DEF a, b
    <3>3. b \in WINDOWS - faults'..WINDOWS
      BY <1>1, <1>6, <3>1, <3>2, Sizes
    <3> QED BY <3>3 DEF b
  <2>3. CASE prog[e].pc = "opening" /\ Live(k)
    <3> DEFINE l == pkreset(k)
    <3>1. q.pc = "call" /\ Step(e, l, q, rest)
      BY <1>7, <1>9, <2>3 DEF ReceivedAs
    <3>2. w = 0 /\ s = <<>> /\ r = 0
      BY <1>1, <2>3 DEF EndOK
    <3>3. Both(k, 0, 0, rest, line[d] \o k.out, pk[d], wrote[d], Len(rcvd[d]))
      BY <2>1, <3>2
    <3>4. Both(l, 0, 0, rest, line[d] \o k.out, pk[d], wrote[d], Len(rcvd[d])) /\ InSame(k, l) /\ l.pool = k.pool /\ l.out = k.out
      BY <3>3, ResetBoth
    <3> HIDE DEF l
    <3>5. Line(l)
      BY <3>2, <3>4
    <3>6. l.pool + Cardinality(Used(l)) \in WINDOWS - faults'..WINDOWS
      <4>1. Used(l) = Used(k)
        BY <3>4, UsedSame DEF InSame
      <4> QED BY <2>2, <3>4, <4>1
    <3>7. EndOK(e, l, q, w, s, faults')
      <4>1. prog[e].call <= Len(Script[e]) /\ s \in Seq(Nat) /\ s = [i \in 1..Len(s) |-> i]
        BY <1>1 DEF EndOK
      <4> QED BY <1>7, <3>1, <3>6, <4>1, Bounds DEF EndOK, Ended
    <3> QED BY <1>3, <1>6, <3>1, <3>5, <3>7, QuietInv DEF w, s, r, d
  <2>4. CASE ~(prog[e].pc = "opening" /\ Live(k))
    <3>1. Step(e, k, q, rest)
      BY <1>7, <1>9, <2>4 DEF ReceivedAs
    <3>2. EndOK(e, k, q, w, s, faults')
      <4>1. prog[e].call <= Len(Script[e]) /\ s \in Seq(Nat) /\ s = [i \in 1..Len(s) |-> i]
        BY <1>1 DEF EndOK
      <4>2. CASE prog[e].pc = "opening"
        <5>1. w = 0 /\ s = <<>> /\ Used(pk[e]) = {} /\ pk[e].rcount = 0 /\ ~Live(pk[e]) /\ prog[e].call = 0
          BY <1>1, <4>2 DEF EndOK
        <5>3. Used(k) = Used(pk[e]) /\ k.rcount = pk[e].rcount
          BY <2>1, <5>1 DEF Passed
        <5>2. q.pc = "failed" \/ (q.pc = "opening" /\ q.left > 0)
          BY <1>7, <1>9, <2>4, <4>2 DEF ReceivedAs
        <5> QED BY <1>7, <2>2, <2>4, <4>1, <4>2, <5>1, <5>2, <5>3, Bounds DEF EndOK, Ended
      <4>3. CASE prog[e].pc # "opening"
        <5>1. q.left > 0 /\ ((prog[e].pc = "window" /\ q.pc = "write") \/ (prog[e].pc = "read" /\ q.pc = "read"))
          BY <1>7, <1>9, <4>3 DEF ReceivedAs
        <5> QED BY <1>1, <1>7, <2>2, <4>1, <5>1, Bounds DEF EndOK, Ended, Writes
      <4> QED BY <4>2, <4>3
    <3> QED BY <1>3, <1>6, <2>1, <3>1, <3>2, QuietInv DEF w, s, r, d
  <2> QED BY <2>3, <2>4
<1> QED BY <1>8, <1>9

LEMMA LoseInv == ASSUME Inv, NEW e \in End, Lose(e) PROVE Inv'
<1> DEFINE d == Peer(e)
<1>1. d \in End /\ d # e /\ Peer(d) = e /\ \A x \in End : x = e \/ x = d
  BY PeerIs
<1>2. Typed /\ Ends /\ Lines /\ line[e] \in Seq(PacketT)
  BY EndIs DEF Inv
<1>3. /\ line[e] # <<>> /\ faults' = faults + 1 /\ faults < MaxFaults
      /\ line' = [line EXCEPT ![e] = Tail(line[e])] /\ UNCHANGED <<pk, prog, wrote, rcvd>>
  BY <1>2 DEF Lose, Fault, Typed
<1>4. Tail(line[e]) \in Seq(PacketT)
  BY <1>2, <1>3, HeadTailProperties
<1>5. line'[e] = Tail(line[e]) /\ line'[d] = line[d]
  BY <1>1, <1>2, <1>3 DEF Typed
<1>6. faults \in Nat /\ faults' \in 0..MaxFaults /\ faults' \in Nat /\ faults <= faults'
  BY <1>2, <1>3, Bounds DEF Typed
<1>7. Typed'
  <2>1. line' \in [End -> Seq(PacketT)]
    BY <1>2, <1>3, <1>4 DEF Typed
  <2> QED BY <1>2, <1>3, <1>6, <2>1 DEF Typed
<1>8. Ends'
  <2> SUFFICES ASSUME NEW x \in End
               PROVE  /\ EndOK(x, pk[x], prog[x], wrote[x], rcvd[x], faults')
                      /\ pk[x].out = <<>> /\ (prog[x].pc \in Ended => line'[x] = <<>>)
    BY <1>3 DEF Ends
  <2>1. EndOK(x, pk[x], prog[x], wrote[x], rcvd[x], faults) /\ pk[x].out = <<>> /\ (prog[x].pc \in Ended => line[x] = <<>>)
    BY <1>2 DEF Ends
  <2>2. EndOK(x, pk[x], prog[x], wrote[x], rcvd[x], faults')
    BY <1>6, <2>1, EndFrame
  <2>3. x = e => prog[x].pc \notin Ended
    BY <1>3, <2>1
  <2> QED BY <1>1, <1>5, <2>1, <2>2, <2>3
<1>9. Lines'
  <2>1. Both(pk[e], wrote[e], Len(rcvd[e]), line[e], line[d], pk[d], wrote[d], Len(rcvd[d]))
    BY <1>2 DEF Lines
  <2>2. Both(pk[e], wrote[e], Len(rcvd[e]), Tail(line[e]), line[d], pk[d], wrote[d], Len(rcvd[d]))
    BY <1>3, <2>1, BothTail
  <2>3. Both(pk[d], wrote[d], Len(rcvd[d]), line[d], Tail(line[e]), pk[e], wrote[e], Len(rcvd[e]))
    BY <2>2, BothSwap
  <2> SUFFICES ASSUME NEW x \in End
               PROVE  Both(pk[x], wrote[x], Len(rcvd[x]), line'[x], line'[Peer(x)], pk[Peer(x)], wrote[Peer(x)], Len(rcvd[Peer(x)]))
    BY <1>3 DEF Lines
  <2>4. x = e \/ x = d
    BY <1>1
  <2>5. CASE x = e
    BY <1>5, <2>2, <2>5
  <2> HIDE DEF d
  <2>6. CASE x = d
    BY <1>1, <1>5, <2>3, <2>6
  <2> QED BY <2>4, <2>5, <2>6
<1> QED BY <1>7, <1>8, <1>9 DEF Inv

LEMMA InitInv == ASSUME Init PROVE Inv
<1> DEFINE k == [state |-> {}, msg |-> {}, rmsg |-> {}, ps |-> 0, pr |-> 0, rpr |-> 0, nxtps |-> 0,
                 pscopy |-> 0, xcount |-> 0, os |-> [x \in Seqno |-> "null"], ob |-> [x \in Seqno |-> 0],
                 is |-> [x \in Seqno |-> FreeSlot], rcount |-> 0, pool |-> WINDOWS, connodata |-> 0, out |-> <<>>]
           prg == [pc |-> "start", tries |-> 0, call |-> 0, left |-> 0]
<1>1. \A e \in End : pk[e] = k /\ prog[e] = prg /\ wrote[e] = 0 /\ rcvd[e] = <<>> /\ line[e] = <<>>
  BY DEF Init
<1>2. <<>> \in Seq(PacketT) /\ <<>> \in Seq(Nat) /\ Len(<<>>) = 0
  OBVIOUS
<1>3. 0 \in Seqno /\ 0 \in Nat /\ 0 \in 0..WINDOWS /\ WINDOWS \in 0..WINDOWS /\ 0 \in 0..CONNODATA + 1 /\ 0 \in 0..MaxFaults
  BY Sizes, Bounds DEF Seqno
<1>4. FreeSlot \in SlotT /\ FreeSlot.st = "free"
  BY <1>3 DEF FreeSlot, SlotT
<1>5. k \in PackT
  <2>1. /\ [x \in Seqno |-> "null"] \in [Seqno -> {"null", "ready", "sent"}] /\ [x \in Seqno |-> 0] \in [Seqno -> Nat]
        /\ [x \in Seqno |-> FreeSlot] \in [Seqno -> SlotT]
    BY <1>3, <1>4
  <2> QED BY <1>2, <1>3, <2>1 DEF PackT
<1>6. prg \in ProgT
  BY <1>3, Bounds DEF ProgT, PC
<1>7. /\ \A x \in Seqno : k.os[x] = "null" /\ k.is[x].st = "free"
      /\ k.ps = 0 /\ k.rpr = 0 /\ k.pscopy = 0 /\ k.xcount = 0 /\ k.pr = 0 /\ k.rcount = 0 /\ k.pool = WINDOWS
      /\ ~Live(k) /\ k.out = <<>> /\ prg.pc = "start" /\ prg.call = 0 /\ prg.tries = 0
  BY <1>4 DEF Live
<1> HIDE DEF k, prg
<1>8. pk \in [End -> PackT] /\ prog \in [End -> ProgT] /\ wrote \in [End -> Nat] /\ rcvd \in [End -> Seq(Nat)]
      /\ line \in [End -> Seq(PacketT)] /\ faults = 0
  <2>1. pk = [e \in End |-> k] /\ prog = [e \in End |-> prg]
    BY DEF Init, k, prg
  <2> QED BY <1>2, <1>3, <1>5, <1>6, <2>1 DEF Init
<1>9. Dir(k, 0, <<>>, <<>>, k, 0)
  <2>1. Mod(0) = 0
    BY <1>3, ModSame
  <2>2. OutOK(k, 0, 0)
    <3>1. Holds(k, 0)
      BY <1>7 DEF Holds
    <3> QED BY <1>7, <2>1, <3>1 DEF OutOK
  <2>3. InOK(k, 0, 0)
    BY <1>7, <2>1 DEF InOK, Good
  <2>4. DataOK(<<>>, k, k, 0, 0)
    BY <1>2, <1>7 DEF DataOK, Good
  <2>5. AckOK(<<>>, 0 - k.xcount, 0)
    BY <1>2 DEF AckOK
  <2> QED BY <2>2, <2>3, <2>4, <2>5 DEF Dir
<1>10. Both(k, 0, 0, <<>>, <<>>, k, 0, 0)
  BY <1>2, <1>3, <1>5, <1>9 DEF Both
<1>11. Lines
  BY <1>1, <1>2, <1>10, PeerIs DEF Lines
<1>12. Ends
  <2> SUFFICES ASSUME NEW e \in End PROVE EndOK(e, k, prg, 0, <<>>, 0)
    BY <1>1, <1>7, <1>8 DEF Ends
  <2>1. Used(k) = {}
    BY <1>7 DEF Used
  <2>2. k.pool + Cardinality(Used(k)) = WINDOWS
    BY <1>7, <2>1, FS_EmptySet, Sizes
  <2>3. <<>> = [i \in 1..0 |-> i]
    OBVIOUS
  <2>4. 0 <= Len(Script[e])
    BY ScriptAssumption
  <2>5. WINDOWS \in WINDOWS - 0..WINDOWS /\ 0 < GETRIES
    BY Sizes, Bounds
  <2> QED BY <1>2, <1>6, <1>7, <2>1, <2>2, <2>3, <2>4, <2>5 DEF EndOK, Ended
<1>13. Typed
  BY <1>3, <1>8 DEF Typed
<1> QED BY <1>11, <1>12, <1>13 DEF Inv

LEMMA NextInv == Inv /\ [Next]_vars => Inv'
<1> SUFFICES ASSUME Inv, [Next]_vars PROVE Inv'
  OBVIOUS
<1>1. CASE UNCHANGED vars
  BY <1>1 DEF vars, Inv, Typed, Ends, Lines
<1>2. CASE Next
  <2>1. PICK e \in End : Program(e) \/ Lose(e)
    BY <1>2 DEF Next
  <2>2. ASSUME Program(e) PROVE Inv'
    BY <2>2, PkopenInv, CallInv, PkcloseInv, PkcloseFlushInv, PkcloseByeInv, PkwriteWaitInv, PkwritePutInv,
       PkacceptInv, PkreadInv, PkfailInv, TimeoutInv, ReceiveInv DEF Program
  <2> QED BY <2>1, <2>2, LoseInv
<1> QED BY <1>1, <1>2

LEMMA SpecInv == Spec => []Inv
<1>1. Init => Inv
  BY InitInv
<1> QED BY <1>1, NextInv, PTL DEF Spec

(* Whatever the line loses or damages, and whatever the ends do in their    *)
(* calls, the state of each keeps the types of struct pack; no step counts  *)
(* more packets without data than CONNODATA + 1.                            *)
THEOREM TypeCorrect == Spec => []TypeOK
<1>1. Inv => TypeOK
  <2> SUFFICES ASSUME Inv, NEW e \in End
               PROVE  LET k == pk[e]
                      IN /\ k.state \subseteq State /\ k.msg \subseteq Message /\ k.rmsg \subseteq {"INITA", "INITB"}
                         /\ {k.ps, k.pr, k.rpr, k.nxtps, k.pscopy} \subseteq Seqno
                         /\ k.xcount \in 0..WINDOWS /\ k.rcount \in 0..WINDOWS /\ k.pool \in 0..WINDOWS
                         /\ k.os \in [Seqno -> {"null", "ready", "sent"}]
                         /\ k.is \in [Seqno -> [st : {"free", "raw", "copy"}, seq : Seqno, data : Nat, sum : BOOLEAN]]
                         /\ k.connodata \in 0..CONNODATA + 1 /\ k.out = <<>>
                         /\ prog[e].pc \in PC /\ prog[e].tries \in 0..GETRIES
                         /\ line[e] \in Seq([type : Message \cup {"data"}, seq : Seqno, ack : Seqno, data : Nat])
    BY DEF TypeOK, Inv, Typed
  <2>1. pk[e] \in PackT /\ prog[e] \in ProgT /\ line[e] \in Seq(PacketT) /\ pk[e].out = <<>>
    BY EndIs
  <2>2. /\ prog[e].pc \in PC /\ prog[e].tries \in 0..GETRIES
        /\ line[e] \in Seq([type : Message \cup {"data"}, seq : Seqno, ack : Seqno, data : Nat])
    BY <2>1 DEF ProgT, PacketT, Kind
  <2> QED BY <2>1, <2>2 DEF PackT, SlotT
<1> QED BY <1>1, SpecInv, PTL

(* What pkwrite gave a number and holds is the p_xcount packets after p_ps, *)
(* and what pksack gave up the other end's pkread has returned: of every    *)
(* script, every fault and every window with 2 * WINDOWS <= MOD.            *)
THEOREM WindowCorrect == Spec => []OutputWindow
<1>1. Inv => OutputWindow
  <2> SUFFICES ASSUME Inv, NEW e \in End
               PROVE  LET held == {x \in Seqno : pk[e].os[x] # "null"}
                      IN /\ held = Upto(pk[e].ps, pk[e].pscopy) /\ Cardinality(held) = pk[e].xcount
                         /\ wrote[e] - pk[e].xcount <= Len(rcvd[Peer(e)])
    BY DEF OutputWindow
  <2> DEFINE k == pk[e]
             w == wrote[e]
             rf == Len(rcvd[Peer(e)])
             held == {x \in Seqno : k.os[x] # "null"}
  <2>1. k \in PackT /\ w \in Nat /\ rf \in Nat /\ Dir(k, w, line[Peer(e)], line[e], pk[Peer(e)], rf)
    BY BothIs DEF Both
  <2> HIDE DEF k, w, rf
  <2>2. w - k.xcount <= rf /\ w - k.xcount \in Nat /\ k.xcount \in Nat
    BY <2>1, DirApart
  <2>3. k.xcount \in 0..MOD-1 /\ k.xcount \in 0..MOD
    <3>1. k.xcount \in 0..WINDOWS
      BY <2>1 DEF PackT
    <3> QED BY <3>1, Sizes
  <2>4. held = Residues(w - k.xcount, k.xcount)
    <3>1. /\ \A n \in w - k.xcount + 1..w : k.os[Mod(n)] # "null"
          /\ \A x \in Seqno : k.os[x] # "null" => \E n \in w - k.xcount + 1..w : x = Mod(n)
      BY <2>1 DEF Dir, OutOK, Holds
    <3>2. ASSUME NEW x \in held PROVE x \in Residues(w - k.xcount, k.xcount)
      <4>1. PICK n \in w - k.xcount + 1..w : x = Mod(n)
        BY <3>1
      <4>2. n - (w - k.xcount) \in 1..k.xcount /\ (w - k.xcount) + (n - (w - k.xcount)) = n
        BY <2>1, <2>2
      <4> QED BY <4>1, <4>2 DEF Residues
    <3>3. ASSUME NEW x \in Residues(w - k.xcount, k.xcount) PROVE x \in held
      <4>1. PICK i \in 1..k.xcount : x = Mod(w - k.xcount + i)
        BY DEF Residues
      <4>2. w - k.xcount + i \in w - k.xcount + 1..w /\ w - k.xcount + i \in Int
        BY <2>1, <2>2
      <4> QED BY <3>1, <4>1, <4>2, ModType
    <3> QED BY <3>2, <3>3
  <2>5. held = Upto(k.ps, k.pscopy)
    <3>1. k.ps = Mod(w - k.xcount) /\ k.pscopy = Mod(w)
      BY <2>1 DEF Dir, OutOK
    <3>2. w = (w - k.xcount) + k.xcount /\ w - k.xcount \in Int
      BY <2>1, <2>2
    <3>3. Upto(Mod(w - k.xcount), Mod((w - k.xcount) + k.xcount)) = Residues(w - k.xcount, k.xcount)
      BY <2>3, <3>2, UptoIs
    <3> QED BY <2>4, <3>1, <3>2, <3>3
  <2>6. Cardinality(held) = k.xcount
    <3>1. w - k.xcount \in Int
      BY <2>2
    <3>2. Cardinality(Residues(w - k.xcount, k.xcount)) = k.xcount
      BY <2>3, <3>1, ResiduesCount
    <3> QED BY <2>4, <3>2
  <2> QED BY <2>2, <2>5, <2>6 DEF k, w, rf
<1> QED BY <1>1, SpecInv, PTL

(* The buffers of pkdata are in the pool or filled, but for one lost with   *)
(* each fault; pkgetpack finds the pool empty, outside pkwrite's wait, only *)
(* after as many faults as there are buffers.                               *)
THEOREM BuffersCorrect == Spec => []InputBuffers
<1>1. Inv => InputBuffers
  <2> SUFFICES ASSUME Inv, NEW e \in End
               PROVE  LET used == pk[e].pool + Cardinality({x \in Seqno : pk[e].is[x].st # "free"})
                      IN used \in WINDOWS - faults..WINDOWS /\ (prog[e].pc = "wild" /\ ~Writing(e) => faults >= WINDOWS)
    BY DEF InputBuffers
  <2>1. EndOK(e, pk[e], prog[e], wrote[e], rcvd[e], faults)
    BY EndIs
  <2> QED BY <2>1 DEF EndOK, Used, Writes, Writing
<1> QED BY <1>1, SpecInv, PTL

(* What pkdata files lies outside the window of p_pr, what pkaccept keeps   *)
(* inside it: neither overwrites the other's buffers.                       *)
THEOREM FilingCorrect == Spec => []PendingOutsideWindow
<1>1. Inv => PendingOutsideWindow
  <2> SUFFICES ASSUME Inv, NEW e \in End, NEW x \in Seqno
               PROVE  /\ pk[e].is[x].st = "raw" => x \notin Window(pk[e])
                      /\ pk[e].is[x].st = "copy" => x \in Window(pk[e])
    BY DEF PendingOutsideWindow
  <2> DEFINE k == pk[e]
             r == Len(rcvd[e])
  <2>1. k \in PackT /\ r \in Nat /\ InOK(k, wrote[Peer(e)], r)
    BY BothIs DEF Both, Dir
  <2> HIDE DEF k, r
  <2>2. Window(k) = Residues(r, WINDOWS)
    <3>1. r \in Int /\ k.pr = Mod(r)
      BY <2>1 DEF InOK
    <3> QED BY <3>1, WindowIs
  <2>3. Residues(r, k.rcount) \subseteq Residues(r, WINDOWS)
    <3>1. k.rcount \in 0..WINDOWS
      BY <2>1 DEF PackT
    <3>2. \A i \in 1..k.rcount : i \in 1..WINDOWS
      BY <3>1, Sizes
    <3> QED BY <3>2 DEF Residues
  <2> QED BY <2>1, <2>2, <2>3 DEF InOK, k
<1> QED BY <1>1, SpecInv, PTL

(* pkwrite writes the next packet of the stream, at most a window ahead of  *)
(* what pkread has returned, and pkread returns the next n; nothing else    *)
(* moves the stream.                                                       *)
LEMMA WriteStep == ASSUME Inv, NEW e \in End, PkwritePut(e) PROVE Stream!Write(e)
<1>1. /\ pk[e].xcount < WINDOWS /\ wrote' = [wrote EXCEPT ![e] = @ + 1] /\ UNCHANGED rcvd
  BY DEF PkwritePut
<1>2. /\ pk[e] \in PackT /\ wrote[e] \in Nat /\ Len(rcvd[Peer(e)]) \in Nat
      /\ Dir(pk[e], wrote[e], line[Peer(e)], line[e], pk[Peer(e)], Len(rcvd[Peer(e)]))
  BY BothIs DEF Both
<1>3. wrote[e] - pk[e].xcount <= Len(rcvd[Peer(e)]) /\ pk[e].xcount \in Nat
  BY <1>2, DirApart
<1>4. wrote[e] - Len(rcvd[Peer(e)]) < WINDOWS
  BY <1>1, <1>2, <1>3, Sizes
<1>5. Peer(e) = Stream!Other(e)
  BY DEF Peer, Stream!Other
<1> QED BY <1>1, <1>4, <1>5 DEF Stream!Write

LEMMA ReadStep == ASSUME Inv, NEW e \in End, Pkread(e) PROVE \E n \in 1..WINDOWS : Stream!Read(e, n)
<1>1. \E n \in 1..WINDOWS :
        /\ Len(rcvd[e]) + n <= wrote[Peer(e)]
        /\ rcvd' = [rcvd EXCEPT ![e] = rcvd[e] \o [i \in 1..n |-> Len(rcvd[e]) + i]]
        /\ UNCHANGED wrote
  BY PkreadIs
<1>2. PICK n \in 1..WINDOWS :
        /\ Len(rcvd[e]) + n <= wrote[Peer(e)]
        /\ rcvd' = [rcvd EXCEPT ![e] = rcvd[e] \o [i \in 1..n |-> Len(rcvd[e]) + i]]
        /\ UNCHANGED wrote
  BY <1>1
<1>3. Peer(e) = Stream!Other(e)
  BY DEF Peer, Stream!Other
<1>4. rcvd' = [rcvd EXCEPT ![e] = @ \o [i \in 1..n |-> Len(rcvd[e]) + i]]
  BY <1>2 DEF Inv, Typed
<1>5. Stream!Read(e, n)
  BY <1>2, <1>3, <1>4 DEF Stream!Read
<1> QED BY <1>5

LEMMA QuietStep ==
  ASSUME NEW e \in End, Program(e) \/ Lose(e), ~PkwritePut(e), ~Pkread(e)
  PROVE  UNCHANGED <<wrote, rcvd>>
BY DEF Program, Lose, Pkopen, Call, Pkclose, PkcloseFlush, PkcloseBye, PkwriteWait, Pkaccept, Pkfail, Timeout, Receive

(* The sliding window over a line that loses and damages packets, with its  *)
(* numbers modulo MOD, its retransmissions and its alarms, is a stream of   *)
(* packets each way: in order, none twice, none missing, none damaged.      *)
THEOREM StreamKept == Spec => StreamPromise
<1>1. Init => Stream!StreamInit
  BY DEF Init, Stream!StreamInit, End
<1>2. Inv /\ [Next]_vars => [Stream!StreamNext]_Stream!streamvars
  <2> SUFFICES ASSUME Inv, [Next]_vars PROVE Stream!StreamNext \/ UNCHANGED <<wrote, rcvd>>
    BY DEF Stream!streamvars
  <2>1. CASE UNCHANGED vars
    BY <2>1 DEF vars
  <2>2. CASE Next
    <3>1. PICK e \in End : Program(e) \/ Lose(e)
      BY <2>2 DEF Next
    <3>2. CASE PkwritePut(e)
      BY <3>2, WriteStep DEF Stream!StreamNext, End
    <3>3. CASE Pkread(e)
      BY <3>3, ReadStep DEF Stream!StreamNext, End
    <3>4. CASE ~PkwritePut(e) /\ ~Pkread(e)
      BY <3>1, <3>4, QuietStep
    <3> QED BY <3>2, <3>3, <3>4
  <2> QED BY <2>1, <2>2
<1> QED BY <1>1, <1>2, SpecInv, PTL DEF Spec, StreamPromise, Stream!StreamSpec
=============================================================================
