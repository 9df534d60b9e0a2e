--------------------------- MODULE InodeCallsProof ---------------------------
(***************************************************************************)
(* Types, references, locks and wakeups of the inode table, proved for any *)
(* number of processes, entries, inodes and names and any reads that fail. *)
(* For every action X, the lemma XGoes says what X does to the references, *)
(* locks and sleepers of the table (Goes); the invariants follow from that *)
(* alone.                                                                  *)
(***************************************************************************)
EXTENDS InodeControlProof, FiniteSetTheorems, WellFoundedInduction

(* A sum over the processes, as RefCount takes it: the pairs of a process  *)
(* and the number of one of its references.                                *)
Row(c, q) == {q} \X (1..c[q])
Rows(c, P) == UNION {Row(c, q) : q \in P}
Total(c) == Cardinality(Rows(c, Proc))

LEMMA RowSize ==
  ASSUME NEW q, NEW c, c[q] \in Nat
  PROVE  IsFiniteSet(Row(c, q)) /\ Cardinality(Row(c, q)) = c[q]
<1>1. IsFiniteSet({q}) /\ Cardinality({q}) = 1
  BY FS_Singleton
<1>2. 1 \in Int /\ c[q] \in Int
  OBVIOUS
<1>3. IsFiniteSet(1..c[q]) /\ Cardinality(1..c[q]) = IF 1 > c[q] THEN 0 ELSE c[q] - 1 + 1
  BY <1>2, FS_Interval
<1>4. Cardinality(1..c[q]) = c[q]
  BY <1>3
<1>5. IsFiniteSet({q} \X (1..c[q])) /\ Cardinality({q} \X (1..c[q])) = Cardinality({q}) * Cardinality(1..c[q])
  BY <1>1, <1>3, FS_Product
<1> QED BY <1>1, <1>4, <1>5 DEF Row

LEMMA RowsFinite ==
  ASSUME NEW P, IsFiniteSet(P), NEW c, \A q \in P : c[q] \in Nat
  PROVE  IsFiniteSet(Rows(c, P))
<1> DEFINE S == {Row(c, q) : q \in P}
           f == [q \in P |-> Row(c, q)]
<1>1. f \in Surjection(P, S)
  BY DEF Surjection
<1>2. IsFiniteSet(S)
  BY <1>1, FS_Surjection
<1>3. \A T \in S : IsFiniteSet(T)
  BY RowSize
<1> HIDE DEF S
<1>4. IsFiniteSet(UNION S)
  BY <1>2, <1>3, FS_UNION
<1> QED BY <1>4 DEF Rows, S

(* What p adds to the sum.                                                 *)
LEMMA TotalSplit ==
  ASSUME NEW c, \A q \in Proc : c[q] \in Nat, NEW p \in Proc
  PROVE  /\ Cardinality(Rows(c, Proc \ {p})) \in Nat
         /\ Total(c) = Cardinality(Rows(c, Proc \ {p})) + c[p]
<1> DEFINE S == Rows(c, Proc \ {p})
           T == Row(c, p)
<1>1. IsFiniteSet(Proc \ {p})
  BY ProcAssumption, FS_Difference
<1>2. IsFiniteSet(S)
  BY <1>1, RowsFinite
<1>3. IsFiniteSet(T) /\ Cardinality(T) = c[p]
  BY RowSize
<1>4. Rows(c, Proc) = S \cup T
  BY DEF Rows
<1>5. S \cap T = {}
  BY DEF Rows, Row
<1> HIDE DEF S, T
<1>6. Cardinality(S \cup T) = Cardinality(S) + Cardinality(T) - Cardinality(S \cap T)
  BY <1>2, <1>3, FS_Union
<1>7. Cardinality(S \cap T) = 0
  BY <1>5, FS_EmptySet
<1>8. Cardinality(S) \in Nat
  BY <1>2, FS_CardinalityType
<1> QED BY <1>3, <1>4, <1>6, <1>7, <1>8 DEF Total, S

LEMMA TotalChange ==
  ASSUME NEW c, \A q \in Proc : c[q] \in Nat, NEW d, \A q \in Proc : d[q] \in Nat,
         NEW p \in Proc, \A q \in Proc \ {p} : d[q] = c[q]
  PROVE  Total(d) = Total(c) + d[p] - c[p]
<1>1. Rows(c, Proc \ {p}) = Rows(d, Proc \ {p})
  BY DEF Rows, Row
<1> QED BY <1>1, TotalSplit

LEMMA TotalOver ==
  ASSUME NEW c, \A q \in Proc : c[q] \in Nat, NEW p \in Proc
  PROVE  Total(c) \in Nat /\ Total(c) >= c[p]
<1>1. /\ Cardinality(Rows(c, Proc \ {p})) \in Nat
      /\ Total(c) = Cardinality(Rows(c, Proc \ {p})) + c[p]
  BY TotalSplit
<1>2. c[p] \in Nat
  OBVIOUS
<1> QED BY <1>1, <1>2

LEMMA TotalOverTwo ==
  ASSUME NEW c \in [Proc -> Nat], NEW p \in Proc, NEW q \in Proc, p # q
  PROVE  Total(c) >= c[p] + c[q]
<1> DEFINE d == [c EXCEPT ![p] = 0]
<1>1. d \in [Proc -> Nat] /\ d[p] = 0 /\ d[q] = c[q] /\ \A x \in Proc \ {p} : d[x] = c[x]
  OBVIOUS
<1> HIDE DEF d
<1>2. Total(d) = Total(c) + d[p] - c[p]
  BY <1>1, TotalChange
<1>3. Total(d) >= d[q] /\ Total(d) \in Nat /\ Total(c) \in Nat
  BY <1>1, TotalOver
<1>4. c[p] \in Nat /\ c[q] \in Nat
  OBVIOUS
<1> QED BY <1>1, <1>2, <1>3, <1>4

(***************************************************************************)
(* The steps that change references, locks or sleepers.                    *)
(***************************************************************************)
Typed ==
  /\ inode \in [Slot -> Inode]
  /\ dinode \in [Ino -> [mode : Mode, nlink : Int]]
  /\ dir \in [Name -> Ino \cup {0}]
  /\ super \in [n : 0..NICINOD, list : [0..NICINOD-1 -> Ino \cup {0}], lock : BOOLEAN]
  /\ updlock \in BOOLEAN
  /\ asleep \in [Proc -> 0..SILOCK]
  /\ faults \in 0..MaxFaults

(* NoLostWakeup; where pipe() is called, as far as the list is concerned.  *)
Awaits ==
  \A p \in Proc :
    /\ ByName /\ asleep[p] \in Slot => inode[asleep[p]].lock /\ inode[asleep[p]].want
    /\ asleep[p] = SILOCK => super.lock

Facts ==
  /\ TypeOK /\ Controlled /\ RootKept /\ Numbered /\ LockUsed
  /\ LastKept /\ CopyKept /\ RefCount /\ Awaits

(* What a process is at: its references and locks.                         *)
Mine(p, s) == Weight(pc[p], ret[p], u[p], s)
Has(p, s) == Holds(pc[p], ret[p], u[p], s)

(* Of a step of p to m, t and g: the count of an entry changes with the    *)
(* references of p, and p does not touch a locked entry it has none to.    *)
Effect(p, m, t, g) ==
  /\ Stepped(p, m, t, g) /\ Config(m, t, g) /\ Typed'
  /\ file' \in [Proc -> [Slot -> Nat]] /\ \A q \in Proc \ {p} : file'[q] = file[q]
  /\ \A s \in Slot : inode'[s].count = inode[s].count + (file'[p][s] + Weight(m, t, g, s))
                                       - (file[p][s] + Mine(p, s))
  /\ \A s \in Slot : file[p][s] + Mine(p, s) = 0 /\ inode[s].lock =>
       inode'[s].count = inode[s].count /\ inode'[s].lock
  /\ Last(m, t) => inode'[g.cur].count = 1 /\ inode'[g.cur].lock
  /\ Copies(m) => file'[p][g.cur] > 0
  /\ RootKept' /\ Numbered' /\ LockUsed' /\ Awaits'

(* Without link(), a process has at most one register for an entry, and    *)
(* the lock of every entry it refers to.                                   *)
Locked ==
  /\ \A p \in Proc, s \in Slot : Mine(p, s) <= 1
  /\ \A p, q \in Proc, s \in Slot : Has(p, s) /\ Has(q, s) => p = q
  /\ \A p \in Proc, s \in Slot : Has(p, s) => inode[s].lock
  /\ \A s \in Slot : inode[s].lock => \E p \in Proc : Has(p, s)

(* A step of p keeps a lock, takes one that is free or gives up its own.   *)
LockEffect(p, m, t, g) ==
  /\ \A s \in Slot : Weight(m, t, g, s) <= 1
  /\ \A s \in Slot :
       \/ (inode'[s].lock <=> inode[s].lock) /\ (Holds(m, t, g, s) <=> Has(p, s))
       \/ ~inode[s].lock /\ inode'[s].lock /\ Holds(m, t, g, s)
       \/ Has(p, s) /\ ~inode'[s].lock /\ ~Holds(m, t, g, s)

Goes(p) ==
  \E m, t, g : /\ Effect(p, m, t, g)
               /\ "link" \notin Calls /\ Locked => LockEffect(p, m, t, g)

LEMMA WeightIs == ASSUME NEW l, NEW r, NEW f, NEW s PROVE Weight(l, r, f, s) \in 0..3
BY DEF Weight, One

LEMMA ReferencesAre ==
  TypeOK => \A p \in Proc, s \in Slot : References(p, s) = file[p][s] + Mine(p, s)
<1> SUFFICES ASSUME TypeOK, NEW p \in Proc, NEW s \in Slot
             PROVE  References(p, s) = file[p][s] + Mine(p, s)
  OBVIOUS
<1>1. file[p][s] \in Nat
  BY DEF TypeOK
<1>2. OwnReference(p) <=> Owns(pc[p], ret[p])
  BY DEF OwnReference, Owns
<1> QED BY <1>1, <1>2 DEF References, Mine, Weight, One

LEMMA CountIs ==
  RefCount <=> \A s \in Slot : inode[s].count = One(s = 1) + Total([p \in Proc |-> References(p, s)])
<1>1. ASSUME NEW s \in Slot
      PROVE  UNION {{p} \X (1..References(p, s)) : p \in Proc} = Rows([p \in Proc |-> References(p, s)], Proc)
  BY DEF Rows, Row
<1>2. ASSUME NEW s \in Slot
      PROVE  Cardinality(UNION {{p} \X (1..References(p, s)) : p \in Proc}) = Total([p \in Proc |-> References(p, s)])
  BY <1>1 DEF Total
<1> QED BY <1>2 DEF RefCount, One

LEMMA Refers ==
  ASSUME TypeOK, NEW p \in Proc, NEW s \in Slot
  PROVE  References(p, s) \in Nat /\ file[p][s] \in Nat /\ Mine(p, s) \in Nat
<1>1. file[p][s] \in Nat
  BY DEF TypeOK
<1>2. Mine(p, s) \in Nat
  BY WeightIs DEF Mine
<1> QED BY <1>1, <1>2, ReferencesAre

(* An entry is counted for every process that refers to it, and for rootdir. *)
LEMMA Counts ==
  ASSUME TypeOK, RefCount, NEW s \in Slot, NEW p \in Proc
  PROVE  /\ inode[s].count \in Nat
         /\ inode[s].count >= One(s = 1) + file[p][s] + Mine(p, s)
         /\ \A q \in Proc \ {p} : inode[s].count >= file[p][s] + Mine(p, s) + file[q][s] + Mine(q, s)
<1> DEFINE c == [q \in Proc |-> References(q, s)]
<1>1. c \in [Proc -> Nat]
  BY Refers
<1>2. inode[s].count = One(s = 1) + Total(c)
  BY CountIs
<1>3. c[p] = file[p][s] + Mine(p, s) /\ \A q \in Proc : c[q] = file[q][s] + Mine(q, s)
  BY ReferencesAre
<1>4. file[p][s] \in Nat /\ Mine(p, s) \in Nat /\ \A q \in Proc : file[q][s] \in Nat /\ Mine(q, s) \in Nat
  BY Refers
<1> HIDE DEF c
<1>5. \A q \in Proc : c[q] \in Nat
  BY <1>1
<1>6. Total(c) \in Nat /\ Total(c) >= c[p]
  BY <1>5, TotalOver
<1>7. ASSUME NEW q \in Proc \ {p} PROVE Total(c) >= c[p] + c[q]
  BY <1>1, TotalOverTwo
<1>8. One(s = 1) \in {0, 1}
  BY DEF One
<1>9. inode[s].count \in Nat /\ inode[s].count >= One(s = 1) + file[p][s] + Mine(p, s)
  BY <1>2, <1>3, <1>4, <1>6, <1>8
<1>10. ASSUME NEW q \in Proc \ {p}
       PROVE  inode[s].count >= file[p][s] + Mine(p, s) + file[q][s] + Mine(q, s)
  <2>1. Total(c) >= c[p] + c[q] /\ c[q] = file[q][s] + Mine(q, s) /\ file[q][s] \in Nat /\ Mine(q, s) \in Nat
    BY <1>3, <1>4, <1>7
  <2> QED BY <2>1, <1>2, <1>3, <1>4, <1>6, <1>8
<1> QED BY <1>9, <1>10

LEMMA SteppedOne ==
  ASSUME TypeOK, NEW p \in Proc, NEW m, NEW t, NEW g, Stepped(p, m, t, g)
  PROVE  /\ pc'[p] = m /\ ret'[p] = t /\ u'[p] = g
         /\ \A q \in Proc \ {p} : pc'[q] = pc[q] /\ ret'[q] = ret[q] /\ u'[q] = u[q]
         /\ pc' \in [Proc -> PC] /\ ret' \in [Proc -> Seq(PC)] /\ u' \in [Proc -> Frame]
         /\ cpu' \in Proc \cup {NoProc}
BY DEF Stepped, TypeOK

LEMMA EffectTypes ==
  ASSUME Facts, NEW p \in Proc, NEW m, NEW t, NEW g, Effect(p, m, t, g)
  PROVE  TypeOK' /\ Controlled'
<1>1. TypeOK /\ Stepped(p, m, t, g) /\ Config(m, t, g)
  BY DEF Facts, Effect
<1>2. TypeOK'
  BY <1>1, SteppedOne DEF Effect, Typed, TypeOK
<1>3. ASSUME NEW q \in Proc PROVE Config(pc'[q], ret'[q], u'[q])
  <2>1. CASE q = p
    BY <1>1, <2>1, SteppedOne
  <2>2. CASE q # p
    BY <1>1, <2>2, SteppedOne DEF Facts, Controlled
  <2> QED BY <2>1, <2>2
<1> QED BY <1>2, <1>3 DEF Controlled

LEMMA ReferencesNext ==
  (TypeOK => \A q \in Proc, x \in Slot : References(q, x) = file[q][x] + Mine(q, x))'
<1>1. TypeOK => \A q \in Proc, x \in Slot : References(q, x) = file[q][x] + Mine(q, x)
  BY ReferencesAre
<1> QED BY <1>1, PTL

LEMMA CountNext ==
  (RefCount <=> \A s \in Slot : inode[s].count = One(s = 1) + Total([q \in Proc |-> References(q, s)]))'
<1>1. RefCount <=> \A s \in Slot : inode[s].count = One(s = 1) + Total([q \in Proc |-> References(q, s)])
  BY CountIs
<1> QED BY <1>1, PTL

(* What the other processes refer to stays; what p refers to is p's.       *)
LEMMA AfterStep ==
  ASSUME Facts, NEW p \in Proc, NEW m, NEW t, NEW g, Effect(p, m, t, g), NEW s \in Slot
  PROVE  /\ References(p, s)' = file'[p][s] + Weight(m, t, g, s)
         /\ \A q \in Proc \ {p} : References(q, s)' = References(q, s)
         /\ \A q \in Proc : References(q, s)' \in Nat
         /\ Mine(p, s)' = Weight(m, t, g, s) /\ \A q \in Proc \ {p} : Mine(q, s)' = Mine(q, s)
<1>1. TypeOK /\ TypeOK' /\ Stepped(p, m, t, g)
  BY EffectTypes DEF Facts, Effect
<1>2. (TypeOK => \A q \in Proc, x \in Slot : References(q, x) = file[q][x] + Mine(q, x))'
  BY ReferencesNext
<1>3. \A q \in Proc : References(q, s)' = file'[q][s] + Mine(q, s)'
  BY <1>1, <1>2
<1>4. Mine(p, s)' = Weight(m, t, g, s) /\ \A q \in Proc \ {p} : Mine(q, s)' = Mine(q, s)
  BY <1>1, SteppedOne DEF Mine
<1>5. \A q \in Proc \ {p} : file'[q] = file[q]
  BY DEF Effect
<1>6. \A q \in Proc : References(q, s) = file[q][s] + Mine(q, s)
  BY <1>1, ReferencesAre
<1>7. \A q \in Proc \ {p} : References(q, s)' = References(q, s)
  BY <1>3, <1>4, <1>5, <1>6
<1>8. References(p, s)' \in Nat
  <2>1. Weight(m, t, g, s) \in 0..3
    BY WeightIs
  <2>2. file'[p][s] \in Nat
    BY DEF Effect
  <2> QED BY <2>1, <2>2, <1>3, <1>4
<1>9. \A q \in Proc : References(q, s)' \in Nat
  BY <1>1, <1>7, <1>8, Refers
<1> QED BY <1>3, <1>4, <1>7, <1>9

LEMMA EffectCounts ==
  ASSUME Facts, NEW p \in Proc, NEW m, NEW t, NEW g, Effect(p, m, t, g)
  PROVE  RefCount'
<1>1. ASSUME NEW s \in Slot
      PROVE  inode'[s].count = One(s = 1) + Total([q \in Proc |-> References(q, s)'])
  <2> DEFINE c == [q \in Proc |-> References(q, s)]
             d == [q \in Proc |-> References(q, s)']
  <2>1. \A q \in Proc : c[q] \in Nat
    BY Refers DEF Facts
  <2>2. \A q \in Proc : d[q] \in Nat
    BY AfterStep
  <2>3. \A q \in Proc \ {p} : d[q] = c[q]
    BY AfterStep
  <2>4. d[p] = file'[p][s] + Weight(m, t, g, s)
    BY AfterStep
  <2>5. c[p] = file[p][s] + Mine(p, s)
    BY ReferencesAre DEF Facts
  <2>6. inode[s].count = One(s = 1) + Total(c)
    BY CountIs DEF Facts
  <2>7. inode'[s].count = inode[s].count + (file'[p][s] + Weight(m, t, g, s)) - (file[p][s] + Mine(p, s))
    BY DEF Effect
  <2>8. One(s = 1) \in Nat
    BY DEF One
  <2> HIDE DEF c, d
  <2>9. Total(d) = Total(c) + d[p] - c[p] /\ Total(c) \in Nat
    BY <2>1, <2>2, <2>3, TotalChange, TotalOver
  <2>10. d[p] \in Nat /\ c[p] \in Nat
    BY <2>1, <2>2
  <2>11. inode'[s].count = One(s = 1) + Total(d)
    BY <2>4, <2>5, <2>6, <2>7, <2>8, <2>9, <2>10
  <2> QED BY <2>11 DEF d
<1>2. (RefCount <=> \A s \in Slot : inode[s].count = One(s = 1) + Total([q \in Proc |-> References(q, s)]))'
  BY CountNext
<1>3. RefCount' <=> \A s \in Slot : inode'[s].count = One(s = 1) + Total([q \in Proc |-> References(q, s)'])
  BY <1>2
<1> QED BY <1>1, <1>3

(* A process that finishes with an entry holds it: no other refers to it.  *)
LEMMA Finishes ==
  ASSUME TypeOK, Controlled, NEW p \in Proc, Finishing(p)
  PROVE  u[p].cur \in Slot /\ Mine(p, u[p].cur) >= 1
<1>1. Config(pc[p], ret[p], u[p])
  BY DEF Controlled
<1>2. u[p].cur \in Slot
  BY <1>1 DEF Config, Finishing
<1>3. Owns(pc[p], ret[p])
  BY DEF Finishing, Owns
<1>4. \A x : One(x) \in {0, 1}
  BY DEF One
<1> QED BY <1>2, <1>3, <1>4 DEF Mine, Weight, One

LEMMA EffectLast ==
  ASSUME Facts, NEW p \in Proc, NEW m, NEW t, NEW g, Effect(p, m, t, g)
  PROVE  LastKept' /\ CopyKept'
<1> USE DEF Facts
<1>1. Stepped(p, m, t, g) /\ TypeOK
  BY DEF Effect
<1>2. ASSUME NEW q \in Proc, Finishing(q)' PROVE inode'[u'[q].cur].count = 1 /\ inode'[u'[q].cur].lock
  <2>1. CASE q = p
    <3>1. Last(m, t) /\ u'[q] = g
      BY <1>1, <1>2, <2>1, SteppedOne DEF Finishing, Last
    <3> QED BY <3>1 DEF Effect
  <2>2. CASE q # p
    <3> DEFINE s == u[q].cur
    <3>1. Finishing(q) /\ u'[q].cur = s
      BY <1>1, <1>2, <2>2, SteppedOne DEF Finishing
    <3>2. s \in Slot /\ Mine(q, s) >= 1 /\ inode[s].count = 1 /\ inode[s].lock
      BY <3>1, Finishes DEF LastKept
    <3> HIDE DEF s
    <3>3. inode[s].count >= file[p][s] + Mine(p, s) + file[q][s] + Mine(q, s)
      BY <2>2, <3>2, Counts
    <3>4. file[p][s] \in Nat /\ Mine(p, s) \in Nat /\ file[q][s] \in Nat /\ Mine(q, s) \in Nat
      BY <3>2, Refers
    <3>5. file[p][s] + Mine(p, s) = 0
      BY <3>2, <3>3, <3>4
    <3> QED BY <3>1, <3>2, <3>5 DEF Effect
  <2> QED BY <2>1, <2>2
<1>3. ASSUME NEW q \in Proc, Copies(pc'[q]) PROVE file'[q][u'[q].cur] > 0
  <2>1. CASE q = p
    BY <1>1, <1>3, <2>1, SteppedOne DEF Effect
  <2>2. CASE q # p
    <3>1. pc'[q] = pc[q] /\ u'[q] = u[q]
      BY <1>1, <2>2, SteppedOne
    <3>2. file'[q] = file[q]
      BY <2>2 DEF Effect
    <3>3. file[q][u[q].cur] > 0
      BY <1>3, <3>1 DEF CopyKept, Copies
    <3> QED BY <3>1, <3>2, <3>3
  <2> QED BY <2>1, <2>2
<1> QED BY <1>2, <1>3 DEF LastKept, CopyKept, Copies

LEMMA EffectKeeps ==
  ASSUME Facts, NEW p \in Proc, NEW m, NEW t, NEW g, Effect(p, m, t, g)
  PROVE  Facts'
<1>1. TypeOK' /\ Controlled' /\ RefCount' /\ LastKept' /\ CopyKept'
  BY EffectTypes, EffectCounts, EffectLast
<1> QED BY <1>1 DEF Facts, Effect

LEMMA LockKeeps ==
  ASSUME Facts, Locked, NEW p \in Proc, NEW m, NEW t, NEW g, Effect(p, m, t, g), LockEffect(p, m, t, g)
  PROVE  Locked'
<1>1. Stepped(p, m, t, g) /\ TypeOK
  BY DEF Effect, Facts
<1>2. ASSUME NEW s \in Slot
      PROVE  /\ Mine(p, s)' = Weight(m, t, g, s) /\ \A q \in Proc \ {p} : Mine(q, s)' = Mine(q, s)
             /\ Has(p, s)' <=> Holds(m, t, g, s)
             /\ \A q \in Proc \ {p} : Has(q, s)' <=> Has(q, s)
  BY <1>1, SteppedOne DEF Mine, Has
<1>3. \A q \in Proc, s \in Slot : Mine(q, s)' <= 1
  BY <1>2 DEF Locked, LockEffect
<1>4. ASSUME NEW s \in Slot
      PROVE  /\ \A x, y \in Proc : Has(x, s)' /\ Has(y, s)' => x = y
             /\ \A x \in Proc : Has(x, s)' => inode'[s].lock
             /\ inode'[s].lock => \E x \in Proc : Has(x, s)'
  <2>1. /\ \A x, y \in Proc : Has(x, s) /\ Has(y, s) => x = y
        /\ \A x \in Proc : Has(x, s) => inode[s].lock
        /\ inode[s].lock => \E x \in Proc : Has(x, s)
    BY DEF Locked
  <2>2. CASE (inode'[s].lock <=> inode[s].lock) /\ (Has(p, s)' <=> Has(p, s))
    <3>1. \A x \in Proc : Has(x, s)' <=> Has(x, s)
      BY <1>2, <2>2
    <3> QED BY <2>1, <2>2, <3>1
  <2>3. CASE ~inode[s].lock /\ inode'[s].lock /\ Has(p, s)'
    <3>1. \A x \in Proc : Has(x, s)' => x = p
      BY <1>2, <2>1, <2>3
    <3> QED BY <2>3, <3>1
  <2>4. CASE Has(p, s) /\ ~inode'[s].lock /\ ~Has(p, s)'
    <3>1. \A x \in Proc : ~Has(x, s)'
      BY <1>2, <2>1, <2>4
    <3> QED BY <2>4, <3>1
  <2> QED BY <1>2, <2>2, <2>3, <2>4 DEF LockEffect
<1> QED BY <1>3, <1>4 DEF Locked

(* Steps that leave the numbers, counts and locks of the table alone.      *)
LEMMA QuietGoes ==
  ASSUME Facts, NEW p \in Proc, Shifts(p), Typed', file' = file, Awaits',
         \A s \in Slot : inode'[s].number = inode[s].number /\ inode'[s].count = inode[s].count
                         /\ inode'[s].lock = inode[s].lock
  PROVE  Goes(p)
<1>1. PICK m, t, g : /\ Stepped(p, m, t, g) /\ Shift(pc[p], ret[p], u[p], m, t, g)
                     /\ Copies(m) => file[p][g.cur] > 0
  BY DEF Shifts
<1>2. TypeOK /\ u[p] \in Frame /\ pc[p] \in PC
  BY DEF Facts, TypeOK
<1>3. \A s \in Slot : inode'[s].count = inode[s].count + (file'[p][s] + Weight(m, t, g, s))
                                       - (file[p][s] + Mine(p, s))
  <2> SUFFICES ASSUME NEW s \in Slot
               PROVE  inode'[s].count = inode[s].count + (file'[p][s] + Weight(m, t, g, s))
                                       - (file[p][s] + Mine(p, s))
    OBVIOUS
  <2>1. Weight(m, t, g, s) = Mine(p, s)
    BY <1>1 DEF Shift, Mine
  <2>2. inode[s].count \in Nat /\ file[p][s] \in Nat /\ Mine(p, s) \in Nat
    BY <1>2, Counts, Refers DEF Facts
  <2> QED BY <2>1, <2>2
<1>4. Last(m, t) => inode'[g.cur].count = 1 /\ inode'[g.cur].lock
  <2> SUFFICES ASSUME Last(m, t) PROVE inode'[g.cur].count = 1 /\ inode'[g.cur].lock
    OBVIOUS
  <2>1. Finishing(p) /\ g.cur = u[p].cur
    BY <1>1 DEF Shift, Finishing, Last
  <2>2. u[p].cur \in Slot
    BY <2>1, <1>2, Finishes DEF Facts
  <2> QED BY <2>1, <2>2 DEF Facts, LastKept
<1>5. RootKept' /\ Numbered' /\ LockUsed'
  <2>1. 1 \in Slot
    BY SizeAssumption DEF Slot
  <2> QED BY <2>1 DEF Facts, RootKept, Numbered, LockUsed
<1>6. file' \in [Proc -> [Slot -> Nat]] /\ \A q \in Proc \ {p} : file'[q] = file[q]
  BY <1>2 DEF TypeOK
<1>7. Config(m, t, g)
  BY <1>1 DEF Shift
<1>8. Copies(m) => file'[p][g.cur] > 0
  BY <1>1
<1>9. \A s \in Slot : file[p][s] + Mine(p, s) = 0 /\ inode[s].lock => inode'[s].count = inode[s].count /\ inode'[s].lock
  OBVIOUS
<1>10. Effect(p, m, t, g)
  BY <1>1, <1>3, <1>4, <1>5, <1>6, <1>7, <1>8, <1>9 DEF Effect
<1>11. ASSUME "link" \notin Calls, Locked PROVE LockEffect(p, m, t, g)
  <2>1. \A s \in Slot : Weight(m, t, g, s) <= 1
    BY <1>1, <1>11 DEF Shift, Locked, Mine
  <2>2. \A s \in Slot : Holds(m, t, g, s) <=> Has(p, s)
    BY <1>1, <1>11 DEF Shift, Has
  <2> QED BY <2>1, <2>2 DEF LockEffect
<1> QED BY <1>10, <1>11 DEF Goes

LEMMA WakeSame ==
  ASSUME Facts, asleep' = asleep, super.lock => super'.lock,
         \A s \in Slot : inode[s].lock /\ inode[s].want => inode'[s].lock /\ inode'[s].want
  PROVE  Awaits'
BY DEF Facts, Awaits

LEMMA StillGoes ==
  ASSUME Facts, NEW p \in Proc, Shifts(p), UNCHANGED <<inode, dinode, dir, super, asleep, faults, file>>,
         updlock' \in BOOLEAN
  PROVE  Goes(p)
<1>1. Typed'
  BY DEF Facts, TypeOK, Typed
<1>2. Awaits'
  BY WakeSame
<1> QED BY <1>1, <1>2, QuietGoes

(* One field or two of an entry, that a step may write without a word.     *)
Silent(e, f) ==
  /\ f \in Inode /\ f.number = e.number /\ f.count = e.count /\ f.lock = e.lock /\ f.want = e.want

LEMMA SilentFields ==
  ASSUME NEW e \in Inode
  PROVE  /\ \A n \in Int : Silent(e, [e EXCEPT !.nlink = n])
         /\ \A b \in BOOLEAN : Silent(e, [e EXCEPT !.dirty = b])
         /\ \A m \in Mode, n \in Int : Silent(e, [e EXCEPT !.mode = m, !.nlink = n])
         /\ \A m \in Mode, b \in BOOLEAN : Silent(e, [e EXCEPT !.mode = m, !.dirty = b])
         /\ \A n \in Int, b \in BOOLEAN : Silent(e, [e EXCEPT !.nlink = n, !.dirty = b])
         /\ \A m \in Mode, n \in Int, b \in BOOLEAN : Silent(e, [e EXCEPT !.mode = m, !.nlink = n, !.dirty = b])
<1>1. \A n \in Int : Silent(e, [e EXCEPT !.nlink = n])
  BY DEF Silent, Inode
<1>2. \A b \in BOOLEAN : Silent(e, [e EXCEPT !.dirty = b])
  BY DEF Silent, Inode
<1>3. \A m \in Mode, n \in Int : Silent(e, [e EXCEPT !.mode = m, !.nlink = n])
  BY DEF Silent, Inode
<1>4. \A m \in Mode, b \in BOOLEAN : Silent(e, [e EXCEPT !.mode = m, !.dirty = b])
  BY DEF Silent, Inode
<1>5. \A n \in Int, b \in BOOLEAN : Silent(e, [e EXCEPT !.nlink = n, !.dirty = b])
  BY DEF Silent, Inode
<1>6. \A m \in Mode, n \in Int, b \in BOOLEAN : Silent(e, [e EXCEPT !.mode = m, !.nlink = n, !.dirty = b])
  BY DEF Silent, Inode
<1> QED BY <1>1, <1>2, <1>3, <1>4, <1>5, <1>6

LEMMA SilentGoes ==
  ASSUME Facts, NEW p \in Proc, Shifts(p), NEW k \in Slot, NEW e, Silent(inode[k], e),
         inode' = [inode EXCEPT ![k] = e], asleep' = asleep, super.lock => super'.lock, file' = file, updlock' = updlock,
         dinode' \in [Ino -> [mode : Mode, nlink : Int]], dir' \in [Name -> Ino \cup {0}], faults' \in 0..MaxFaults,
         super' \in [n : 0..NICINOD, list : [0..NICINOD-1 -> Ino \cup {0}], lock : BOOLEAN]
  PROVE  Goes(p)
<1>1. inode \in [Slot -> Inode]
  BY DEF Facts, TypeOK
<1>2. inode' \in [Slot -> Inode]
  BY <1>1 DEF Silent
<1>3. Typed'
  BY <1>2 DEF Facts, TypeOK, Typed
<1>4. \A s \in Slot : inode'[s].number = inode[s].number /\ inode'[s].count = inode[s].count
                      /\ inode'[s].lock = inode[s].lock /\ inode'[s].want = inode[s].want
  BY <1>1 DEF Silent
<1>5. Awaits'
  BY <1>4, WakeSame
<1> QED BY <1>3, <1>4, <1>5, QuietGoes

LEMMA IgetFullGoes == ASSUME Facts, NEW p \in Proc, IgetFull(p) PROVE Goes(p)
<1>1. Shifts(p)
  BY IgetFullShifts DEF Facts
<1>2. UNCHANGED <<inode, dinode, dir, super, asleep, faults, file>> /\ updlock' \in BOOLEAN
  BY DEF IgetFull, disk, Facts, TypeOK
<1> QED BY <1>1, <1>2, StillGoes

LEMMA IallocStaleGoes == ASSUME Facts, NEW p \in Proc, IallocStale(p) PROVE Goes(p)
<1>1. Shifts(p)
  BY IallocStaleShifts DEF Facts
<1>2. UNCHANGED <<inode, dinode, dir, super, asleep, faults, file>> /\ updlock' \in BOOLEAN
  BY DEF IallocStale, disk, Facts, TypeOK
<1> QED BY <1>1, <1>2, StillGoes

LEMMA NameiGoes == ASSUME Facts, NEW p \in Proc, Namei(p) PROVE Goes(p)
<1>1. Shifts(p)
  BY NameiShifts DEF Facts
<1>2. UNCHANGED <<inode, dinode, dir, super, asleep, faults, file>> /\ updlock' \in BOOLEAN
  BY DEF Namei, disk, Facts, TypeOK
<1> QED BY <1>1, <1>2, StillGoes

LEMMA LookupGoes == ASSUME Facts, NEW p \in Proc, Lookup(p) PROVE Goes(p)
<1>1. Shifts(p)
  BY LookupShifts DEF Facts
<1>2. UNCHANGED <<inode, dinode, dir, super, asleep, faults, file>> /\ updlock' \in BOOLEAN
  BY DEF Lookup, disk, Facts, TypeOK
<1> QED BY <1>1, <1>2, StillGoes

LEMMA SearchGoes == ASSUME Facts, NEW p \in Proc, Search(p) PROVE Goes(p)
<1>1. Shifts(p)
  BY SearchShifts DEF Facts
<1>2. UNCHANGED <<inode, dinode, dir, super, asleep, faults, file>> /\ updlock' \in BOOLEAN
  BY DEF Search, disk, Facts, TypeOK
<1> QED BY <1>1, <1>2, StillGoes

LEMMA ChildGoes == ASSUME Facts, NEW p \in Proc, Child(p) PROVE Goes(p)
<1>1. Shifts(p)
  BY ChildShifts DEF Facts
<1>2. UNCHANGED <<inode, dinode, dir, super, asleep, faults, file>> /\ updlock' \in BOOLEAN
  BY DEF Child, disk, Facts, TypeOK
<1> QED BY <1>1, <1>2, StillGoes

LEMMA OpenedGoes == ASSUME Facts, NEW p \in Proc, Opened(p) PROVE Goes(p)
<1>1. Shifts(p)
  BY OpenedShifts DEF Facts
<1>2. UNCHANGED <<inode, dinode, dir, super, asleep, faults, file>> /\ updlock' \in BOOLEAN
  BY DEF Opened, disk, Facts, TypeOK
<1> QED BY <1>1, <1>2, StillGoes

LEMMA TruncGoes == ASSUME Facts, NEW p \in Proc, Trunc(p) PROVE Goes(p)
<1>1. Shifts(p)
  BY TruncShifts DEF Facts
<1>2. UNCHANGED <<inode, dinode, dir, super, asleep, faults, file>> /\ updlock' \in BOOLEAN
  BY DEF Trunc, disk, Facts, TypeOK
<1> QED BY <1>1, <1>2, StillGoes

LEMMA DenyGoes == ASSUME Facts, NEW p \in Proc, Deny(p) PROVE Goes(p)
<1>1. Shifts(p)
  BY DenyShifts DEF Facts
<1>2. UNCHANGED <<inode, dinode, dir, super, asleep, faults, file>> /\ updlock' \in BOOLEAN
  BY DEF Deny, disk, Facts, TypeOK
<1> QED BY <1>1, <1>2, StillGoes

LEMMA WdirGoes == ASSUME Facts, NEW p \in Proc, Wdir(p) PROVE Goes(p)
<1>1. Shifts(p)
  BY WdirShifts DEF Facts
<1>2. UNCHANGED <<inode, dinode, dir, super, asleep, faults, file>> /\ updlock' \in BOOLEAN
  BY DEF Wdir, disk, Facts, TypeOK
<1> QED BY <1>1, <1>2, StillGoes

LEMMA Link2Goes == ASSUME Facts, NEW p \in Proc, Link2(p) PROVE Goes(p)
<1>1. Shifts(p)
  BY Link2Shifts DEF Facts
<1>2. UNCHANGED <<inode, dinode, dir, super, asleep, faults, file>> /\ updlock' \in BOOLEAN
  BY DEF Link2, disk, Facts, TypeOK
<1> QED BY <1>1, <1>2, StillGoes

LEMMA LinkOutGoes == ASSUME Facts, NEW p \in Proc, LinkOut(p) PROVE Goes(p)
<1>1. Shifts(p)
  BY LinkOutShifts DEF Facts
<1>2. UNCHANGED <<inode, dinode, dir, super, asleep, faults, file>> /\ updlock' \in BOOLEAN
  BY DEF LinkOut, disk, Facts, TypeOK
<1> QED BY <1>1, <1>2, StillGoes

LEMMA Unlink1Goes == ASSUME Facts, NEW p \in Proc, Unlink1(p) PROVE Goes(p)
<1>1. Shifts(p)
  BY Unlink1Shifts DEF Facts
<1>2. UNCHANGED <<inode, dinode, dir, super, asleep, faults, file>> /\ updlock' \in BOOLEAN
  BY DEF Unlink1, disk, Facts, TypeOK
<1> QED BY <1>1, <1>2, StillGoes

LEMMA Unlink2Goes == ASSUME Facts, NEW p \in Proc, Unlink2(p) PROVE Goes(p)
<1>1. Shifts(p)
  BY Unlink2Shifts DEF Facts
<1>2. UNCHANGED <<inode, dinode, dir, super, asleep, faults, file>> /\ updlock' \in BOOLEAN
  BY DEF Unlink2, disk, Facts, TypeOK
<1> QED BY <1>1, <1>2, StillGoes

LEMMA UnlinkEndGoes == ASSUME Facts, NEW p \in Proc, UnlinkEnd(p) PROVE Goes(p)
<1>1. Shifts(p)
  BY UnlinkEndShifts DEF Facts
<1>2. UNCHANGED <<inode, dinode, dir, super, asleep, faults, file>> /\ updlock' \in BOOLEAN
  BY DEF UnlinkEnd, disk, Facts, TypeOK
<1> QED BY <1>1, <1>2, StillGoes

LEMMA EndGoes == ASSUME Facts, NEW p \in Proc, End(p) PROVE Goes(p)
<1>1. Shifts(p)
  BY EndShifts DEF Facts
<1>2. UNCHANGED <<inode, dinode, dir, super, asleep, faults, file>> /\ updlock' \in BOOLEAN
  BY DEF End, disk, Facts, TypeOK
<1> QED BY <1>1, <1>2, StillGoes

LEMMA Rdwr1Goes == ASSUME Facts, NEW p \in Proc, Rdwr1(p) PROVE Goes(p)
<1>1. Shifts(p)
  BY Rdwr1Shifts DEF Facts
<1>2. UNCHANGED <<inode, dinode, dir, super, asleep, faults, file>> /\ updlock' \in BOOLEAN
  BY DEF Rdwr1, disk, Facts, TypeOK
<1> QED BY <1>1, <1>2, StillGoes

LEMMA Update1Goes == ASSUME Facts, NEW p \in Proc, Update1(p) PROVE Goes(p)
<1>1. Shifts(p)
  BY Update1Shifts DEF Facts
<1>2. UNCHANGED <<inode, dinode, dir, super, asleep, faults, file>> /\ updlock' \in BOOLEAN
  BY DEF Update1, disk, Facts, TypeOK
<1> QED BY <1>1, <1>2, StillGoes

LEMMA OpenGoes == ASSUME PipesApart, Facts, NEW p \in Proc, Open(p) PROVE Goes(p)
<1>1. Shifts(p)
  BY OpenShifts DEF Facts
<1>2. UNCHANGED <<inode, dinode, dir, super, asleep, faults, file>> /\ updlock' \in BOOLEAN
  BY DEF Open, disk, Facts, TypeOK, Begin
<1> QED BY <1>1, <1>2, StillGoes

LEMMA CreatGoes == ASSUME PipesApart, Facts, NEW p \in Proc, Creat(p) PROVE Goes(p)
<1>1. Shifts(p)
  BY CreatShifts DEF Facts
<1>2. UNCHANGED <<inode, dinode, dir, super, asleep, faults, file>> /\ updlock' \in BOOLEAN
  BY DEF Creat, disk, Facts, TypeOK, Begin
<1> QED BY <1>1, <1>2, StillGoes

LEMMA LinkGoes == ASSUME PipesApart, Facts, NEW p \in Proc, Link(p) PROVE Goes(p)
<1>1. Shifts(p)
  BY LinkShifts DEF Facts
<1>2. UNCHANGED <<inode, dinode, dir, super, asleep, faults, file>> /\ updlock' \in BOOLEAN
  BY DEF Link, disk, Facts, TypeOK, Begin
<1> QED BY <1>1, <1>2, StillGoes

LEMMA UnlinkGoes == ASSUME PipesApart, Facts, NEW p \in Proc, Unlink(p) PROVE Goes(p)
<1>1. Shifts(p)
  BY UnlinkShifts DEF Facts
<1>2. UNCHANGED <<inode, dinode, dir, super, asleep, faults, file>> /\ updlock' \in BOOLEAN
  BY DEF Unlink, disk, Facts, TypeOK, Begin
<1> QED BY <1>1, <1>2, StillGoes

LEMMA CloseGoes == ASSUME Facts, NEW p \in Proc, Close(p) PROVE Goes(p)
<1>1. Shifts(p)
  BY CloseShifts DEF Facts
<1>2. UNCHANGED <<inode, dinode, dir, super, asleep, faults, file>> /\ updlock' \in BOOLEAN
  BY DEF Close, disk, Facts, TypeOK, Begin
<1> QED BY <1>1, <1>2, StillGoes

LEMMA RdwrGoes == ASSUME Facts, NEW p \in Proc, Rdwr(p) PROVE Goes(p)
<1>1. Shifts(p)
  BY RdwrShifts DEF Facts
<1>2. UNCHANGED <<inode, dinode, dir, super, asleep, faults, file>> /\ updlock' \in BOOLEAN
  BY DEF Rdwr, disk, Facts, TypeOK, Begin
<1> QED BY <1>1, <1>2, StillGoes

LEMMA SyncGoes == ASSUME Facts, NEW p \in Proc, Sync(p) PROVE Goes(p)
<1>1. Shifts(p)
  BY SyncShifts DEF Facts
<1>2. UNCHANGED <<inode, dinode, dir, super, asleep, faults, file>> /\ updlock' \in BOOLEAN
  BY DEF Sync, disk, Facts, TypeOK, Begin
<1> QED BY <1>1, <1>2, StillGoes

LEMMA EntryIs ==
  ASSUME Facts, NEW k \in Slot
  PROVE  /\ inode \in [Slot -> Inode] /\ inode[k] \in Inode
         /\ inode[k].number \in Ino \cup {0} /\ inode[k].count \in Nat /\ inode[k].lock \in BOOLEAN
         /\ inode[k].want \in BOOLEAN /\ inode[k].dirty \in BOOLEAN
         /\ inode[k].mode \in Mode /\ inode[k].nlink \in Int
<1>1. inode \in [Slot -> Inode] /\ inode[k] \in Inode /\ TypeOK /\ RefCount
  BY DEF Facts, TypeOK
<1>2. inode[k].count \in Nat
  <2>1. CASE Proc # {}
    BY <1>1, <2>1, Counts
  <2>2. CASE Proc = {}
    <3>1. Rows([p \in Proc |-> References(p, k)], Proc) = {}
      BY <2>2 DEF Rows
    <3>2. inode[k].count = One(k = 1) + Total([p \in Proc |-> References(p, k)])
      BY <1>1, CountIs
    <3>3. Total([p \in Proc |-> References(p, k)]) = 0
      BY <3>1, FS_EmptySet DEF Total
    <3>4. One(k = 1) \in Nat
      BY DEF One
    <3> QED BY <3>2, <3>3, <3>4
  <2> QED BY <2>1, <2>2
<1> QED BY <1>1, <1>2 DEF Inode

(* An entry p refers to is in use, and has an inode.                       *)
LEMMA InUse ==
  ASSUME Facts, NEW p \in Proc, NEW k \in Slot, file[p][k] > 0 \/ Mine(p, k) >= 1
  PROVE  /\ inode[k].count \in Nat /\ inode[k].count >= 1 /\ inode[k].number \in Ino
         /\ k = 1 => inode[k].count >= 2
<1>1. inode[k].count \in Nat /\ inode[k].count >= One(k = 1) + file[p][k] + Mine(p, k)
  BY Counts DEF Facts
<1>2. file[p][k] \in Nat /\ Mine(p, k) \in Nat
  BY Refers DEF Facts
<1>3. One(k = 1) = IF k = 1 THEN 1 ELSE 0
  BY DEF One
<1>4. inode[k].count >= 1 /\ (k = 1 => inode[k].count >= 2)
  BY <1>1, <1>2, <1>3
<1>5. inode[k].number \in Ino
  BY <1>1, <1>4, EntryIs DEF Facts, Numbered
<1> QED BY <1>1, <1>4, <1>5

LEMMA MineIs ==
  ASSUME NEW p \in Proc, NEW k
  PROVE  /\ u[p].cur = k /\ Owns(pc[p], ret[p]) => Mine(p, k) >= 1
         /\ u[p].dp = k \/ u[p].ip = k => Mine(p, k) >= 1
BY DEF Mine, Weight, One

LEMMA ReadMay ==
  ASSUME Facts, NEW fails \in BOOLEAN, Bread(fails)
  PROVE  faults' \in 0..MaxFaults
<1>1. faults \in 0..MaxFaults /\ MaxFaults \in Nat
  BY SizeAssumption DEF Facts, TypeOK
<1> QED BY <1>1 DEF Bread

LEMMA IreadGoes == ASSUME Facts, NEW p \in Proc, Iread(p) PROVE Goes(p)
<1>1. Shifts(p)
  BY IreadShifts DEF Facts
<1>2. PICK fails \in BOOLEAN :
        /\ Bread(fails)
        /\ \/ UNCHANGED inode
           \/ inode' = [inode EXCEPT ![u[p].cur] = [@ EXCEPT !.mode = dinode[inode[u[p].cur].number].mode,
                                                          !.nlink = dinode[inode[u[p].cur].number].nlink]]
  BY DEF Iread
<1>3. UNCHANGED <<dinode, dir, super, updlock, asleep, file>>
  BY DEF Iread
<1> DEFINE k == u[p].cur
           d == dinode[inode[k].number]
<1>4. k \in Slot /\ Mine(p, k) >= 1
  <2>1. pc[p] = "iread" /\ Config("iread", ret[p], u[p])
    BY HereAt DEF Iread, Facts
  <2>2. k \in Slot /\ Owns(pc[p], ret[p])
    BY <2>1 DEF Config, Owns
  <2> QED BY <2>2, MineIs
<1>5. d.mode \in Mode /\ d.nlink \in Int /\ dinode \in [Ino -> [mode : Mode, nlink : Int]]
  BY <1>4, InUse DEF Facts, TypeOK
<1>6. faults' \in 0..MaxFaults
  BY <1>2, ReadMay
<1>7. dir \in [Name -> Ino \cup {0}] /\ inode[k] \in Inode
      /\ super \in [n : 0..NICINOD, list : [0..NICINOD-1 -> Ino \cup {0}], lock : BOOLEAN]
  BY <1>4, EntryIs DEF Facts, TypeOK
<1> HIDE DEF d
<1>8. CASE UNCHANGED inode
  <2>1. inode' = [inode EXCEPT ![k] = inode[k]] /\ Silent(inode[k], inode[k])
    BY <1>4, <1>8, EntryIs DEF Silent
  <2> HIDE DEF k
  <2> QED BY <2>1, <1>1, <1>3, <1>4, <1>5, <1>6, <1>7, SilentGoes
<1>9. CASE inode' = [inode EXCEPT ![k] = [@ EXCEPT !.mode = d.mode, !.nlink = d.nlink]]
  <2> DEFINE e == [inode[k] EXCEPT !.mode = d.mode, !.nlink = d.nlink]
  <2>1. Silent(inode[k], e)
    BY <1>5, <1>7, SilentFields
  <2>2. inode' = [inode EXCEPT ![k] = e]
    BY <1>9
  <2> HIDE DEF k, e
  <2> QED BY <2>1, <2>2, <1>1, <1>3, <1>4, <1>5, <1>6, <1>7, SilentGoes
<1> QED BY <1>2, <1>8, <1>9 DEF d

(* super, with any n and list of the right type                            *)
Supers == [n : 0..NICINOD, list : [0..NICINOD-1 -> Ino \cup {0}], lock : BOOLEAN]

LEMMA IfreeType ==
  ASSUME NEW sb \in Supers, NEW i \in Ino \cup {0}
  PROVE  ifree(sb, i) \in Supers /\ ifree(sb, i).lock = sb.lock
<1>1. NICINOD \in Nat /\ NICINOD >= 2
  BY SizeAssumption
<1>2. sb.n \in 0..NICINOD /\ sb.list \in [0..NICINOD-1 -> Ino \cup {0}] /\ sb.lock \in BOOLEAN
  BY DEF Supers
<1>3. CASE sb.lock
  BY <1>3 DEF ifree
<1>4. CASE ~sb.lock /\ sb.n = NICINOD
  <2>1. [sb EXCEPT !.list[0] = i] \in Supers /\ [sb EXCEPT !.list[0] = i].lock = sb.lock
    BY <1>1, <1>2 DEF Supers
  <2> QED BY <1>4, <2>1 DEF ifree
<1>5. CASE ~sb.lock /\ sb.n # NICINOD
  <2> DEFINE k == IF sb.n = 0 /\ i > sb.list[0] THEN 1 ELSE sb.n
  <2>1. k \in 0..NICINOD-1 /\ k + 1 \in 0..NICINOD
    BY <1>1, <1>2, <1>5
  <2>2. ifree(sb, i) = [sb EXCEPT !.list[k] = i, !.n = k + 1]
    BY <1>5 DEF ifree
  <2> HIDE DEF k
  <2>3. [sb EXCEPT !.list[k] = i, !.n = k + 1] \in Supers /\ [sb EXCEPT !.list[k] = i, !.n = k + 1].lock = sb.lock
    BY <1>1, <1>2, <2>1 DEF Supers
  <2> QED BY <2>2, <2>3
<1> QED BY <1>3, <1>4, <1>5

(* What every silent step leaves typed.                                    *)
LEMMA FactTypes ==
  ASSUME Facts
  PROVE  /\ dinode \in [Ino -> [mode : Mode, nlink : Int]] /\ dir \in [Name -> Ino \cup {0}]
         /\ faults \in 0..MaxFaults /\ super \in Supers /\ updlock \in BOOLEAN
         /\ inode \in [Slot -> Inode] /\ asleep \in [Proc -> 0..SILOCK]
BY DEF Facts, TypeOK, Supers

LEMMA SilentStep ==
  ASSUME Facts, NEW p \in Proc, Shifts(p), NEW k \in Slot, NEW e, Silent(inode[k], e),
         inode' = [inode EXCEPT ![k] = e], UNCHANGED <<asleep, file, updlock>>,
         dinode' \in [Ino -> [mode : Mode, nlink : Int]], dir' \in [Name -> Ino \cup {0}], faults' \in 0..MaxFaults,
         super' \in Supers, super.lock => super'.lock
  PROVE  Goes(p)
BY SilentGoes DEF Supers

LEMMA IfreeGoes == ASSUME Facts, NEW p \in Proc, Ifree(p) PROVE Goes(p)
<1>1. Shifts(p)
  BY IfreeShifts DEF Facts
<1> DEFINE k == u[p].cur
           e == [inode[k] EXCEPT !.mode = "none", !.dirty = TRUE]
<1>2. k \in Slot
  <2>1. Config(pc[p], ret[p], u[p]) /\ pc[p] \in {"itrunc", "ifree"}
    BY HereAt DEF Ifree, Facts
  <2> QED BY <2>1 DEF Config
<1>3. inode[k] \in Inode /\ inode[k].number \in Ino \cup {0} /\ "none" \in Mode
  BY <1>2, EntryIs DEF Mode
<1>4. inode' = [inode EXCEPT ![k] = e] /\ super' = ifree(super, inode[k].number)
      /\ UNCHANGED <<dinode, dir, faults, asleep, file, updlock>>
  BY DEF Ifree, disk
<1>5. Silent(inode[k], e)
  BY <1>3, SilentFields
<1>6. super' \in Supers /\ super'.lock = super.lock
  BY <1>3, <1>4, IfreeType, FactTypes
<1> HIDE DEF k, e
<1> QED BY <1>1, <1>2, <1>4, <1>5, <1>6, FactTypes, SilentStep

LEMMA IupdatGoes == ASSUME Facts, NEW p \in Proc, Iupdat(p) PROVE Goes(p)
<1>1. Shifts(p)
  BY IupdatShifts DEF Facts
<1> DEFINE k == u[p].cur
           d == [mode |-> inode[k].mode, nlink |-> inode[k].nlink]
           e == [inode[k] EXCEPT !.dirty = FALSE]
<1>2. k \in Slot
  <2>1. Config("iupdat", ret[p], u[p])
    BY HereAt DEF Iupdat, Facts
  <2> QED BY <2>1 DEF Config
<1>3. inode[k] \in Inode /\ inode[k].mode \in Mode /\ inode[k].nlink \in Int
  BY <1>2, EntryIs
<1>4. PICK fails \in BOOLEAN :
        /\ Bread(fails)
        /\ \/ UNCHANGED <<inode, dinode>>
           \/ inode' = [inode EXCEPT ![k] = e] /\ dinode' = [dinode EXCEPT ![inode[k].number] = d]
  BY DEF Iupdat
<1>5. UNCHANGED <<dir, super, updlock, asleep, file>>
  BY DEF Iupdat
<1>6. faults' \in 0..MaxFaults
  BY <1>4, ReadMay
<1>7. d \in [mode : Mode, nlink : Int]
  BY <1>3
<1>8. dinode' \in [Ino -> [mode : Mode, nlink : Int]]
  BY <1>4, <1>7, FactTypes
<1>9. CASE UNCHANGED <<inode, dinode>>
  <2>1. inode' = [inode EXCEPT ![k] = inode[k]] /\ Silent(inode[k], inode[k])
    BY <1>2, <1>3, <1>9, EntryIs DEF Silent
  <2> HIDE DEF k, d
  <2> QED BY <2>1, <1>1, <1>2, <1>5, <1>6, <1>8, FactTypes, SilentStep
<1>10. CASE inode' = [inode EXCEPT ![k] = e]
  <2>1. Silent(inode[k], e)
    BY <1>3, SilentFields
  <2> HIDE DEF k, e, d
  <2> QED BY <2>1, <1>1, <1>2, <1>5, <1>6, <1>8, <1>10, FactTypes, SilentStep
<1> QED BY <1>4, <1>9, <1>10

LEMMA IallocGotGoes == ASSUME Facts, NEW p \in Proc, IallocGot(p) PROVE Goes(p)
<1>1. Shifts(p)
  BY IallocGotShifts DEF Facts
<1>2. UNCHANGED <<dinode, dir, faults, super, updlock, asleep, file>>
  BY DEF IallocGot, disk
<1>3. CASE UNCHANGED inode
  BY <1>1, <1>2, <1>3, FactTypes, StillGoes
<1>4. CASE u[p].cur # 0 /\ inode' = [inode EXCEPT ![u[p].cur].nlink = 0]
  <2> DEFINE k == u[p].cur
             e == [inode[k] EXCEPT !.nlink = 0]
  <2>1. k \in Slot
    BY <1>4, Registers DEF Facts, TypeOK
  <2>2. inode' = [inode EXCEPT ![k] = e]
    BY <1>4
  <2>3. inode[k] \in Inode /\ 0 \in Int /\ 1 \in Int
    BY <2>1, EntryIs
  <2>4. Silent(inode[k], e)
    BY <2>1, <2>3, SilentFields
  <2> HIDE DEF k, e
  <2> QED BY <1>1, <1>2, <2>1, <2>2, <2>4, FactTypes, SilentStep
<1> QED BY <1>3, <1>4 DEF IallocGot

LEMMA TruncatedGoes == ASSUME Facts, NEW p \in Proc, Truncated(p) PROVE Goes(p)
<1>1. Shifts(p)
  BY TruncatedShifts DEF Facts
<1> DEFINE k == u[p].ip
           e == [inode[k] EXCEPT !.dirty = TRUE]
<1>2. k \in Slot
  <2>1. Config("trunc", ret[p], u[p])
    BY HereAt DEF Truncated, Facts
  <2> QED BY <2>1 DEF Config
<1>3. inode' = [inode EXCEPT ![k] = e] /\ UNCHANGED <<dinode, dir, faults, super, updlock, asleep, file>>
  BY DEF Truncated, disk
<1>4. Silent(inode[k], e)
  BY <1>2, EntryIs, SilentFields
<1> HIDE DEF k, e
<1> QED BY <1>1, <1>2, <1>3, <1>4, FactTypes, SilentStep

LEMMA MaknodeGoes == ASSUME Facts, NEW p \in Proc, Maknode(p) PROVE Goes(p)
<1>1. Shifts(p)
  BY MaknodeShifts DEF Facts
<1>2. UNCHANGED <<dinode, dir, faults, super, updlock, asleep, file>>
  BY DEF Maknode, disk
<1>3. CASE UNCHANGED inode
  BY <1>1, <1>2, <1>3, FactTypes, StillGoes
<1>4. CASE u[p].cur # 0 /\ inode' = [inode EXCEPT ![u[p].cur] = [@ EXCEPT !.mode = "file", !.nlink = 1, !.dirty = TRUE]]
  <2> DEFINE k == u[p].cur
             e == [inode[k] EXCEPT !.mode = "file", !.nlink = 1, !.dirty = TRUE]
  <2>1. k \in Slot /\ "file" \in Mode
    BY <1>4, Registers DEF Facts, TypeOK, Mode
  <2>2. inode' = [inode EXCEPT ![k] = e]
    BY <1>4
  <2>3. inode[k] \in Inode /\ 0 \in Int /\ 1 \in Int
    BY <2>1, EntryIs
  <2>4. Silent(inode[k], e)
    BY <2>1, <2>3, SilentFields
  <2> HIDE DEF k, e
  <2> QED BY <1>1, <1>2, <2>1, <2>2, <2>4, FactTypes, SilentStep
<1> QED BY <1>3, <1>4 DEF Maknode

LEMMA LinkedGoes == ASSUME Facts, NEW p \in Proc, Linked(p) PROVE Goes(p)
<1>1. Shifts(p)
  BY LinkedShifts DEF Facts
<1>2. UNCHANGED <<dinode, dir, faults, super, updlock, asleep, file>>
  BY DEF Linked, disk
<1>3. CASE UNCHANGED inode
  BY <1>1, <1>2, <1>3, FactTypes, StillGoes
<1>4. CASE inode' = [inode EXCEPT ![u[p].ip] = [@ EXCEPT !.nlink = inode[u[p].ip].nlink + 1, !.dirty = TRUE]]
  <2> DEFINE k == u[p].ip
             e == [inode[k] EXCEPT !.nlink = inode[k].nlink + 1, !.dirty = TRUE]
  <2>1. k \in Slot
    <3>1. Config("linked", ret[p], u[p])
      BY HereAt DEF Linked, Facts
    <3> QED BY <3>1 DEF Config
  <2>2. inode[k] \in Inode /\ inode[k].nlink + 1 \in Int
    BY <2>1, EntryIs
  <2>3. inode' = [inode EXCEPT ![k] = e]
    BY <1>4
  <2>4. Silent(inode[k], e)
    BY <2>2, SilentFields
  <2> HIDE DEF k, e
  <2> QED BY <1>1, <1>2, <2>1, <2>3, <2>4, FactTypes, SilentStep
<1> QED BY <1>3, <1>4 DEF Linked

LEMMA NewEntry ==
  ASSUME Facts, NEW n \in Name, NEW i \in Ino \cup {0}
  PROVE  [dir EXCEPT ![n] = i] \in [Name -> Ino \cup {0}]
BY FactTypes

LEMMA WdirEndGoes == ASSUME Facts, NEW p \in Proc, WdirEnd(p) PROVE Goes(p)
<1>1. Shifts(p)
  BY WdirEndShifts DEF Facts
<1> DEFINE k == u[p].dp
           e == [inode[k] EXCEPT !.dirty = TRUE]
<1>2. k \in Slot /\ u[p].ip \in Slot /\ u[p].name \in Name
  <2>1. Config("wentry", ret[p], u[p])
    BY HereAt DEF WdirEnd, Facts
  <2> QED BY <2>1 DEF Config
<1>3. inode' = [inode EXCEPT ![k] = e] /\ UNCHANGED <<dinode, faults, super, updlock, asleep, file>>
      /\ dir' = [dir EXCEPT ![u[p].name] = inode[u[p].ip].number]
  BY DEF WdirEnd, Changed, WriteEntry
<1>4. Silent(inode[k], e)
  BY <1>2, EntryIs, SilentFields
<1>5. dir' \in [Name -> Ino \cup {0}]
  BY <1>2, <1>3, EntryIs, NewEntry
<1> HIDE DEF k, e
<1> QED BY <1>1, <1>2, <1>3, <1>4, <1>5, FactTypes, SilentStep

LEMMA LinkEntryGoes == ASSUME Facts, NEW p \in Proc, LinkEntry(p) PROVE Goes(p)
<1>1. Shifts(p)
  BY LinkEntryShifts DEF Facts
<1> DEFINE k == u[p].dp
           e == [inode[k] EXCEPT !.dirty = TRUE]
<1>2. k \in Slot /\ u[p].ip \in Slot /\ u[p].name \in Name
  <2>1. Config("lentry", ret[p], u[p])
    BY HereAt DEF LinkEntry, Facts
  <2> QED BY <2>1 DEF Config
<1>3. inode' = [inode EXCEPT ![k] = e] /\ UNCHANGED <<dinode, faults, super, updlock, asleep, file>>
      /\ dir' = [dir EXCEPT ![u[p].name] = inode[u[p].ip].number]
  BY DEF LinkEntry, Changed, WriteEntry
<1>4. Silent(inode[k], e)
  BY <1>2, EntryIs, SilentFields
<1>5. dir' \in [Name -> Ino \cup {0}]
  BY <1>2, <1>3, EntryIs, NewEntry
<1> HIDE DEF k, e
<1> QED BY <1>1, <1>2, <1>3, <1>4, <1>5, FactTypes, SilentStep

LEMMA UnlinkEntryGoes == ASSUME Facts, NEW p \in Proc, UnlinkEntry(p) PROVE Goes(p)
<1>1. Shifts(p)
  BY UnlinkEntryShifts DEF Facts
<1> DEFINE k == u[p].dp
           j == u[p].ip
           t == [inode EXCEPT ![k].dirty = TRUE]
           n == inode[j].nlink - 1
<1>2. k \in Slot /\ j \in Slot /\ u[p].name \in Name
  <2>1. Config("uentry", ret[p], u[p])
    BY HereAt DEF UnlinkEntry, Facts
  <2> QED BY <2>1 DEF Config
<1>3. inode' = [t EXCEPT ![j] = [t[j] EXCEPT !.nlink = n, !.dirty = TRUE]]
      /\ UNCHANGED <<dinode, faults, super, updlock, asleep, file>> /\ dir' = [dir EXCEPT ![u[p].name] = 0]
  BY DEF UnlinkEntry, Changed, WriteEntry
<1>4. inode \in [Slot -> Inode] /\ n \in Int /\ TRUE \in BOOLEAN /\ 0 \in Ino \cup {0}
  BY <1>2, EntryIs
<1> HIDE DEF k, j, n
<1>5. t \in [Slot -> Inode] /\ \A s \in Slot : Silent(inode[s], t[s])
  <2>1. \A s \in Slot : Silent(inode[s], inode[s]) /\ Silent(inode[s], [inode[s] EXCEPT !.dirty = TRUE])
    BY <1>4, EntryIs, SilentFields DEF Silent
  <2>2. \A s \in Slot : t[s] = IF s = k THEN [inode[s] EXCEPT !.dirty = TRUE] ELSE inode[s]
    BY <1>2, <1>4
  <2>3. \A s \in Slot : Silent(inode[s], t[s])
    BY <2>1, <2>2
  <2>4. \A s \in Slot : t[s] \in Inode
    BY <2>3 DEF Silent
  <2>5. t = [s \in Slot |-> t[s]]
    BY <1>4
  <2> HIDE DEF t
  <2> QED BY <2>3, <2>4, <2>5
<1> HIDE DEF t
<1>6. inode' \in [Slot -> Inode] /\ \A s \in Slot : Silent(t[s], inode'[s])
  <2> DEFINE e == [t[j] EXCEPT !.nlink = n, !.dirty = TRUE]
  <2>1. Silent(t[j], e)
    BY <1>2, <1>4, <1>5, SilentFields
  <2> HIDE DEF e
  <2>2. inode' = [t EXCEPT ![j] = e]
    BY <1>3 DEF e
  <2>3. e \in Inode
    BY <2>1 DEF Silent
  <2>4. \A s \in Slot : Silent(t[s], t[s])
    BY <1>5 DEF Silent
  <2> QED BY <1>2, <1>5, <2>1, <2>2, <2>3, <2>4
<1>7. \A s \in Slot : inode'[s].number = inode[s].number /\ inode'[s].count = inode[s].count
                      /\ inode'[s].lock = inode[s].lock /\ inode'[s].want = inode[s].want
  BY <1>5, <1>6 DEF Silent
<1>8. dir' \in [Name -> Ino \cup {0}]
  BY <1>2, <1>3, <1>4, NewEntry
<1>9. Typed'
  BY <1>3, <1>6, <1>8, FactTypes DEF Typed, Supers
<1>10. Awaits'
  BY <1>3, <1>7, WakeSame
<1> QED BY <1>1, <1>3, <1>7, <1>9, <1>10, QuietGoes

(* Steps that touch the superblock only.                                   *)
LEMMA SuperStep ==
  ASSUME Facts, NEW p \in Proc, Shifts(p), super' \in Supers, asleep' \in [Proc -> 0..SILOCK], faults' \in 0..MaxFaults,
         UNCHANGED <<inode, dinode, dir, updlock, file>>,
         \A q \in Proc : asleep'[q] # 0 => asleep'[q] = asleep[q] \/ (asleep'[q] = SILOCK /\ super'.lock),
         \A q \in Proc : asleep'[q] = SILOCK => super'.lock
  PROVE  Goes(p)
<1>1. Typed'
  BY FactTypes DEF Typed, Supers
<1>2. 0 \notin Slot /\ SILOCK \notin Slot
  BY SizeAssumption DEF Slot, SILOCK
<1>3. Awaits'
  BY <1>2 DEF Facts, Awaits
<1> QED BY <1>1, <1>3, QuietGoes

LEMMA IallocTakeGoes == ASSUME Facts, NEW p \in Proc, IallocTake(p) PROVE Goes(p)
<1>1. Shifts(p)
  BY IallocTakeShifts DEF Facts
<1>2. UNCHANGED <<inode, dinode, dir, faults, updlock, asleep, file>> /\ super.n > 0 /\ super' = [super EXCEPT !.n = @ - 1]
  BY DEF IallocTake, disk
<1>3. super' \in Supers /\ super'.lock = super.lock
  <2>1. super \in Supers
    BY FactTypes
  <2>2. super.n \in 0..NICINOD /\ NICINOD \in Nat
    BY <2>1, SizeAssumption DEF Supers
  <2>3. super.n - 1 \in 0..NICINOD
    BY <2>2, <1>2
  <2> QED BY <1>2, <2>1, <2>3 DEF Supers
<1>4. \A q \in Proc : asleep[q] = SILOCK => super.lock
  BY DEF Facts, Awaits
<1> QED BY <1>1, <1>2, <1>3, <1>4, FactTypes, SuperStep

LEMMA IallocSearchGoes == ASSUME Facts, NEW p \in Proc, IallocSearch(p) PROVE Goes(p)
<1>1. Shifts(p)
  BY IallocSearchShifts DEF Facts
<1>2. UNCHANGED <<inode, dinode, dir, faults, updlock, asleep, file>>
      /\ super' = [super EXCEPT !.lock = TRUE, !.n = NICINOD]
  BY DEF IallocSearch, disk
<1>3. super' \in Supers /\ super'.lock
  <2>1. super \in Supers
    BY FactTypes
  <2>2. NICINOD \in 0..NICINOD
    BY SizeAssumption
  <2> QED BY <1>2, <2>1, <2>2 DEF Supers
<1> QED BY <1>1, <1>2, <1>3, FactTypes, SuperStep

LEMMA IallocGoes == ASSUME Facts, NEW p \in Proc, Ialloc(p) PROVE Goes(p)
<1>1. Shifts(p)
  BY IallocShifts DEF Facts
<1>2. UNCHANGED <<inode, dinode, dir, faults, super, updlock, file>>
  BY DEF Ialloc, disk
<1>3. CASE super.lock /\ Sleep(p, SILOCK)
  <2>1. asleep' = [asleep EXCEPT ![p] = SILOCK]
    BY <1>3 DEF Sleep
  <2>2. SILOCK \in 0..SILOCK
    BY SizeAssumption DEF SILOCK
  <2>3. asleep' \in [Proc -> 0..SILOCK]
    BY <2>1, <2>2, FactTypes
  <2>4. \A q \in Proc : asleep'[q] # 0 => asleep'[q] = asleep[q] \/ (asleep'[q] = SILOCK /\ super'.lock)
    BY <1>2, <1>3, <2>1, FactTypes
  <2> QED BY <1>1, <1>2, <1>3, <2>3, <2>4, FactTypes, SuperStep
<1>4. CASE UNCHANGED asleep
  BY <1>1, <1>2, <1>4, FactTypes, StillGoes
<1> QED BY <1>3, <1>4 DEF Ialloc

LEMMA IscanEndGoes == ASSUME Facts, NEW p \in Proc, IscanEnd(p) PROVE Goes(p)
<1>1. Shifts(p)
  BY IscanEndShifts DEF Facts
<1> DEFINE list == IF super.n > 0 THEN [super.list EXCEPT ![super.n - 1] = 0, ![0] = 0] ELSE super.list
<1>2. UNCHANGED <<inode, dinode, dir, faults, updlock, file>> /\ Wakeup(SILOCK)
      /\ super' = [n |-> NICINOD, list |-> list, lock |-> FALSE]
  BY DEF IscanEnd, disk
<1>3. list \in [0..NICINOD-1 -> Ino \cup {0}]
  BY FactTypes DEF Supers
<1> HIDE DEF list
<1>4. super' \in Supers
  BY <1>2, <1>3, SizeAssumption DEF Supers
<1>5. 0 \in 0..SILOCK /\ SILOCK # 0
  BY SizeAssumption DEF SILOCK
<1>6. asleep' \in [Proc -> 0..SILOCK] /\ \A q \in Proc : asleep'[q] = IF asleep[q] = SILOCK THEN 0 ELSE asleep[q]
  BY <1>2, <1>5, FactTypes DEF Wakeup
<1> QED BY <1>1, <1>2, <1>4, <1>5, <1>6, FactTypes, SuperStep

LEMMA RememberType ==
  ASSUME NEW sb \in Supers, NEW free, free \subseteq Ino
  PROVE  Remember(sb, free) \in Supers /\ Remember(sb, free).lock = sb.lock
<1> DEFINE Place(j) == sb.n - 1 - Cardinality({i \in free : i < j})
           n == IF Cardinality(free) < sb.n THEN sb.n - Cardinality(free) ELSE 0
           list == [k \in DOMAIN sb.list |-> IF \E j \in free : Place(j) = k
                                             THEN CHOOSE j \in free : Place(j) = k ELSE sb.list[k]]
<1>1. Remember(sb, free) = [sb EXCEPT !.n = n, !.list = list]
  BY DEF Remember
<1>2. Cardinality(free) \in Nat
  <2>1. IsFiniteSet(Ino)
    BY FS_Interval, SizeAssumption DEF Ino
  <2> QED BY <2>1, FS_Subset, FS_CardinalityType
<1>3. n \in 0..NICINOD
  BY <1>2, SizeAssumption DEF Supers
<1>4. list \in [0..NICINOD-1 -> Ino \cup {0}]
  <2>1. DOMAIN sb.list = 0..NICINOD-1 /\ \A k \in 0..NICINOD-1 : sb.list[k] \in Ino \cup {0}
    BY DEF Supers
  <2> HIDE DEF Place
  <2>2. \A k : (\E j \in free : Place(j) = k) => (CHOOSE j \in free : Place(j) = k) \in free
    OBVIOUS
  <2> QED BY <2>1, <2>2
<1> HIDE DEF n, list
<1>5. [sb EXCEPT !.n = n, !.list = list] \in Supers /\ [sb EXCEPT !.n = n, !.list = list].lock = sb.lock
  BY <1>3, <1>4 DEF Supers
<1> QED BY <1>1, <1>5

LEMMA IscanGoes == ASSUME Facts, NEW p \in Proc, Iscan(p) PROVE Goes(p)
<1>1. Shifts(p)
  BY IscanShifts DEF Facts
<1> DEFINE free == {j \in BlockOf(u[p].scan) : dinode[j].mode = "none"}
<1>2. PICK fails \in BOOLEAN : Bread(fails) /\ (super' = super \/ super' = Remember(super, free))
  BY DEF Iscan
<1>3. UNCHANGED <<inode, dinode, dir, updlock, asleep, file>>
  BY DEF Iscan
<1>4. free \subseteq Ino
  BY DEF BlockOf
<1> HIDE DEF free
<1>5. super' \in Supers /\ super'.lock = super.lock
  BY <1>2, <1>4, FactTypes, RememberType
<1>6. faults' \in 0..MaxFaults
  BY <1>2, ReadMay
<1>7. \A q \in Proc : asleep[q] = SILOCK => super.lock
  BY DEF Facts, Awaits
<1> QED BY <1>1, <1>3, <1>5, <1>6, <1>7, FactTypes, SuperStep

(* Without link(), a process has the lock of every entry its registers     *)
(* count for.                                                              *)
LEMMA HoldsOwn ==
  ASSUME NEW p \in Proc, NEW k \in Slot, Config(pc[p], ret[p], u[p]), "link" \notin Calls, ~Has(p, k)
  PROVE  Mine(p, k) = 0
<1>1. 0 \notin Slot
  BY DEF Slot
<1> DEFINE f == u[p]
<1>2. f.ip = k => f.to = "none"
  <2>1. SUFFICES ASSUME f.ip = k PROVE f.to = "none"
    OBVIOUS
  <2> HIDE DEF f
  <2>2. \A r : ~NameiOf(r, f)
    BY <1>1, <2>1 DEF NameiOf
  <2>3. \A r : ~IallocOf(r, f)
    BY <1>1, <2>1 DEF IallocOf
  <2>4. ~Unlinking(f)
    BY <1>1, <2>1 DEF Unlinking
  <2>5. \A r : ~IgetOf(r, f)
    BY <2>2, <2>3, <2>4 DEF IgetOf
  <2>6. \A r : IputOf(r, f) => f.to = "none"
    BY <1>1, <2>1, <2>2, <2>3, <2>4 DEF IputOf
  <2>7. \A r : IupdatOf(r, f) => f.to = "none"
    BY <1>1, <2>1, <2>3, <2>6 DEF IupdatOf
  <2>8. Config(pc[p], ret[p], f)
    BY DEF f
  <2>9. f # NoCall
    BY <1>1, <2>1 DEF NoCall
  <2> QED BY <1>1, <2>1, <2>2, <2>3, <2>4, <2>5, <2>6, <2>7, <2>8, <2>9 DEF Config
<1>3. u[p].dp # k /\ u[p].ip # k
  BY <1>2 DEF Has, Holds
<1>4. ~(u[p].cur = k /\ Owns(pc[p], ret[p]))
  <2>1. ret[p] = <<"end">> => Head(ret[p]) = "end"
    BY Short
  <2> QED BY <2>1 DEF Has, Holds, Owns
<1> QED BY <1>3, <1>4 DEF Mine, Weight, One

(* Steps that change one entry.                                            *)
LEMMA SlotEffect ==
  ASSUME Facts, NEW p \in Proc, NEW m, NEW t, NEW g, NEW k \in Slot, NEW e \in Inode,
         Stepped(p, m, t, g), Config(m, t, g), inode' = [inode EXCEPT ![k] = e],
         UNCHANGED <<dinode, dir, super, faults>>, updlock' \in BOOLEAN, asleep' \in [Proc -> 0..SILOCK],
         file' \in [Proc -> [Slot -> Nat]], \A q \in Proc \ {p} : file'[q] = file[q],
         \A s \in Slot \ {k} : Weight(m, t, g, s) = Mine(p, s) /\ file'[p][s] = file[p][s],
         e.count = inode[k].count + (file'[p][k] + Weight(m, t, g, k)) - (file[p][k] + Mine(p, k)),
         file[p][k] + Mine(p, k) = 0 /\ inode[k].lock => e.count = inode[k].count /\ e.lock,
         Last(m, t) => g.cur = k /\ e.count = 1 /\ e.lock,
         Copies(m) => file'[p][g.cur] > 0,
         e.count # 0 => e.number # 0, e.lock => e.count # 0, k = 1 => e.number = ROOTINO,
         Awaits'
  PROVE  Effect(p, m, t, g)
<1>1. inode \in [Slot -> Inode]
  BY FactTypes
<1>2. inode'[k] = e /\ \A s \in Slot \ {k} : inode'[s] = inode[s]
  BY <1>1
<1>3. inode' \in [Slot -> Inode]
  BY <1>1
<1>4. Typed'
  BY <1>3, FactTypes DEF Typed, Supers
<1>5. \A s \in Slot : inode'[s].count = inode[s].count + (file'[p][s] + Weight(m, t, g, s))
                                        - (file[p][s] + Mine(p, s))
  <2> SUFFICES ASSUME NEW s \in Slot
               PROVE  inode'[s].count = inode[s].count + (file'[p][s] + Weight(m, t, g, s))
                                        - (file[p][s] + Mine(p, s))
    OBVIOUS
  <2>1. CASE s = k
    BY <1>2, <2>1
  <2>2. CASE s # k
    <3>1. inode[s].count \in Nat /\ file[p][s] \in Nat /\ Mine(p, s) \in Nat
      BY EntryIs, Refers DEF Facts
    <3> QED BY <1>2, <2>2, <3>1
  <2> QED BY <2>1, <2>2
<1>6. \A s \in Slot : file[p][s] + Mine(p, s) = 0 /\ inode[s].lock =>
         inode'[s].count = inode[s].count /\ inode'[s].lock
  BY <1>2
<1>7. Last(m, t) => inode'[g.cur].count = 1 /\ inode'[g.cur].lock
  BY <1>2
<1>8. RootKept' /\ Numbered' /\ LockUsed'
  <2>1. 1 \in Slot
    BY SizeAssumption DEF Slot
  <2> QED BY <2>1, <1>2 DEF Facts, RootKept, Numbered, LockUsed
<1> QED BY <1>4, <1>5, <1>6, <1>7, <1>8 DEF Effect

LEMMA WakeAwait ==
  ASSUME Facts, NEW p \in Proc, NEW k \in Slot, inode[k].lock, asleep' = [asleep EXCEPT ![p] = k],
         inode' = [inode EXCEPT ![k].want = TRUE], super' = super
  PROVE  Awaits' /\ asleep' \in [Proc -> 0..SILOCK]
<1>1. inode \in [Slot -> Inode] /\ asleep \in [Proc -> 0..SILOCK]
  BY FactTypes
<1>2. k \in 0..SILOCK /\ k # SILOCK
  BY SizeAssumption DEF Slot, SILOCK
<1>3. \A s \in Slot : inode'[s].lock = inode[s].lock /\ (inode[s].want => inode'[s].want)
  BY <1>1 DEF Inode
<1>4. inode'[k].want
  BY <1>1 DEF Inode
<1>5. \A q \in Proc : asleep'[q] = IF q = p THEN k ELSE asleep[q]
  BY <1>1
<1>6. asleep' \in [Proc -> 0..SILOCK]
  BY <1>1, <1>2
<1> QED BY <1>2, <1>3, <1>4, <1>5, <1>6 DEF Facts, Awaits

LEMMA WakeRelease ==
  ASSUME Facts, NEW k \in Slot, WakeLockers(k), NEW e, inode' = [inode EXCEPT ![k] = e], super' = super
  PROVE  Awaits' /\ asleep' \in [Proc -> 0..SILOCK]
<1>1. inode \in [Slot -> Inode] /\ asleep \in [Proc -> 0..SILOCK]
  BY FactTypes
<1>2. 0 \in 0..SILOCK /\ 0 \notin Slot /\ SILOCK # 0
  BY SizeAssumption DEF SILOCK, Slot
<1>3. \A s \in Slot \ {k} : inode'[s] = inode[s]
  BY <1>1
<1>4. /\ asleep' \in [Proc -> 0..SILOCK]
      /\ \A q \in Proc : (ByName => asleep'[q] # k) /\ (asleep'[q] = 0 \/ asleep'[q] = asleep[q])
  <2>1. CASE inode[k].want
    <3>1. asleep' = [q \in Proc |-> IF asleep[q] = k THEN 0 ELSE asleep[q]]
      BY <2>1 DEF WakeLockers, Wakeup
    <3> QED BY <1>1, <1>2, <3>1
  <2>2. CASE ~inode[k].want
    <3>1. asleep' = asleep
      BY <2>2 DEF WakeLockers
    <3>2. ByName => \A q \in Proc : asleep[q] # k
      BY <2>2 DEF Facts, Awaits
    <3> QED BY <1>1, <3>1, <3>2
  <2> QED BY <2>1, <2>2
<1> QED BY <1>2, <1>3, <1>4 DEF Facts, Awaits

(* A step that takes a free entry and its lock, and one that gives both up. *)
Gains(l, r, f, m, t, g, k) ==
  /\ Config(m, t, g) /\ ~Copies(m) /\ ~Last(m, t)
  /\ \A s \in Slot : Weight(m, t, g, s) = Weight(l, r, f, s) + One(s = k)
  /\ \A s \in Slot : Holds(m, t, g, s) <=> Holds(l, r, f, s) \/ s = k
Loses(l, r, f, m, t, g, k) ==
  /\ Config(m, t, g) /\ ~Copies(m) /\ ~Last(m, t)
  /\ \A s \in Slot : Weight(m, t, g, s) = Weight(l, r, f, s) - One(s = k)
  /\ \A s \in Slot \ {k} : Holds(m, t, g, s) <=> Holds(l, r, f, s)
  /\ Holds(l, r, f, k) /\ (Weight(l, r, f, k) <= 1 => ~Holds(m, t, g, k))

LEMMA GainGoes ==
  ASSUME Facts, NEW p \in Proc, NEW m, NEW t, NEW g, NEW k \in Slot, NEW e \in Inode,
         Stepped(p, m, t, g), Gains(pc[p], ret[p], u[p], m, t, g, k), inode' = [inode EXCEPT ![k] = e],
         UNCHANGED <<dinode, dir, super, updlock, faults, asleep, file>>, ~inode[k].lock,
         e.count = inode[k].count + 1, e.lock, e.number # 0, k = 1 => e.number = ROOTINO
  PROVE  Goes(p)
<1>1. One(k = k) = 1 /\ \A s \in Slot \ {k} : One(s = k) = 0
  BY DEF One
<1>2. /\ inode[k].count \in Nat /\ file[p][k] \in Nat
      /\ \A s \in Slot : Mine(p, s) \in Nat
  BY EntryIs, Refers DEF Facts
<1>3. file \in [Proc -> [Slot -> Nat]]
  BY DEF Facts, TypeOK
<1>4. \A s \in Slot \ {k} : Weight(m, t, g, s) = Mine(p, s)
  BY <1>1, <1>2 DEF Gains, Mine
<1>5. Weight(m, t, g, k) = Mine(p, k) + 1
  BY <1>1 DEF Gains, Mine
<1>6. Awaits'
  <2>1. \A s \in Slot : inode[s].lock => inode'[s] = inode[s]
    BY FactTypes
  <2> QED BY <2>1, WakeSame
<1>7. Config(m, t, g) /\ ~Copies(m) /\ ~Last(m, t)
  BY DEF Gains
<1>8. e.count = inode[k].count + (file[p][k] + Weight(m, t, g, k)) - (file[p][k] + Mine(p, k)) /\ e.count # 0
  BY <1>2, <1>5
<1>9. Effect(p, m, t, g)
  BY <1>3, <1>4, <1>6, <1>7, <1>8, FactTypes, SlotEffect
<1>10. ASSUME "link" \notin Calls, Locked PROVE LockEffect(p, m, t, g)
  <2>1. ~Has(p, k)
    BY <1>10 DEF Locked
  <2>2. Mine(p, k) = 0
    <3>1. Config(pc[p], ret[p], u[p])
      BY DEF Facts, Controlled
    <3> QED BY <1>10, <2>1, <3>1, HoldsOwn
  <2>3. \A s \in Slot : Weight(m, t, g, s) <= 1
    BY <1>4, <1>5, <1>10, <2>2 DEF Locked
  <2>4. \A s \in Slot : Holds(m, t, g, s) <=> Has(p, s) \/ s = k
    BY DEF Gains, Has
  <2>5. inode'[k].lock /\ \A s \in Slot \ {k} : inode'[s] = inode[s]
    BY FactTypes
  <2> QED BY <2>3, <2>4, <2>5 DEF LockEffect
<1> QED BY <1>9, <1>10 DEF Goes

LEMMA LoseGoes ==
  ASSUME Facts, NEW p \in Proc, NEW m, NEW t, NEW g, NEW k \in Slot, NEW e \in Inode,
         Stepped(p, m, t, g), Loses(pc[p], ret[p], u[p], m, t, g, k), inode' = [inode EXCEPT ![k] = e],
         UNCHANGED <<dinode, dir, super, updlock, faults>>, WakeLockers(k), Mine(p, k) >= 1,
         file' \in [Proc -> [Slot -> Nat]], \A q \in Proc \ {p} : file'[q] = file[q],
         \A s \in Slot \ {k} : file'[p][s] = file[p][s],
         e.count = inode[k].count + file'[p][k] - file[p][k] - 1, ~e.lock, e.count # 0 => e.number # 0,
         k = 1 => e.number = ROOTINO
  PROVE  Goes(p)
<1>1. One(k = k) = 1 /\ \A s \in Slot \ {k} : One(s = k) = 0
  BY DEF One
<1>2. /\ inode[k].count \in Nat /\ file[p][k] \in Nat /\ file'[p][k] \in Nat
      /\ \A s \in Slot : Mine(p, s) \in Nat
  BY EntryIs, Refers DEF Facts
<1>3. \A s \in Slot \ {k} : Weight(m, t, g, s) = Mine(p, s)
  BY <1>1, <1>2 DEF Loses, Mine
<1>4. Weight(m, t, g, k) = Mine(p, k) - 1
  BY <1>1 DEF Loses, Mine
<1>5. Awaits' /\ asleep' \in [Proc -> 0..SILOCK]
  BY WakeRelease
<1>6. Config(m, t, g) /\ ~Copies(m) /\ ~Last(m, t)
  BY DEF Loses
<1>7. e.count = inode[k].count + (file'[p][k] + Weight(m, t, g, k)) - (file[p][k] + Mine(p, k))
  BY <1>2, <1>4
<1>8. ~(file[p][k] + Mine(p, k) = 0)
  BY <1>2
<1>9. updlock' \in BOOLEAN
  BY FactTypes
<1>10. Effect(p, m, t, g)
  BY <1>3, <1>5, <1>6, <1>7, <1>8, <1>9, SlotEffect
<1>11. ASSUME "link" \notin Calls, Locked PROVE LockEffect(p, m, t, g)
  <2>1. \A s \in Slot : Mine(p, s) <= 1
    BY <1>11 DEF Locked
  <2>2. \A s \in Slot : Weight(m, t, g, s) <= 1
    BY <1>2, <1>3, <1>4, <2>1
  <2>3. Has(p, k) /\ ~Holds(m, t, g, k) /\ \A s \in Slot \ {k} : Holds(m, t, g, s) <=> Has(p, s)
    BY <2>1 DEF Loses, Has, Mine
  <2>4. ~inode'[k].lock /\ \A s \in Slot \ {k} : inode'[s] = inode[s]
    BY FactTypes
  <2> QED BY <2>2, <2>3, <2>4 DEF LockEffect
<1> QED BY <1>10, <1>11 DEF Goes

LEMMA FoundGain ==
  ASSUME NEW r \in Seq(PC), NEW f \in Frame, NEW k \in Slot, NEW g, Config("iget", r, f), g = [f EXCEPT !.cur = k]
  PROVE  r # <<>> /\ g \in Frame /\ Gains("iget", r, f, Head(r), Tail(r), g, k)
<1>1. IgetOf(r, f) /\ f.cur = 0
  BY DEF Config
<1>2. g \in Frame /\ g.name = f.name /\ g.to = f.to /\ g.flag = f.flag /\ g.ino = f.ino
      /\ g.dp = f.dp /\ g.ip = f.ip /\ g.cur = k
  BY DEF Frame
<1>3. r # <<>>
  BY <1>1 DEF IgetOf
<1>4. Config(Head(r), Tail(r), g) /\ Plain(Head(r))
  BY <1>1, <1>2, IgetReturns DEF Alike
<1>5. 0 \notin Slot
  BY DEF Slot
<1> QED BY <1>1, <1>2, <1>3, <1>4, <1>5 DEF Gains, Weight, One, Owns, Holds, Last, Copies, Plain

LEMMA ReadGain ==
  ASSUME NEW r \in Seq(PC), NEW f \in Frame, NEW k \in Slot, NEW g, Config("iget", r, f), g = [f EXCEPT !.cur = k],
         Head(r) # "lookup"
  PROVE  g \in Frame /\ Gains("iget", r, f, "iread", r, g, k)
<1>1. IgetOf(r, f) /\ f.cur = 0
  BY DEF Config
<1>2. g \in Frame /\ g.name = f.name /\ g.to = f.to /\ g.flag = f.flag /\ g.ino = f.ino
      /\ g.dp = f.dp /\ g.ip = f.ip /\ g.cur = k
  BY DEF Frame
<1>3. IgetOf(r, g)
  BY <1>1, <1>2, NameiKept, IallocKept DEF IgetOf, Unlinking
<1>4. Config("iread", r, g)
  BY <1>2, <1>3 DEF Config
<1>5. 0 \notin Slot
  BY DEF Slot
<1> QED BY <1>1, <1>2, <1>4, <1>5 DEF Gains, Weight, One, Owns, Holds, Last, Copies

LEMMA UpdateGain ==
  ASSUME NEW r \in Seq(PC), NEW f \in Frame, NEW k \in Slot, NEW n \in Nat, NEW g, NEW t,
         Config("update", r, f), g = [f EXCEPT !.cur = k, !.scan = n], Pushed("update1", r, t)
  PROVE  g \in Frame /\ Gains("update", r, f, "iupdat", t, g, k)
<1>1. r = <<"end">> /\ f.cur = 0 /\ f.dp = 0 /\ f.ip = 0
  BY DEF Config
<1>2. g \in Frame /\ g.dp = 0 /\ g.ip = 0 /\ g.cur = k
  BY <1>1 DEF Frame
<1>3. IupdatOf(t, g)
  BY <1>1, <1>2 DEF Pushed, IupdatOf
<1>4. Config("iupdat", t, g)
  BY <1>2, <1>3 DEF Config
<1>5. 0 \notin Slot
  BY DEF Slot
<1>6. t # <<"end">>
  BY Short DEF Pushed
<1> QED BY <1>1, <1>2, <1>4, <1>5, <1>6 DEF Pushed, Gains, Weight, One, Owns, Holds, Last, Copies

LEMMA IputLose ==
  ASSUME NEW r \in Seq(PC), NEW f \in Frame, NEW l \in {"iput", "idrop"}, NEW g, Config(l, r, f), g = [f EXCEPT !.cur = 0]
  PROVE  r # <<>> /\ g \in Frame /\ f.cur \in Slot /\ Loses(l, r, f, Head(r), Tail(r), g, f.cur)
<1>1. IputOf(r, f) /\ f.cur \in Slot
  BY DEF Config
<1>2. g \in Frame /\ g.name = f.name /\ g.to = f.to /\ g.flag = f.flag /\ g.ino = f.ino
      /\ g.dp = f.dp /\ g.ip = f.ip /\ g.cur = 0
  BY DEF Frame
<1>3. r # <<>>
  BY <1>1 DEF IputOf
<1>4. Config(Head(r), Tail(r), g) /\ ~Copies(Head(r)) /\ Head(r) \notin {"iupdat", "iput", "itrunc", "ifree", "idrop"}
  BY <1>1, <1>2, IputReturns DEF Alike
<1>5. 0 \notin Slot
  BY DEF Slot
<1> DEFINE k == f.cur
<1>6. \A s \in Slot : Weight(l, r, f, s) = One(f.dp = s) + One(f.ip = s) + One(s = k)
  BY DEF Weight, One, Owns
<1>7. \A s \in Slot : Weight(Head(r), Tail(r), g, s) = One(f.dp = s) + One(f.ip = s)
  BY <1>2, <1>5 DEF Weight, One
<1>8. \A x : One(x) \in {0, 1}
  BY DEF One
<1>9. \A s \in Slot : Weight(Head(r), Tail(r), g, s) = Weight(l, r, f, s) - One(s = k)
  BY <1>6, <1>7, <1>8
<1>10. Weight(l, r, f, k) <= 1 => f.dp # k /\ f.ip # k
  BY <1>1, <1>6 DEF One
<1>11. Holds(l, r, f, k) /\ (Weight(l, r, f, k) <= 1 => ~Holds(Head(r), Tail(r), g, k))
  BY <1>1, <1>2, <1>5, <1>10 DEF Holds
<1>12. \A s \in Slot \ {k} : Holds(Head(r), Tail(r), g, s) <=> Holds(l, r, f, s)
  BY <1>2, <1>5 DEF Holds
<1> QED BY <1>1, <1>2, <1>3, <1>4, <1>9, <1>11, <1>12 DEF Loses, Last

LEMMA GrantLose ==
  ASSUME NEW r \in Seq(PC), NEW f \in Frame, NEW l \in {"grant", "granted"}, NEW g, Config(l, r, f), g = [f EXCEPT !.ip = 0]
  PROVE  g \in Frame /\ f.ip \in Slot /\ Loses(l, r, f, "end", r, g, f.ip)
<1>1. r = <<>> /\ f.dp = 0 /\ f.ip \in Slot /\ f.cur = 0 /\ f.to = "none"
  BY DEF Config
<1>2. g \in Frame /\ g.dp = 0 /\ g.ip = 0 /\ g.cur = 0 /\ g.to = "none"
  BY <1>1 DEF Frame
<1>3. Config("end", r, g)
  BY <1>1, <1>2 DEF Config
<1>4. 0 \notin Slot
  BY DEF Slot
<1> QED BY <1>1, <1>2, <1>3, <1>4 DEF Loses, Weight, One, Owns, Holds, Last, Copies

LEMMA HeldIs ==
  ASSUME Facts, NEW p \in Proc, NEW l, At(p, l)
  PROVE  /\ pc[p] = l /\ Config(l, ret[p], u[p]) /\ ret[p] \in Seq(PC) /\ u[p] \in Frame /\ TypeOK
         /\ \A s : Mine(p, s) = Weight(l, ret[p], u[p], s) /\ (Has(p, s) <=> Holds(l, ret[p], u[p], s))
BY HereAt DEF Facts, Mine, Has

LEMMA IgetFoundGoes == ASSUME Facts, NEW p \in Proc, IgetFound(p) PROVE Goes(p)
<1>1. At(p, "iget") /\ Return(p)
  BY DEF IgetFound
<1>2. PICK k \in Slot :
        /\ inode[k].number = u[p].ino /\ ~inode[k].lock
        /\ inode' = [inode EXCEPT ![k] = [inode[k] EXCEPT !.count = inode[k].count + 1, !.lock = TRUE]]
        /\ Set(p, [u[p] EXCEPT !.cur = k])
  BY DEF IgetFound, Holding
<1>3. UNCHANGED <<dinode, dir, super, updlock, faults, asleep, file>>
  BY DEF IgetFound, disk
<1>4. pc[p] = "iget" /\ Config("iget", ret[p], u[p]) /\ ret[p] \in Seq(PC) /\ u[p] \in Frame /\ TypeOK
  BY <1>1, HeldIs
<1> DEFINE g == [u[p] EXCEPT !.cur = k]
           m == Head(ret[p])
           t == Tail(ret[p])
           e == [inode[k] EXCEPT !.count = inode[k].count + 1, !.lock = TRUE]
<1>5. ret[p] # <<>> /\ g \in Frame /\ Gains(pc[p], ret[p], u[p], m, t, g, k)
  BY <1>4, FoundGain
<1>6. m \in PC /\ t \in Seq(PC)
  BY <1>4, <1>5, ConfigPC DEF Gains
<1>7. Stepped(p, m, t, g)
  BY <1>1, <1>2, <1>4, <1>5, <1>6, EnterSteps DEF Return
<1>8. u[p].ino \in Ino
  BY <1>4 DEF Config, IgetOf
<1>9. e \in Inode /\ e.count = inode[k].count + 1 /\ e.lock /\ e.number = inode[k].number
  <2>1. inode[k] \in Inode /\ inode[k].count + 1 \in Int
    BY EntryIs
  <2> QED BY <2>1 DEF Inode
<1>10. e.number # 0 /\ (k = 1 => e.number = ROOTINO)
  BY <1>2, <1>8, <1>9 DEF Facts, RootKept, Ino
<1> HIDE DEF g, m, t, e
<1> QED BY <1>2, <1>3, <1>5, <1>7, <1>9, <1>10, GainGoes DEF e

LEMMA Least ==
  ASSUME NEW T, T \subseteq Nat, T # {}
  PROVE  \E x \in T : \A y \in T : x <= y
<1> DEFINE less == OpToRel(<, Nat)
<1>1. IsWellFoundedOn(less, Nat)
  BY NatLessThanWellFounded
<1> HIDE DEF less
<1>2. PICK x \in T : \A y \in T : ~(<<y, x>> \in less)
  BY <1>1, WFMin
<1>3. \A y \in T : ~(y < x)
  BY <1>2 DEF less, OpToRel
<1> QED BY <1>3

LEMMA MinIs == ASSUME NEW T, T \subseteq Slot, T # {} PROVE Min(T) \in T
<1>1. T \subseteq Nat
  BY DEF Slot
<1>2. \E x \in T : \A y \in T : x <= y
  BY <1>1, Least
<1> QED BY <1>2 DEF Min

LEMMA Renumbered ==
  ASSUME NEW x \in Inode, NEW i \in Ino
  PROVE  LET e == [x EXCEPT !.number = i, !.count = 1, !.lock = TRUE, !.want = FALSE, !.dirty = FALSE] IN
         e \in Inode /\ e.count = 1 /\ e.lock /\ e.number = i
<1> DEFINE w == [x EXCEPT !.number = i]
           y == [w EXCEPT !.count = 1]
           z == [y EXCEPT !.lock = TRUE, !.want = FALSE]
           e == [z EXCEPT !.dirty = FALSE]
<1>0. w \in Inode /\ w.number = i
  BY DEF Inode
<1> HIDE DEF w
<1>1. y \in Inode /\ y.count = 1 /\ y.number = i
  BY <1>0 DEF Inode
<1> HIDE DEF y
<1>2. z \in Inode /\ z.count = 1 /\ z.number = i /\ z.lock
  BY <1>1 DEF Inode
<1> HIDE DEF z
<1>3. e \in Inode /\ e.count = 1 /\ e.number = i /\ e.lock
  BY <1>2 DEF Inode
<1> QED BY <1>3 DEF w, y, z

LEMMA IgetReadGoes == ASSUME Facts, NEW p \in Proc, IgetRead(p) PROVE Goes(p)
<1> DEFINE k == Min(Unused)
           r == ret[p]
           g == [u[p] EXCEPT !.cur = k]
           e == [inode[k] EXCEPT !.number = u[p].ino, !.count = 1, !.lock = TRUE, !.want = FALSE, !.dirty = FALSE]
<1>1. At(p, "iget") /\ Goto(p, "iread") /\ inode' = [inode EXCEPT ![k] = e] /\ Set(p, g)
      /\ Holding(u[p].ino) = {} /\ Unused # {}
  BY DEF IgetRead
<1>2. k \in Slot /\ inode[k].count = 0
  BY <1>1, MinIs DEF Unused
<1>3. UNCHANGED <<dinode, dir, super, updlock, faults, asleep, file>>
  BY DEF IgetRead, disk
<1>4. pc[p] = "iget" /\ Config("iget", r, u[p]) /\ r \in Seq(PC) /\ u[p] \in Frame /\ TypeOK
  BY <1>1, HeldIs
<1>5. u[p].ino \in Ino /\ IgetOf(r, u[p])
  BY <1>4 DEF Config, IgetOf
<1>6. Head(r) # "lookup"
  <2>1. 1 \in Slot
    BY SizeAssumption DEF Slot
  <2>2. u[p].ino # ROOTINO
    BY <1>1, <2>1 DEF Facts, RootKept, Holding
  <2> QED BY <1>5, <2>2, IgetLookup
<1>7. k # 1 /\ ~inode[k].lock
  <2>1. inode[1].count >= 1
    <3>1. 1 \in Slot
      BY SizeAssumption DEF Slot
    <3>2. inode[1].count \in Nat /\ inode[1].count >= One(1 = 1) + file[p][1] + Mine(p, 1)
      BY <3>1, Counts DEF Facts
    <3>3. file[p][1] \in Nat /\ Mine(p, 1) \in Nat /\ One(1 = 1) = 1
      BY <3>1, <1>4, Refers DEF One
    <3> QED BY <3>2, <3>3
  <2> QED BY <1>2, <2>1 DEF Facts, LockUsed
<1> HIDE DEF k
<1>8. g \in Frame /\ Gains(pc[p], r, u[p], "iread", r, g, k)
  BY <1>2, <1>4, <1>6, ReadGain
<1>9. Stepped(p, "iread", r, g)
  <2>1. "iread" \in PC
    BY DEF PC, Diskwait
  <2> QED BY <1>1, <1>4, <1>8, <2>1, EnterSteps DEF Goto
<1>10. e \in Inode /\ e.count = 1 /\ e.lock /\ e.number = u[p].ino
  <2>1. inode[k] \in Inode
    BY <1>2, EntryIs
  <2> QED BY <1>5, <2>1, Renumbered
<1>11. e.number # 0 /\ e.count = inode[k].count + 1
  BY <1>2, <1>5, <1>10 DEF Ino
<1> HIDE DEF g, e
<1> QED BY <1>1, <1>2, <1>3, <1>7, <1>8, <1>9, <1>10, <1>11, GainGoes

LEMMA ReleasedIs ==
  ASSUME NEW x \in Inode
  PROVE  Released(x) \in Inode /\ Released(x).number = x.number /\ Released(x).count = x.count
         /\ ~Released(x).lock /\ Released(x).dirty = x.dirty
BY DEF Released, Inode

LEMMA ReleasedCount ==
  ASSUME NEW x \in Inode, NEW c \in Int
  PROVE  LET e == [Released(x) EXCEPT !.count = c] IN e \in Inode /\ e.number = x.number /\ e.count = c /\ ~e.lock
<1> DEFINE y == Released(x)
<1>1. y \in Inode /\ y.number = x.number /\ ~y.lock
  BY ReleasedIs
<1> HIDE DEF y
<1>2. [y EXCEPT !.count = c] \in Inode /\ [y EXCEPT !.count = c].number = x.number
      /\ [y EXCEPT !.count = c].count = c /\ ~[y EXCEPT !.count = c].lock
  BY <1>1 DEF Inode
<1> QED BY <1>2 DEF y

LEMMA ReleasedDirty ==
  ASSUME NEW x \in Inode, NEW b \in BOOLEAN
  PROVE  LET e == [Released(x) EXCEPT !.dirty = b] IN
         e \in Inode /\ e.number = x.number /\ e.count = x.count /\ ~e.lock
<1> DEFINE y == Released(x)
<1>1. y \in Inode /\ y.number = x.number /\ y.count = x.count /\ ~y.lock
  BY ReleasedIs
<1> HIDE DEF y
<1>2. [y EXCEPT !.dirty = b] \in Inode /\ [y EXCEPT !.dirty = b].number = x.number
      /\ [y EXCEPT !.dirty = b].count = x.count /\ ~[y EXCEPT !.dirty = b].lock
  BY <1>1 DEF Inode
<1> QED BY <1>2 DEF y

LEMMA Emptied ==
  ASSUME NEW x \in Inode
  PROVE  LET e == [Released(x) EXCEPT !.dirty = FALSE, !.number = 0, !.count = 0] IN
         e \in Inode /\ e.count = 0 /\ e.number = 0 /\ ~e.lock
<1> DEFINE y == [Released(x) EXCEPT !.dirty = FALSE]
           w == [y EXCEPT !.number = 0]
           e == [w EXCEPT !.count = 0]
<1>1. y \in Inode /\ ~y.lock
  BY ReleasedDirty
<1> HIDE DEF y
<1>2. w \in Inode /\ ~w.lock /\ w.number = 0
  BY <1>1 DEF Inode
<1> HIDE DEF w
<1>3. e \in Inode /\ ~e.lock /\ e.number = 0 /\ e.count = 0
  BY <1>2 DEF Inode
<1> QED BY <1>3 DEF w, y

LEMMA IputSharedGoes == ASSUME Facts, NEW p \in Proc, IputShared(p) PROVE Goes(p)
<1> DEFINE k == u[p].cur
           r == ret[p]
           g == [u[p] EXCEPT !.cur = 0]
           e == [Released(inode[k]) EXCEPT !.count = inode[k].count - 1]
<1>1. At(p, "iput") /\ Return(p) /\ inode[k].count # 1 /\ inode' = [inode EXCEPT ![k] = e] /\ WakeLockers(k) /\ Set(p, g)
  BY DEF IputShared
<1>2. UNCHANGED <<dinode, dir, super, updlock, faults, file>>
  BY DEF IputShared, disk
<1>3. pc[p] = "iput" /\ Config("iput", r, u[p]) /\ r \in Seq(PC) /\ u[p] \in Frame /\ TypeOK
  BY <1>1, HeldIs
<1>4. r # <<>> /\ g \in Frame /\ k \in Slot /\ Loses(pc[p], r, u[p], Head(r), Tail(r), g, k)
  BY <1>3, IputLose
<1>5. Mine(p, k) >= 1
  BY <1>3, MineIs DEF Owns
<1>6. Head(r) \in PC /\ Tail(r) \in Seq(PC)
  BY <1>3, <1>4, ConfigPC DEF Loses
<1>7. Stepped(p, Head(r), Tail(r), g)
  BY <1>1, <1>3, <1>4, <1>6, EnterSteps DEF Return
<1>8. inode[k] \in Inode /\ inode[k].count \in Nat /\ inode[k].count >= 1 /\ inode[k].number \in Ino
      /\ file[p][k] \in Nat /\ file \in [Proc -> [Slot -> Nat]]
  BY <1>3, <1>4, <1>5, EntryIs, InUse, Refers DEF TypeOK
<1>9. e \in Inode /\ e.count = inode[k].count - 1 /\ ~e.lock /\ e.number = inode[k].number
  <2>1. inode[k].count - 1 \in Int
    BY <1>8
  <2> QED BY <1>8, <2>1, ReleasedCount
<1>10. e.count = inode[k].count + file'[p][k] - file[p][k] - 1
  BY <1>2, <1>8, <1>9
<1>11. e.number # 0 /\ (k = 1 => e.number = ROOTINO)
  BY <1>8, <1>9 DEF Ino, Facts, RootKept
<1> HIDE DEF k, g, e
<1> QED BY <1>1, <1>2, <1>4, <1>5, <1>7, <1>8, <1>9, <1>10, <1>11, LoseGoes

LEMMA IdropGoes == ASSUME Facts, NEW p \in Proc, Idrop(p) PROVE Goes(p)
<1> DEFINE k == u[p].cur
           r == ret[p]
           g == [u[p] EXCEPT !.cur = 0]
           e == [Released(inode[k]) EXCEPT !.dirty = FALSE, !.number = 0, !.count = 0]
<1>1. At(p, "idrop") /\ Return(p) /\ inode' = [inode EXCEPT ![k] = e] /\ WakeLockers(k) /\ Set(p, g)
  BY DEF Idrop
<1>2. UNCHANGED <<dinode, dir, super, updlock, faults, file>>
  BY DEF Idrop, disk
<1>3. pc[p] = "idrop" /\ Config("idrop", r, u[p]) /\ r \in Seq(PC) /\ u[p] \in Frame /\ TypeOK
  BY <1>1, HeldIs
<1>4. r # <<>> /\ g \in Frame /\ k \in Slot /\ Loses(pc[p], r, u[p], Head(r), Tail(r), g, k)
  BY <1>3, IputLose
<1>5. Mine(p, k) >= 1
  BY <1>3, MineIs DEF Owns
<1>6. Head(r) \in PC /\ Tail(r) \in Seq(PC)
  BY <1>3, <1>4, ConfigPC DEF Loses
<1>7. Stepped(p, Head(r), Tail(r), g)
  BY <1>1, <1>3, <1>4, <1>6, EnterSteps DEF Return
<1>8. inode[k] \in Inode /\ inode[k].count = 1 /\ k # 1 /\ file[p][k] \in Nat /\ file \in [Proc -> [Slot -> Nat]]
  <2>1. inode[k].count = 1
    BY <1>3 DEF Facts, LastKept, Finishing
  <2>2. k # 1
    BY <1>4, <1>5, <2>1, InUse
  <2> QED BY <1>3, <1>4, <2>1, <2>2, EntryIs, Refers DEF TypeOK
<1>9. e \in Inode /\ e.count = 0 /\ ~e.lock /\ e.number = 0
  BY <1>8, Emptied
<1>10. e.count = inode[k].count + file'[p][k] - file[p][k] - 1
  BY <1>2, <1>8, <1>9
<1> HIDE DEF k, g, e
<1> QED BY <1>1, <1>2, <1>4, <1>5, <1>7, <1>8, <1>9, <1>10, LoseGoes

LEMMA GrantGoes == ASSUME Facts, NEW p \in Proc, Grant(p) PROVE Goes(p)
<1> DEFINE k == u[p].ip
           r == ret[p]
           g == [u[p] EXCEPT !.ip = 0]
           e == Released(inode[k])
<1>1. Goto(p, "end") /\ inode' = [inode EXCEPT ![k] = e] /\ WakeLockers(k) /\ Set(p, g)
      /\ file' = [file EXCEPT ![p][k] = @ + 1]
  BY DEF Grant, prele
<1>2. UNCHANGED <<dinode, dir, super, updlock, faults>>
  BY DEF Grant, disk
<1>3. /\ pc[p] \in {"grant", "granted"} /\ Config(pc[p], r, u[p])
      /\ r \in Seq(PC) /\ u[p] \in Frame /\ TypeOK
  <2>1. CASE At(p, "grant")
    BY <2>1, HeldIs
  <2>2. CASE At(p, "granted")
    BY <2>2, HeldIs
  <2> QED BY <2>1, <2>2 DEF Grant
<1>4. g \in Frame /\ k \in Slot /\ Loses(pc[p], r, u[p], "end", r, g, k)
  BY <1>3, GrantLose
<1>5. Mine(p, k) >= 1
  BY MineIs
<1>6. "end" \in PC
  BY DEF PC
<1>7. Stepped(p, "end", r, g)
  BY <1>1, <1>3, <1>4, <1>6, EnterSteps DEF Goto
<1>8. inode[k] \in Inode /\ inode[k].count \in Nat /\ inode[k].count >= 1 /\ inode[k].number \in Ino
      /\ file[p][k] \in Nat /\ file \in [Proc -> [Slot -> Nat]]
  BY <1>3, <1>4, <1>5, EntryIs, InUse, Refers DEF TypeOK
<1>9. e \in Inode /\ e.count = inode[k].count /\ ~e.lock /\ e.number = inode[k].number
  BY <1>8, ReleasedIs
<1>10. /\ file' \in [Proc -> [Slot -> Nat]] /\ \A q \in Proc \ {p} : file'[q] = file[q]
       /\ \A s \in Slot \ {k} : file'[p][s] = file[p][s]
       /\ file'[p][k] = file[p][k] + 1
  BY <1>1, <1>4, <1>8
<1>11. e.count = inode[k].count + file'[p][k] - file[p][k] - 1
  BY <1>8, <1>9, <1>10
<1>12. e.number # 0 /\ (k = 1 => e.number = ROOTINO)
  BY <1>8, <1>9 DEF Ino, Facts, RootKept
<1> HIDE DEF k, g, e
<1> QED BY <1>1, <1>2, <1>4, <1>5, <1>7, <1>9, <1>10, <1>11, <1>12, LoseGoes

LEMMA UpdateGoes == ASSUME Facts, NEW p \in Proc, Update(p) PROVE Goes(p)
<1> DEFINE todo == {s \in Slot : s >= u[p].scan /\ ~inode[s].lock /\ inode[s].count # 0 /\ inode[s].dirty}
           k == Min(todo)
           n == k + 1
           r == ret[p]
           t == <<"update1">> \o r
           g == [u[p] EXCEPT !.cur = k, !.scan = n]
           e == [inode[k] EXCEPT !.count = inode[k].count + 1, !.lock = TRUE]
<1>1. At(p, "update") /\ UNCHANGED <<dinode, dir, super, faults, asleep, file>>
  BY DEF Update, disk
<1>2. pc[p] = "update" /\ Config("update", r, u[p]) /\ r \in Seq(PC) /\ u[p] \in Frame /\ TypeOK
  BY <1>1, HeldIs
<1>3. CASE todo = {}
  <2>1. Return(p) /\ UNCHANGED <<inode, u>> /\ updlock' = FALSE
    BY <1>3 DEF Update
  <2>2. Shifts(p)
    BY <1>1, <2>1, UpdateNoneShifts DEF Facts
  <2> QED BY <1>1, <2>1, <2>2, StillGoes
<1>4. CASE todo # {}
  <2>1. inode' = [inode EXCEPT ![k] = e] /\ Set(p, g) /\ Call(p, "iupdat", "update1") /\ UNCHANGED updlock
    BY <1>4 DEF Update
  <2>2. k \in todo
    BY <1>4, MinIs
  <2>3. k \in Slot /\ ~inode[k].lock /\ inode[k].count # 0 /\ n \in Nat
    BY <2>2 DEF Slot
  <2>4. "update1" \in PC /\ "iupdat" \in PC
    BY DEF PC, Diskwait
  <2> HIDE DEF todo, k, n
  <2>5. Pushed("update1", r, t) /\ t \in Seq(PC)
    BY <1>2, <2>4, PushSeq DEF Pushed
  <2>6. g \in Frame /\ Gains(pc[p], r, u[p], "iupdat", t, g, k)
    BY <1>2, <2>3, <2>5, UpdateGain
  <2>7. Stepped(p, "iupdat", t, g)
    BY <1>2, <2>1, <2>4, <2>5, <2>6, EnterSteps DEF Call
  <2>8. e \in Inode /\ e.count = inode[k].count + 1 /\ e.lock /\ e.number = inode[k].number
    <3>1. inode[k] \in Inode /\ inode[k].count + 1 \in Int
      BY <2>3, EntryIs
    <3> QED BY <3>1 DEF Inode
  <2>9. e.number # 0 /\ (k = 1 => e.number = ROOTINO)
    BY <2>3, <2>8 DEF Facts, Numbered, RootKept
  <2> HIDE DEF g, t, e
  <2> QED BY <1>1, <2>1, <2>3, <2>6, <2>7, <2>8, <2>9, GainGoes
<1> QED BY <1>3, <1>4

(* A process that finds the lock taken stays where it is.                  *)
LEMMA AwaitGoes ==
  ASSUME Facts, NEW p \in Proc, NEW l, At(p, l), ~Last(l, ret[p]), NEW k \in Slot, inode[k].lock, AwaitLock(p, k),
         UNCHANGED <<dinode, dir, super, updlock, faults, u, file>>
  PROVE  Goes(p)
<1> DEFINE r == ret[p]
           f == u[p]
           e == [inode[k] EXCEPT !.want = TRUE]
<1>1. pc[p] = l /\ Config(l, r, f) /\ r \in Seq(PC) /\ f \in Frame /\ TypeOK
      /\ \A s : Mine(p, s) = Weight(l, r, f, s) /\ (Has(p, s) <=> Holds(l, r, f, s))
  BY HeldIs
<1>2. l \in PC
  BY <1>1, ConfigPC
<1>3. Stepped(p, l, r, f)
  BY <1>1, <1>2 DEF Stepped, AwaitLock, Sleep, TypeOK
<1>4. inode[k] \in Inode /\ file \in [Proc -> [Slot -> Nat]] /\ file[p][k] \in Nat /\ Mine(p, k) \in Nat
      /\ inode[k].count \in Nat
  BY <1>1, EntryIs, Refers DEF TypeOK
<1>5. e \in Inode /\ e.number = inode[k].number /\ e.count = inode[k].count /\ e.lock = inode[k].lock
  BY <1>4 DEF Inode
<1>6. inode' = [inode EXCEPT ![k].want = TRUE] /\ asleep' = [asleep EXCEPT ![p] = k]
  BY DEF AwaitLock, Sleep
<1>7. Awaits' /\ asleep' \in [Proc -> 0..SILOCK]
  BY <1>6, WakeAwait
<1>8. inode' = [inode EXCEPT ![k] = e]
  BY <1>6
<1>9. e.count = inode[k].count + (file'[p][k] + Weight(l, r, f, k)) - (file[p][k] + Mine(p, k))
  BY <1>1, <1>4, <1>5
<1>10. \A s \in Slot \ {k} : Weight(l, r, f, s) = Mine(p, s) /\ file'[p][s] = file[p][s]
  BY <1>1
<1>11. Copies(l) => file'[p][f.cur] > 0
  BY <1>1 DEF Facts, CopyKept, Copies
<1>12. /\ e.count # 0 => e.number # 0
       /\ e.lock => e.count # 0
       /\ k = 1 => e.number = ROOTINO
  BY <1>5 DEF Facts, Numbered, LockUsed, RootKept
<1>13. updlock' \in BOOLEAN
  BY FactTypes
<1>14. \A s \in Slot : inode'[s].lock = inode[s].lock
  BY <1>5, <1>8, FactTypes
<1> HIDE DEF r, f, e
<1>15. file' \in [Proc -> [Slot -> Nat]] /\ \A q \in Proc \ {p} : file'[q] = file[q]
  BY <1>4
<1>16. file[p][k] + Mine(p, k) = 0 /\ inode[k].lock => e.count = inode[k].count /\ e.lock
  BY <1>5
<1>17. ~Last(l, r)
  BY DEF r
<1>18. Effect(p, l, r, f)
  BY <1>1, <1>3, <1>5, <1>7, <1>8, <1>9, <1>10, <1>11, <1>12, <1>13, <1>15, <1>16, <1>17, SlotEffect
<1>19. ASSUME "link" \notin Calls, Locked PROVE LockEffect(p, l, r, f)
  BY <1>1, <1>14, <1>19 DEF LockEffect, Locked
<1> QED BY <1>18, <1>19 DEF Goes

LEMMA IgetWaitGoes == ASSUME Facts, NEW p \in Proc, IgetWait(p) PROVE Goes(p)
<1>1. At(p, "iget") /\ UNCHANGED <<dinode, dir, super, updlock, faults, u, file>>
  BY DEF IgetWait, disk
<1>2. PICK k \in Slot : inode[k].lock /\ AwaitLock(p, k)
  BY DEF IgetWait, Holding
<1>3. ~Last("iget", ret[p])
  BY DEF Last
<1> QED BY <1>1, <1>2, <1>3, AwaitGoes

LEMMA PlockTakes ==
  ASSUME NEW r \in Seq(PC), NEW f \in Frame, Config("plock", r, f)
  PROVE  /\ r # <<>> /\ f.cur \in Slot /\ Config(Head(r), Tail(r), f) /\ ~Last(Head(r), Tail(r)) /\ Copies(Head(r))
         /\ \A s \in Slot : Weight("plock", r, f, s) = 0 /\ Weight(Head(r), Tail(r), f, s) = 0
         /\ \A s \in Slot : ~Holds("plock", r, f, s) /\ (Holds(Head(r), Tail(r), f, s) <=> s = f.cur)
<1>1. r \in {<<"close1">>, <<"rdwr1">>} /\ f.cur \in Slot /\ f.dp = 0 /\ f.ip = 0
  BY DEF Config
<1>2. r # <<>> /\ Head(r) \in {"close1", "rdwr1"} /\ Tail(r) = <<>>
  BY <1>1, Short
<1>3. Config(Head(r), Tail(r), f)
  BY <1>1, <1>2 DEF Config
<1>4. 0 \notin Slot
  BY DEF Slot
<1> QED BY <1>1, <1>2, <1>3, <1>4 DEF Weight, One, Owns, Holds, Last, Copies

LEMMA PlockGoes == ASSUME Facts, NEW p \in Proc, Plock(p) PROVE Goes(p)
<1> DEFINE r == ret[p]
           f == u[p]
           k == f.cur
           m == Head(r)
           t == Tail(r)
           e == [inode[k] EXCEPT !.lock = TRUE]
<1>1. At(p, "plock") /\ UNCHANGED <<dinode, dir, super, updlock, faults, u, file>>
  BY DEF Plock, disk
<1>2. pc[p] = "plock" /\ Config("plock", r, f) /\ r \in Seq(PC) /\ f \in Frame /\ TypeOK
      /\ \A s : Mine(p, s) = Weight("plock", r, f, s) /\ (Has(p, s) <=> Holds("plock", r, f, s))
  BY <1>1, HeldIs
<1>3. /\ r # <<>> /\ k \in Slot /\ Config(m, t, f) /\ ~Last(m, t) /\ Copies(m)
      /\ \A s \in Slot : Weight("plock", r, f, s) = 0 /\ Weight(m, t, f, s) = 0
      /\ \A s \in Slot : ~Holds("plock", r, f, s) /\ (Holds(m, t, f, s) <=> s = k)
  BY <1>2, PlockTakes
<1>4. file[p][k] > 0
  BY <1>2 DEF Facts, CopyKept
<1>5. CASE inode[k].lock
  <2>1. AwaitLock(p, k)
    BY <1>5 DEF Plock
  <2>2. ~Last("plock", r)
    BY DEF Last
  <2> QED BY <1>1, <1>3, <1>5, <2>1, <2>2, AwaitGoes
<1>6. CASE ~inode[k].lock
  <2>1. inode' = [inode EXCEPT ![k].lock = TRUE] /\ Return(p) /\ UNCHANGED asleep
    BY <1>6 DEF Plock
  <2>2. inode[k] \in Inode /\ inode[k].count \in Nat /\ inode[k].count >= 1 /\ inode[k].number \in Ino
        /\ file[p][k] \in Nat /\ file \in [Proc -> [Slot -> Nat]]
    BY <1>2, <1>3, <1>4, EntryIs, InUse, Refers DEF TypeOK
  <2>3. e \in Inode /\ e.number = inode[k].number /\ e.count = inode[k].count /\ e.lock
    BY <2>2 DEF Inode
  <2>4. inode' = [inode EXCEPT ![k] = e]
    BY <2>1
  <2>5. m \in PC /\ t \in Seq(PC)
    BY <1>2, <1>3, ConfigPC
  <2>6. Stepped(p, m, t, f)
    <3>1. Set(p, f)
      BY <1>1, <1>2, Unset
    <3> QED BY <1>2, <2>1, <2>5, <3>1, EnterSteps DEF Return
  <2>7. Awaits'
    <3>1. \A s \in Slot : inode[s].lock => inode'[s] = inode[s]
      BY <1>6, <2>4, FactTypes
    <3> QED BY <1>1, <2>1, <3>1, WakeSame
  <2>8. e.count = inode[k].count + (file'[p][k] + Weight(m, t, f, k)) - (file[p][k] + Mine(p, k))
    BY <1>1, <1>2, <1>3, <2>2, <2>3
  <2>9. \A s \in Slot \ {k} : Weight(m, t, f, s) = Mine(p, s) /\ file'[p][s] = file[p][s]
    BY <1>1, <1>2, <1>3
  <2>10. e.count # 0 /\ e.number # 0 /\ (k = 1 => e.number = ROOTINO)
    BY <2>2, <2>3 DEF Facts, RootKept, Ino
  <2>11. inode'[k].lock /\ \A s \in Slot \ {k} : inode'[s] = inode[s]
    BY <1>3, <2>3, <2>4, FactTypes
  <2>12. file' \in [Proc -> [Slot -> Nat]] /\ file' = file /\ file'[p][k] > 0
    BY <1>1, <1>4, <2>2
  <2>13. updlock' \in BOOLEAN /\ asleep' \in [Proc -> 0..SILOCK]
    BY <1>1, <2>1, FactTypes
  <2>14. \A s \in Slot : Mine(p, s) = 0 /\ ~Has(p, s)
    BY <1>2, <1>3
  <2>15. Copies(m) => file'[p][f.cur] > 0
    BY <2>12
  <2> HIDE DEF r, f, m, t, e, k
  <2>16. Effect(p, m, t, f)
    BY <1>1, <1>3, <1>6, <2>3, <2>4, <2>6, <2>7, <2>8, <2>9, <2>10, <2>12, <2>13, <2>15, SlotEffect
  <2>17. ASSUME "link" \notin Calls, Locked PROVE LockEffect(p, m, t, f)
    BY <1>3, <1>6, <2>11, <2>14 DEF LockEffect
  <2> QED BY <2>16, <2>17 DEF Goes
<1> QED BY <1>5, <1>6

LEMMA LastStays ==
  ASSUME NEW r \in Seq(PC), NEW f \in Frame, Config("iput", r, f), NEW m, NEW t,
         (m \in {"itrunc", "ifree", "idrop"} /\ t = r) \/ (m = "iupdat" /\ Pushed("idrop", r, t))
  PROVE  /\ f.cur \in Slot /\ Config(m, t, f) /\ Last(m, t) /\ ~Copies(m)
         /\ \A s \in Slot : Weight(m, t, f, s) = Weight("iput", r, f, s)
         /\ \A s \in Slot : Holds(m, t, f, s) <=> Holds("iput", r, f, s)
<1>1. IputOf(r, f) /\ f.cur \in Slot
  BY DEF Config
<1>2. CASE m \in {"itrunc", "ifree", "idrop"} /\ t = r
  <2>1. Config(m, t, f)
    BY <1>1, <1>2 DEF Config
  <2> QED BY <1>1, <1>2, <2>1 DEF Weight, One, Owns, Holds, Last, Copies
<1>3. CASE m = "iupdat" /\ Pushed("idrop", r, t)
  <2>1. IupdatOf(t, f)
    BY <1>1, <1>3 DEF Pushed, IupdatOf
  <2>2. Config(m, t, f)
    BY <1>1, <1>3, <2>1 DEF Config
  <2>3. Head(t) = "idrop" /\ t # <<"end">>
    BY <1>3, Short DEF Pushed
  <2> QED BY <1>1, <1>3, <2>2, <2>3 DEF Weight, One, Owns, Holds, Last, Copies
<1> QED BY <1>2, <1>3

LEMMA IputLastGoes == ASSUME Facts, NEW p \in Proc, IputLast(p) PROVE Goes(p)
<1> DEFINE r == ret[p]
           f == u[p]
           k == f.cur
           e == [inode[k] EXCEPT !.lock = TRUE]
<1>1. At(p, "iput") /\ UNCHANGED <<dinode, dir, super, updlock, faults, asleep, u, file>>
      /\ inode[k].count = 1 /\ inode' = [inode EXCEPT ![k].lock = TRUE]
  BY DEF IputLast, disk
<1>2. pc[p] = "iput" /\ Config("iput", r, f) /\ r \in Seq(PC) /\ f \in Frame /\ TypeOK
      /\ \A s : Mine(p, s) = Weight("iput", r, f, s) /\ (Has(p, s) <=> Holds("iput", r, f, s))
  BY <1>1, HeldIs
<1>3. PICK m, t : /\ Enter(p, m, t)
                  /\ (m \in {"itrunc", "ifree", "idrop"} /\ t = r) \/ (m = "iupdat" /\ t = <<"idrop">> \o r)
  BY DEF IputLast, Goto, Call
<1>4. "idrop" \in PC
  BY DEF PC
<1>5. (m \in {"itrunc", "ifree", "idrop"} /\ t = r) \/ (m = "iupdat" /\ Pushed("idrop", r, t))
  BY <1>2, <1>3, <1>4, PushSeq
<1>6. /\ k \in Slot /\ Config(m, t, f) /\ Last(m, t) /\ ~Copies(m)
      /\ \A s \in Slot : Weight(m, t, f, s) = Mine(p, s)
      /\ \A s \in Slot : Holds(m, t, f, s) <=> Has(p, s)
  <2>1. /\ k \in Slot /\ Config(m, t, f) /\ Last(m, t) /\ ~Copies(m)
        /\ \A s \in Slot : Weight(m, t, f, s) = Weight("iput", r, f, s)
        /\ \A s \in Slot : Holds(m, t, f, s) <=> Holds("iput", r, f, s)
    BY <1>2, <1>5, LastStays
  <2> QED BY <1>2, <2>1
<1>7. m \in PC /\ t \in Seq(PC)
  BY <1>2, <1>5, <1>6, ConfigPC DEF Pushed
<1>8. Stepped(p, m, t, f)
  <2>1. Set(p, f)
    BY <1>1, <1>2, Unset
  <2> QED BY <1>2, <1>3, <1>7, <2>1, EnterSteps
<1>9. Mine(p, k) >= 1
  BY <1>2, MineIs DEF Owns
<1>10. inode[k] \in Inode /\ inode[k].count \in Nat /\ inode[k].number \in Ino /\ Mine(p, k) \in Nat
       /\ file[p][k] \in Nat /\ file \in [Proc -> [Slot -> Nat]]
  BY <1>2, <1>6, <1>9, EntryIs, InUse, Refers DEF TypeOK
<1>11. e \in Inode /\ e.number = inode[k].number /\ e.count = 1 /\ e.lock
  BY <1>1, <1>10 DEF Inode
<1>12. inode' = [inode EXCEPT ![k] = e]
  BY <1>1
<1>13. Awaits'
  <2>1. \A s \in Slot : inode[s].lock /\ inode[s].want => inode'[s].lock /\ inode'[s].want
    BY <1>6, <1>10, <1>1, FactTypes DEF Inode
  <2> QED BY <1>1, <2>1, WakeSame
<1>14. e.count = inode[k].count + (file'[p][k] + Weight(m, t, f, k)) - (file[p][k] + Mine(p, k))
  BY <1>1, <1>6, <1>10, <1>11
<1>15. e.number # 0 /\ (k = 1 => e.number = ROOTINO)
  BY <1>10, <1>11 DEF Facts, RootKept, Ino
<1>16. inode'[k].lock /\ \A s \in Slot \ {k} : inode'[s] = inode[s]
  BY <1>6, <1>11, <1>12, FactTypes
<1>17. file' \in [Proc -> [Slot -> Nat]] /\ file' = file
  BY <1>1, <1>10
<1>18. updlock' \in BOOLEAN /\ asleep' \in [Proc -> 0..SILOCK]
  BY <1>1, FactTypes
<1>19. Has(p, k)
  BY <1>2 DEF Holds
<1>20. f.cur = k /\ ~(file[p][k] + Mine(p, k) = 0)
  BY <1>9, <1>10
<1> HIDE DEF r, f, e, k
<1>21. Effect(p, m, t, f)
  <2>1. UNCHANGED <<dinode, dir, super, faults>> /\ k \in Slot /\ e \in Inode
    BY <1>1, <1>6, <1>11
  <2>2. file' \in [Proc -> [Slot -> Nat]] /\ \A q \in Proc \ {p} : file'[q] = file[q]
    BY <1>17
  <2>3. \A s \in Slot \ {k} : Weight(m, t, f, s) = Mine(p, s) /\ file'[p][s] = file[p][s]
    BY <1>6, <1>17
  <2>4. (Last(m, t) => f.cur = k /\ e.count = 1 /\ e.lock) /\ ~Copies(m) /\ e.count # 0
    BY <1>6, <1>11, <1>20
  <2> QED BY <2>1, <2>2, <2>3, <2>4, <1>6, <1>8, <1>12, <1>13, <1>14, <1>15, <1>18, <1>20, SlotEffect
<1>22. ASSUME "link" \notin Calls, Locked PROVE LockEffect(p, m, t, f)
  <2>1. inode[k].lock
    BY <1>6, <1>19, <1>22 DEF Locked
  <2>2. \A s \in Slot : Weight(m, t, f, s) <= 1
    BY <1>6, <1>22 DEF Locked
  <2>3. \A s \in Slot : (inode'[s].lock <=> inode[s].lock)
    BY <2>1, <1>16
  <2> QED BY <1>6, <2>2, <2>3 DEF LockEffect
<1> QED BY <1>21, <1>22 DEF Goes

LEMMA CloseTurns ==
  ASSUME NEW r \in Seq(PC), NEW f \in Frame, Config("close1", r, f), NEW t, Pushed("end", r, t)
  PROVE  /\ f.cur \in Slot /\ Config("iput", t, f) /\ ~Last("iput", t) /\ ~Copies("iput")
         /\ \A s \in Slot : Weight("close1", r, f, s) = 0 /\ Weight("iput", t, f, s) = One(s = f.cur)
         /\ \A s \in Slot : Holds("iput", t, f, s) <=> Holds("close1", r, f, s)
<1>1. r = <<>> /\ f.cur \in Slot /\ f.dp = 0 /\ f.ip = 0
  BY DEF Config
<1>2. IputOf(t, f)
  BY <1>1 DEF Pushed, IputOf
<1>3. Config("iput", t, f)
  BY <1>1, <1>2 DEF Config
<1>4. 0 \notin Slot
  BY DEF Slot
<1> QED BY <1>1, <1>3, <1>4 DEF Weight, One, Owns, Holds, Last, Copies

LEMMA Close1Goes == ASSUME Facts, NEW p \in Proc, Close1(p) PROVE Goes(p)
<1> DEFINE r == ret[p]
           f == u[p]
           k == f.cur
           t == <<"end">> \o r
           e == inode[k]
<1>1. At(p, "close1") /\ UNCHANGED <<inode, dinode, dir, super, updlock, faults, asleep, u>>
      /\ Call(p, "iput", "end") /\ file' = [file EXCEPT ![p][k] = @ - 1]
  BY DEF Close1, disk
<1>2. pc[p] = "close1" /\ Config("close1", r, f) /\ r \in Seq(PC) /\ f \in Frame /\ TypeOK
      /\ \A s : Mine(p, s) = Weight("close1", r, f, s) /\ (Has(p, s) <=> Holds("close1", r, f, s))
  BY <1>1, HeldIs
<1>3. "end" \in PC /\ "iput" \in PC
  BY DEF PC
<1>4. Pushed("end", r, t) /\ t \in Seq(PC)
  BY <1>2, <1>3, PushSeq DEF Pushed
<1>5. /\ k \in Slot /\ Config("iput", t, f) /\ ~Last("iput", t) /\ ~Copies("iput")
      /\ \A s \in Slot : Mine(p, s) = 0 /\ Weight("iput", t, f, s) = One(s = k)
      /\ \A s \in Slot : Holds("iput", t, f, s) <=> Has(p, s)
  BY <1>2, <1>4, CloseTurns
<1>6. Stepped(p, "iput", t, f)
  <2>1. Set(p, f)
    BY <1>1, <1>2, Unset
  <2> QED BY <1>1, <1>2, <1>3, <1>4, <2>1, EnterSteps DEF Call
<1>7. file[p][k] > 0
  BY <1>2 DEF Facts, CopyKept
<1>8. inode[k] \in Inode /\ inode[k].count \in Nat /\ inode[k].count >= 1 /\ inode[k].number \in Ino
      /\ file[p][k] \in Nat /\ file \in [Proc -> [Slot -> Nat]] /\ inode \in [Slot -> Inode]
  BY <1>2, <1>5, <1>7, EntryIs, InUse, Refers DEF TypeOK
<1>9. /\ file' \in [Proc -> [Slot -> Nat]] /\ \A q \in Proc \ {p} : file'[q] = file[q]
      /\ \A s \in Slot \ {k} : file'[p][s] = file[p][s]
      /\ file'[p][k] = file[p][k] - 1
  <2>1. file[p][k] - 1 \in Nat
    BY <1>7, <1>8
  <2>2. file[p] \in [Slot -> Nat]
    BY <1>8
  <2> HIDE DEF k
  <2>3. file' = [file EXCEPT ![p] = [file[p] EXCEPT ![k] = file[p][k] - 1]]
    BY <1>1
  <2>4. [file[p] EXCEPT ![k] = file[p][k] - 1] \in [Slot -> Nat]
    BY <2>1, <2>2
  <2> QED BY <1>5, <1>8, <2>2, <2>3, <2>4
<1>10. One(k = k) = 1 /\ \A s \in Slot \ {k} : One(s = k) = 0
  BY DEF One
<1>11. e.count = inode[k].count + (file'[p][k] + Weight("iput", t, f, k)) - (file[p][k] + Mine(p, k))
  BY <1>5, <1>8, <1>9, <1>10
<1>12. \A s \in Slot \ {k} : Weight("iput", t, f, s) = Mine(p, s) /\ file'[p][s] = file[p][s]
  BY <1>5, <1>9, <1>10
<1>13. inode' = [inode EXCEPT ![k] = e]
  BY <1>1, <1>8
<1>14. Awaits'
  BY <1>1, WakeSame
<1>15. e.count # 0 /\ e.number # 0 /\ (k = 1 => e.number = ROOTINO)
  BY <1>8 DEF Facts, RootKept, Ino
<1>16. updlock' \in BOOLEAN /\ asleep' \in [Proc -> 0..SILOCK]
  BY <1>1, FactTypes
<1>17. ~(file[p][k] + Mine(p, k) = 0) /\ e = inode[k]
  BY <1>5, <1>7, <1>8
<1> HIDE DEF r, f, e, k, t
<1>18. Effect(p, "iput", t, f)
  BY <1>1, <1>5, <1>6, <1>8, <1>9, <1>11, <1>12, <1>13, <1>14, <1>15, <1>16, <1>17, SlotEffect, ZenonT(60)
<1>19. ASSUME "link" \notin Calls, Locked PROVE LockEffect(p, "iput", t, f)
  <2>1. \A s \in Slot : Weight("iput", t, f, s) <= 1
    BY <1>5 DEF One
  <2> QED BY <1>1, <1>5, <2>1 DEF LockEffect
<1> QED BY <1>18, <1>19 DEF Goes

LEMMA RdwrDone ==
  ASSUME NEW r \in Seq(PC), NEW f \in Frame, Config("rdwr", r, f)
  PROVE  /\ f.cur \in Slot /\ Config("end", r, f) /\ ~Last("end", r) /\ ~Copies("end")
         /\ \A s \in Slot : Weight("rdwr", r, f, s) = 0 /\ Weight("end", r, f, s) = 0
         /\ \A s \in Slot : (Holds("rdwr", r, f, s) <=> s = f.cur) /\ ~Holds("end", r, f, s)
<1>1. r = <<>> /\ f.cur \in Slot /\ f.dp = 0 /\ f.ip = 0
  BY DEF Config
<1>2. Config("end", r, f)
  BY <1>1 DEF Config
<1>3. 0 \notin Slot
  BY DEF Slot
<1> QED BY <1>1, <1>2, <1>3 DEF Weight, One, Owns, Holds, Last, Copies

LEMMA RdwrEndGoes == ASSUME Facts, NEW p \in Proc, RdwrEnd(p) PROVE Goes(p)
<1> DEFINE r == ret[p]
           f == u[p]
           k == f.cur
<1>1. At(p, "rdwr") /\ UNCHANGED <<dinode, dir, super, updlock, faults, u, file>> /\ Goto(p, "end") /\ WakeLockers(k)
  BY DEF RdwrEnd, disk
<1>2. PICK moved \in BOOLEAN :
        inode' = [inode EXCEPT ![k] = [Released(inode[k]) EXCEPT !.dirty = inode[k].dirty \/ moved]]
  BY DEF RdwrEnd
<1> DEFINE b == inode[k].dirty \/ moved
           e == [Released(inode[k]) EXCEPT !.dirty = b]
<1>3. pc[p] = "rdwr" /\ Config("rdwr", r, f) /\ r \in Seq(PC) /\ f \in Frame /\ TypeOK
      /\ \A s : Mine(p, s) = Weight("rdwr", r, f, s) /\ (Has(p, s) <=> Holds("rdwr", r, f, s))
  BY <1>1, HeldIs
<1>4. /\ k \in Slot /\ Config("end", r, f) /\ ~Last("end", r) /\ ~Copies("end")
      /\ \A s \in Slot : Weight("rdwr", r, f, s) = 0 /\ Weight("end", r, f, s) = 0
      /\ \A s \in Slot : (Holds("rdwr", r, f, s) <=> s = k) /\ ~Holds("end", r, f, s)
  BY <1>3, RdwrDone
<1>5. "end" \in PC
  BY DEF PC
<1>6. Stepped(p, "end", r, f)
  <2>1. Set(p, f)
    BY <1>1, <1>3, Unset
  <2> QED BY <1>1, <1>3, <1>5, <2>1, EnterSteps DEF Goto
<1>7. file[p][k] > 0
  BY <1>3 DEF Facts, CopyKept
<1>8. inode[k] \in Inode /\ inode[k].count \in Nat /\ inode[k].count >= 1 /\ inode[k].number \in Ino
      /\ file[p][k] \in Nat /\ file \in [Proc -> [Slot -> Nat]]
  BY <1>3, <1>4, <1>7, EntryIs, InUse, Refers DEF TypeOK
<1>9. b \in BOOLEAN
  BY <1>2, <1>4, EntryIs
<1> HIDE DEF b
<1>10. e \in Inode /\ e.number = inode[k].number /\ e.count = inode[k].count /\ ~e.lock
  BY <1>8, <1>9, ReleasedDirty
<1>11. inode' = [inode EXCEPT ![k] = e]
  BY <1>2 DEF b
<1> HIDE DEF e
<1>12. Awaits' /\ asleep' \in [Proc -> 0..SILOCK]
  <2> HIDE DEF k
  <2> QED BY <1>1, <1>4, <1>11, WakeRelease
<1>13. \A s \in Slot : Mine(p, s) = 0 /\ (Has(p, s) <=> s = k)
  BY <1>3, <1>4
<1>14. e.count = inode[k].count + (file'[p][k] + Weight("end", r, f, k)) - (file[p][k] + Mine(p, k))
  BY <1>1, <1>4, <1>8, <1>10, <1>13
<1>15. e.count # 0 /\ e.number # 0 /\ (k = 1 => e.number = ROOTINO)
  BY <1>8, <1>10 DEF Facts, RootKept, Ino
<1>16. \A s \in Slot \ {k} : Weight("end", r, f, s) = Mine(p, s) /\ file'[p][s] = file[p][s]
  BY <1>1, <1>4, <1>13
<1>17. file' \in [Proc -> [Slot -> Nat]] /\ \A q \in Proc \ {p} : file'[q] = file[q]
  BY <1>1, <1>8
<1>18. updlock' \in BOOLEAN
  BY <1>1, FactTypes
<1>19. ~(file[p][k] + Mine(p, k) = 0)
  BY <1>4, <1>7, <1>8, <1>13
<1>20. ~inode'[k].lock /\ \A s \in Slot \ {k} : inode'[s] = inode[s]
  BY <1>4, <1>10, <1>11, FactTypes
<1>21. UNCHANGED <<dinode, dir, super, faults>>
  BY <1>1
<1> HIDE DEF r, f, k
<1>22. Effect(p, "end", r, f)
  BY <1>4, <1>6, <1>10, <1>11, <1>12, <1>14, <1>15, <1>16, <1>17, <1>18, <1>19, <1>21, SlotEffect
<1>23. ASSUME "link" \notin Calls, Locked PROVE LockEffect(p, "end", r, f)
  BY <1>4, <1>13, <1>20 DEF LockEffect
<1> QED BY <1>22, <1>23 DEF Goes

(* The registers g that link() takes to the new name.                      *)
Turned(f, g) ==
  /\ ByName /\ "link" \in Calls /\ f.dp = 0 /\ f.ip = 0 /\ f.to \in Name /\ f.cur \in Slot
  /\ g = [f EXCEPT !.ip = f.cur, !.cur = 0, !.flag = 1, !.name = f.to]

LEMMA LinkReady ==
  ASSUME NEW r \in Seq(PC), NEW f \in Frame, Config("link1", r, f), f.cur # 0
  PROVE  /\ r = <<>> /\ ByName /\ "link" \in Calls /\ f.dp = 0 /\ f.ip = 0 /\ f.to \in Name /\ f.cur \in Slot
BY Registers DEF Config

LEMMA LinkTurns ==
  ASSUME NEW f \in Frame, NEW g, Turned(f, g)
  PROVE  /\ g \in Frame /\ Config("namei", <<"link2">>, g) /\ ~Last("namei", <<"link2">>)
         /\ ~Copies("namei")
         /\ \A s \in Slot : Weight("namei", <<"link2">>, g, s) = Weight("link1", <<>>, f, s)
<1>1. f.dp = 0 /\ f.ip = 0 /\ f.to \in Name /\ f.cur \in Slot /\ "link" \in Calls /\ ByName
  BY DEF Turned
<1>2. 1 \in 0..2
  BY Flags
<1> DEFINE x == [f EXCEPT !.ip = f.cur, !.cur = 0]
<1>3. x \in Frame /\ x.to = f.to /\ x.dp = 0 /\ x.ip = f.cur /\ x.cur = 0
  BY <1>1 DEF Frame
<1>4. g = [x EXCEPT !.flag = 1, !.name = f.to]
  BY DEF Turned
<1> HIDE DEF x
<1>5. g \in Frame /\ g.name = f.to /\ g.to = f.to /\ g.flag = 1 /\ g.dp = 0 /\ g.ip = f.cur /\ g.cur = 0
  BY <1>1, <1>2, <1>3, <1>4 DEF Frame
<1>7. NameiOf(<<"link2">>, g)
  BY <1>1, <1>5 DEF NameiOf
<1>8. Config("namei", <<"link2">>, g)
  BY <1>5, <1>7 DEF Config
<1>9. 0 \notin Slot
  BY DEF Slot
<1> QED BY <1>1, <1>5, <1>8, <1>9 DEF Weight, One, Owns, Last, Copies

LEMMA Link1Goes == ASSUME Facts, NEW p \in Proc, Link1(p) PROVE Goes(p)
<1> DEFINE r == ret[p]
           f == u[p]
           k == f.cur
           t == <<"link2">> \o r
           g == [f EXCEPT !.ip = f.cur, !.cur = 0, !.flag = 1, !.name = f.to]
           e == Released(inode[k])
<1>1. At(p, "link1") /\ UNCHANGED <<dinode, dir, super, updlock, faults, file>>
  BY DEF Link1, disk
<1>2. CASE UNCHANGED <<inode, asleep, u>>
  <2>1. Shifts(p)
    BY <1>2, Link1Shifts DEF Facts
  <2>2. updlock' \in BOOLEAN
    BY <1>1, FactTypes
  <2> QED BY <1>1, <1>2, <2>1, <2>2, StillGoes
<1>3. CASE k # 0 /\ prele(k) /\ Set(p, g) /\ Call(p, "namei", "link2")
  <2>1. inode' = [inode EXCEPT ![k] = e] /\ WakeLockers(k)
    BY <1>3 DEF prele
  <2>2. pc[p] = "link1" /\ Config("link1", r, f) /\ r \in Seq(PC) /\ f \in Frame /\ TypeOK
        /\ \A s : Mine(p, s) = Weight("link1", r, f, s)
    BY <1>1, HeldIs
  <2>3. "link2" \in PC /\ "namei" \in PC
    BY DEF PC
  <2>4. Pushed("link2", r, t) /\ t \in Seq(PC)
    BY <2>2, <2>3, PushSeq DEF Pushed
  <2>5. /\ k \in Slot /\ g \in Frame /\ "link" \in Calls /\ Config("namei", t, g) /\ ~Last("namei", t)
        /\ ~Copies("namei")
        /\ \A s \in Slot : Weight("namei", t, g, s) = Weight("link1", r, f, s)
    <3>1. r = <<>> /\ k \in Slot /\ Turned(f, g)
      BY <1>3, <2>2, LinkReady DEF Turned
    <3>2. t = <<"link2">>
      BY <3>1
    <3>3. "link" \in Calls
      BY <3>1 DEF Turned
    <3> HIDE DEF f, r, g, t
    <3> QED BY <2>2, <3>1, <3>2, <3>3, LinkTurns
  <2>6. \A s \in Slot : Weight("namei", t, g, s) = Mine(p, s)
    BY <2>2, <2>5
  <2>7. Stepped(p, "namei", t, g)
    BY <1>3, <2>2, <2>3, <2>4, <2>5, EnterSteps DEF Call
  <2>8. Mine(p, k) >= 1
    BY <2>2, MineIs DEF Owns
  <2>9. inode[k] \in Inode /\ inode[k].count \in Nat /\ inode[k].count >= 1 /\ inode[k].number \in Ino
        /\ Mine(p, k) \in Nat /\ file[p][k] \in Nat /\ file \in [Proc -> [Slot -> Nat]]
    BY <2>2, <2>5, <2>8, EntryIs, InUse, Refers DEF TypeOK
  <2>10. e \in Inode /\ e.number = inode[k].number /\ e.count = inode[k].count /\ ~e.lock
    BY <2>9, ReleasedIs
  <2> HIDE DEF e, g, t, k
  <2>11. Awaits' /\ asleep' \in [Proc -> 0..SILOCK]
    BY <1>1, <2>1, <2>5, WakeRelease
  <2>12. e.count = inode[k].count + (file'[p][k] + Weight("namei", t, g, k)) - (file[p][k] + Mine(p, k))
    BY <1>1, <2>5, <2>6, <2>9, <2>10
  <2>13. e.count # 0 /\ e.number # 0 /\ (k = 1 => e.number = ROOTINO)
    BY <2>9, <2>10 DEF Facts, RootKept, Ino
  <2>14. file' \in [Proc -> [Slot -> Nat]] /\ \A q \in Proc \ {p} : file'[q] = file[q]
    BY <1>1, <2>9
  <2>15. \A s \in Slot \ {k} : Weight("namei", t, g, s) = Mine(p, s) /\ file'[p][s] = file[p][s]
    BY <1>1, <2>6
  <2>16. ~(file[p][k] + Mine(p, k) = 0)
    BY <2>8, <2>9
  <2>17. updlock' \in BOOLEAN /\ UNCHANGED <<dinode, dir, super, faults>>
    BY <1>1, FactTypes
  <2>18. Effect(p, "namei", t, g)
    BY <2>1, <2>5, <2>7, <2>10, <2>11, <2>12, <2>13, <2>14, <2>15, <2>16, <2>17, SlotEffect
  <2> QED BY <2>5, <2>18 DEF Goes
<1> QED BY <1>2, <1>3 DEF Link1

-----------------------------------------------------------------------------
(* pipe() stores i_count and i_flag. Where no call by name is made, nobody *)
(* else refers to an inode that is being read or that ialloc has just      *)
(* found free, so the stores change what they should; and every open file  *)
(* is of an inode that has a mode.                                         *)
Fetched(p) == pc[p] = "iread" \/ (pc[p] = "pipe" /\ u[p].cur # 0)
Fresh ==
  ~ByName =>
    /\ \A s \in Slot : inode[s].mode = "none" /\ inode[s].count # 0 => inode[s].count = 1 /\ inode[s].lock
    /\ \A p \in Proc : Fetched(p) => inode[u[p].cur].count = 1 /\ inode[u[p].cur].lock
    /\ \A p \in Proc, s \in Slot : file[p][s] > 0 => inode[s].mode # "none"

Piped(x) == [x EXCEPT !.count = 2, !.mode = "fifo", !.lock = FALSE, !.want = FALSE, !.dirty = TRUE]

LEMMA PipedIs ==
  ASSUME NEW x \in Inode
  PROVE  Piped(x) \in Inode /\ Piped(x).number = x.number /\ Piped(x).count = 2 /\ ~Piped(x).lock
         /\ Piped(x).mode = "fifo"
<1> DEFINE w == [x EXCEPT !.count = 2]
           y == [w EXCEPT !.mode = "fifo"]
           z == [y EXCEPT !.lock = FALSE, !.want = FALSE]
           e == [z EXCEPT !.dirty = TRUE]
<1>1. w \in Inode /\ w.count = 2 /\ w.number = x.number
  BY DEF Inode
<1> HIDE DEF w
<1>2. y \in Inode /\ y.count = 2 /\ y.number = x.number /\ y.mode = "fifo"
  BY <1>1 DEF Inode, Mode
<1> HIDE DEF y
<1>3. z \in Inode /\ z.count = 2 /\ z.number = x.number /\ z.mode = "fifo" /\ ~z.lock
  BY <1>2 DEF Inode
<1> HIDE DEF z
<1>4. e \in Inode /\ e.number = x.number /\ e.count = 2 /\ ~e.lock /\ e.mode = "fifo"
  BY <1>3 DEF Inode
<1>5. Piped(x) = e
  BY DEF Piped, w, y, z
<1> QED BY <1>4, <1>5

LEMMA PipeGoes == ASSUME Facts, NEW p \in Proc, Pipe(p) PROVE Goes(p)
<1>1. Shifts(p)
  BY PipeShifts DEF Facts
<1>2. UNCHANGED <<inode, dinode, dir, super, asleep, faults, file>> /\ updlock' \in BOOLEAN
  BY DEF Pipe, disk, Facts, TypeOK, Begin
<1> QED BY <1>1, <1>2, StillGoes

LEMMA PipeFailsGoes == ASSUME Facts, NEW p \in Proc, PipeFails(p) PROVE Goes(p)
<1>1. Shifts(p)
  BY PipeFailsShifts DEF Facts
<1>2. UNCHANGED <<inode, dinode, dir, super, asleep, faults, file>> /\ updlock' \in BOOLEAN
  BY DEF PipeFails, disk, Facts, TypeOK
<1> QED BY <1>1, <1>2, StillGoes

LEMMA PipeMadeGoes == ASSUME Facts, Fresh, NEW p \in Proc, PipeMade(p) PROVE Goes(p)
<1> DEFINE r == ret[p]
           f == u[p]
           k == f.cur
           t == <<"end">> \o r
           e == Piped(inode[k])
<1>1. /\ At(p, "pipe") /\ UNCHANGED <<dinode, dir, super, updlock, faults, asleep, u>>
      /\ k # 0 /\ Call(p, "iupdat", "end") /\ file' = [file EXCEPT ![p][k] = @ + 2]
      /\ inode' = [inode EXCEPT ![k] = e]
  BY DEF PipeMade, disk, Piped
<1>2. pc[p] = "pipe" /\ Config("pipe", r, f) /\ r \in Seq(PC) /\ f \in Frame /\ TypeOK
      /\ \A s : Mine(p, s) = Weight("pipe", r, f, s) /\ (Has(p, s) <=> Holds("pipe", r, f, s))
  BY <1>1, HeldIs
<1>3. "end" \in PC /\ "iupdat" \in PC
  BY DEF PC, Diskwait
<1>4. Pushed("end", r, t) /\ t \in Seq(PC)
  BY <1>2, <1>3, PushSeq DEF Pushed
<1>5. /\ k \in Slot /\ Config("iupdat", t, f) /\ ~Last("iupdat", t) /\ ~Copies("iupdat")
      /\ \A s \in Slot : Weight("iupdat", t, f, s) = 0 /\ ~Holds("iupdat", t, f, s)
                         /\ Mine(p, s) = One(k = s) /\ (Has(p, s) <=> k = s)
  <2>1. /\ Config("iupdat", t, f) /\ k \in Slot
        /\ \A s \in Slot : Weight("iupdat", t, f, s) = 0 /\ Weight("pipe", r, f, s) = One(k = s)
        /\ \A s \in Slot : ~Holds("iupdat", t, f, s) /\ (Holds("pipe", r, f, s) <=> k = s)
        /\ ~Last("iupdat", t) /\ ~Copies("iupdat")
    <3>1. Config("pipe", r, f) /\ r \in Seq(PC) /\ f \in Frame /\ Pushed("end", r, t) /\ f.cur # 0
      BY <1>1, <1>2, <1>4
    <3> HIDE DEF r, f, t
    <3> QED BY <3>1, PipeWrites
  <2> HIDE DEF r, f, t
  <2> QED BY <1>2, <2>1
<1>6. Stepped(p, "iupdat", t, f)
  <2>1. Set(p, f)
    BY <1>1, <1>2, Unset
  <2> QED BY <1>1, <1>2, <1>3, <1>4, <2>1, EnterSteps DEF Call
<1>7. ~ByName
  BY <1>2 DEF Config
<1>8. inode[k].count = 1 /\ inode[k].lock
  BY <1>1, <1>2, <1>7 DEF Fresh, Fetched
<1>9. Mine(p, k) = 1 /\ \A s \in Slot \ {k} : Mine(p, s) = 0
  BY <1>5 DEF One
<1>10. inode[k] \in Inode /\ inode[k].number \in Ino /\ k # 1 /\ file[p][k] \in Nat /\ file \in [Proc -> [Slot -> Nat]]
  <2>1. Mine(p, k) >= 1
    BY <1>9
  <2> HIDE DEF k
  <2>2. inode[k].number \in Ino /\ (k = 1 => inode[k].count >= 2)
    BY <1>5, <2>1, InUse
  <2> QED BY <1>2, <1>5, <1>8, <2>2, EntryIs, Refers DEF TypeOK
<1>11. e \in Inode /\ e.number = inode[k].number /\ e.count = 2 /\ ~e.lock
  <2>1. inode[k] \in Inode
    BY <1>10
  <2> HIDE DEF k
  <2> QED BY <2>1, PipedIs
<1>12. /\ file' \in [Proc -> [Slot -> Nat]] /\ \A q \in Proc \ {p} : file'[q] = file[q]
       /\ \A s \in Slot \ {k} : file'[p][s] = file[p][s]
       /\ file'[p][k] = file[p][k] + 2
  <2>1. file[p][k] + 2 \in Nat
    BY <1>10
  <2>2. file[p] \in [Slot -> Nat]
    BY <1>10
  <2> HIDE DEF k
  <2>3. file' = [file EXCEPT ![p] = [file[p] EXCEPT ![k] = file[p][k] + 2]]
    BY <1>1
  <2>4. [file[p] EXCEPT ![k] = file[p][k] + 2] \in [Slot -> Nat]
    BY <2>1, <2>2
  <2> QED BY <1>5, <1>10, <2>2, <2>3, <2>4
<1>13. e.count = inode[k].count + (file'[p][k] + Weight("iupdat", t, f, k)) - (file[p][k] + Mine(p, k))
  BY <1>5, <1>8, <1>9, <1>10, <1>11, <1>12
<1>14. \A s \in Slot \ {k} : Weight("iupdat", t, f, s) = Mine(p, s) /\ file'[p][s] = file[p][s]
  BY <1>5, <1>9, <1>12
<1>15. Awaits'
  BY <1>1, <1>7 DEF Facts, Awaits, ByName
<1>16. e.count # 0 /\ e.number # 0 /\ (k = 1 => e.number = ROOTINO)
  BY <1>10, <1>11 DEF Ino
<1>17. updlock' \in BOOLEAN /\ asleep' \in [Proc -> 0..SILOCK]
  BY <1>1, FactTypes
<1>18. ~(file[p][k] + Mine(p, k) = 0)
  BY <1>9, <1>10
<1>19. ~inode'[k].lock /\ \A s \in Slot \ {k} : inode'[s] = inode[s]
  BY <1>1, <1>5, <1>11, FactTypes
<1> HIDE DEF r, f, e, k, t
<1>20. Effect(p, "iupdat", t, f)
  BY <1>1, <1>5, <1>6, <1>11, <1>12, <1>13, <1>14, <1>15, <1>16, <1>17, <1>18, SlotEffect, ZenonT(60)
<1>21. LockEffect(p, "iupdat", t, f)
  BY <1>5, <1>19 DEF LockEffect
<1> QED BY <1>20, <1>21 DEF Goes

LEMMA NextGoes ==
  ASSUME PipesApart, Facts, Fresh, NEW p \in Proc, Enters(p) \/ Kernel(p)
  PROVE  Goes(p)
<1>1. CASE Enters(p)
  BY <1>1, OpenGoes, CreatGoes, LinkGoes, UnlinkGoes, PipeGoes, CloseGoes, RdwrGoes, SyncGoes DEF Enters
<1>2. CASE Inodes(p)
  BY <1>2, IgetWaitGoes, IgetFoundGoes, IgetFullGoes, IgetReadGoes, IreadGoes, PlockGoes, IputSharedGoes,
     IputLastGoes, IfreeGoes, IdropGoes, IupdatGoes DEF Inodes
<1>3. CASE Allocation(p)
  BY <1>3, IallocGoes, IallocTakeGoes, IallocGotGoes, IallocStaleGoes, IallocSearchGoes, IscanGoes, IscanEndGoes
     DEF Allocation
<1>4. CASE Names(p)
  BY <1>4, NameiGoes, LookupGoes, SearchGoes, ChildGoes DEF Names
<1>5. CASE Opening(p)
  BY <1>5, OpenedGoes, TruncGoes, TruncatedGoes, GrantGoes, DenyGoes, MaknodeGoes, WdirGoes, WdirEndGoes
     DEF Opening
<1>6. CASE Linking(p)
  BY <1>6, Link1Goes, Link2Goes, LinkEntryGoes, LinkedGoes, LinkOutGoes, Unlink1Goes, Unlink2Goes,
     UnlinkEntryGoes, UnlinkEndGoes DEF Linking
<1>7. CASE Using(p)
  BY <1>7, PipeMadeGoes, PipeFailsGoes, Close1Goes, Rdwr1Goes, RdwrEndGoes, UpdateGoes, Update1Goes DEF Using
<1>8. CASE End(p)
  BY <1>8, EndGoes
<1> QED BY <1>1, <1>2, <1>3, <1>4, <1>5, <1>6, <1>7, <1>8 DEF Kernel

(* Fresh after a step of p, but for the others that have fetched an inode. *)
FreshTurn(p) ==
  /\ \A s \in Slot : inode'[s].mode = "none" /\ inode'[s].count # 0 => inode'[s].count = 1 /\ inode'[s].lock
  /\ Fetched(p)' => inode'[u'[p].cur].count = 1 /\ inode'[u'[p].cur].lock
  /\ \A q \in Proc, s \in Slot : file'[q][s] > 0 => inode'[s].mode # "none"

LEMMA FetchedOwn ==
  ASSUME Facts, NEW p \in Proc, Fetched(p)
  PROVE  u[p].cur \in Slot /\ Mine(p, u[p].cur) >= 1
<1>1. Config(pc[p], ret[p], u[p]) /\ u[p] \in Frame
  BY DEF Facts, Controlled, TypeOK
<1>2. u[p].cur \in Slot
  BY <1>1, Registers DEF Config, Fetched
<1>3. Owns(pc[p], ret[p])
  BY DEF Fetched, Owns
<1> QED BY <1>2, <1>3, MineIs

LEMMA FreshKeeps ==
  ASSUME Facts, Fresh, ~ByName, NEW p \in Proc, NEW m, NEW t, NEW g, Effect(p, m, t, g), FreshTurn(p)
  PROVE  Fresh'
<1>1. Stepped(p, m, t, g) /\ TypeOK
  BY DEF Effect, Facts
<1>2. ASSUME NEW q \in Proc, Fetched(q)' PROVE inode'[u'[q].cur].count = 1 /\ inode'[u'[q].cur].lock
  <2>1. CASE q = p
    BY <1>2, <2>1 DEF FreshTurn
  <2>2. CASE q # p
    <3> DEFINE s == u[q].cur
    <3>1. Fetched(q) /\ u'[q].cur = s
      BY <1>1, <1>2, <2>2, SteppedOne DEF Fetched
    <3>2. s \in Slot /\ Mine(q, s) >= 1 /\ inode[s].count = 1 /\ inode[s].lock
      BY <3>1, FetchedOwn DEF Fresh
    <3> HIDE DEF s
    <3>3. inode[s].count >= file[p][s] + Mine(p, s) + file[q][s] + Mine(q, s)
      BY <2>2, <3>2, Counts DEF Facts
    <3>4. file[p][s] \in Nat /\ Mine(p, s) \in Nat /\ file[q][s] \in Nat /\ Mine(q, s) \in Nat
      BY <3>2, Refers DEF Facts
    <3>5. file[p][s] + Mine(p, s) = 0
      BY <3>2, <3>3, <3>4
    <3> QED BY <3>1, <3>2, <3>5 DEF Effect
  <2> QED BY <2>1, <2>2
<1> QED BY <1>2 DEF Fresh, FreshTurn, ByName

LEMMA ReturnsTo ==
  ASSUME PipesApart, ~ByName, NEW r, NEW f
  PROVE  /\ IputOf(r, f) => Head(r) \in {"ialgot", "ialloop", "end", "update"}
         /\ IupdatOf(r, f) => Head(r) \in {"idrop", "ialstale", "update1", "end"}
<1>1. \A n : ~NameiOf(n, f)
  BY DEF NameiOf
<1>2. ~Unlinking(f) /\ "link" \notin Calls
  BY DEF Unlinking, PipesApart
<1> QED BY <1>1, <1>2, Short DEF IputOf, IupdatOf

LEMMA FreshSame ==
  ASSUME Facts, Fresh, ~ByName, NEW p \in Proc, ~Fetched(p)',
         \A s \in Slot : inode'[s].mode = inode[s].mode /\ inode'[s].count = inode[s].count
                         /\ (inode[s].lock => inode'[s].lock),
         \A q \in Proc, s \in Slot : file'[q][s] > 0 => file[q][s] > 0
  PROVE  FreshTurn(p)
BY DEF Fresh, FreshTurn

LEMMA FreshStill ==
  ASSUME Facts, Fresh, ~ByName, NEW p \in Proc, NEW m, NEW t, Enter(p, m, t), m \notin {"iread", "pipe"},
         UNCHANGED <<inode, file>>
  PROVE  FreshTurn(p)
<1>1. pc'[p] = m
  BY DEF Enter, Facts, TypeOK
<1>2. ~Fetched(p)'
  BY <1>1 DEF Fetched
<1> QED BY <1>2, FreshSame

LEMMA FreshSlot ==
  ASSUME Facts, Fresh, ~ByName, NEW p \in Proc, NEW k \in Slot, NEW e, inode' = [inode EXCEPT ![k] = e],
         e.mode = "none" /\ e.count # 0 => e.count = 1 /\ e.lock,
         Fetched(p)' => u'[p].cur = k /\ e.count = 1 /\ e.lock,
         \A q \in Proc : file'[q][k] > 0 => e.mode # "none",
         \A q \in Proc, s \in Slot \ {k} : file'[q][s] > 0 => file[q][s] > 0
  PROVE  FreshTurn(p)
<1>1. inode'[k] = e /\ \A s \in Slot \ {k} : inode'[s] = inode[s]
  BY FactTypes
<1> QED BY <1>1 DEF Fresh, FreshTurn

(* A process that has the only reference of an entry: no file is open.     *)
LEMMA NoFiles ==
  ASSUME Facts, NEW p \in Proc, NEW k \in Slot, Mine(p, k) >= 1, inode[k].count = 1
  PROVE  \A q \in Proc : ~(file[q][k] > 0)
<1>1. ASSUME NEW q \in Proc PROVE file[q][k] = 0
  <2>1. file[q][k] \in Nat /\ Mine(q, k) \in Nat /\ file[p][k] \in Nat /\ Mine(p, k) \in Nat
    BY Refers DEF Facts
  <2>2. CASE q = p
    <3>1. inode[k].count >= One(k = 1) + file[p][k] + Mine(p, k) /\ One(k = 1) \in {0, 1}
      BY Counts DEF Facts, One
    <3> QED BY <2>1, <2>2, <3>1
  <2>3. CASE q # p
    <3>1. inode[k].count >= file[p][k] + Mine(p, k) + file[q][k] + Mine(q, k)
      BY <2>3, Counts DEF Facts
    <3> QED BY <2>1, <3>1
  <2> QED BY <2>2, <2>3
<1> QED BY <1>1

LEMMA IgetFoundFresh ==
  ASSUME PipesApart, Facts, Fresh, ~ByName, NEW p \in Proc, IgetFound(p)
  PROVE  FreshTurn(p)
<1>1. At(p, "iget") /\ Return(p) /\ UNCHANGED file
  BY DEF IgetFound
<1>2. PICK k \in Slot :
        /\ inode[k].number = u[p].ino /\ ~inode[k].lock
        /\ inode' = [inode EXCEPT ![k] = [inode[k] EXCEPT !.count = inode[k].count + 1, !.lock = TRUE]]
        /\ Set(p, [u[p] EXCEPT !.cur = k])
  BY DEF IgetFound, Holding
<1> DEFINE e == [inode[k] EXCEPT !.count = inode[k].count + 1, !.lock = TRUE]
<1>3. ~Fetched(p)'
  <2>1. Config("iget", ret[p], u[p]) /\ TypeOK
    BY <1>1, HeldIs
  <2>2. Head(ret[p]) = "ialgot"
    BY <2>1, PipeCallers DEF Config
  <2> QED BY <1>1, <2>1, <2>2 DEF Return, Enter, TypeOK, Fetched
<1>4. inode[k] \in Inode /\ inode[k].count \in Nat
  BY EntryIs
<1>5. e.mode = inode[k].mode /\ e.count = inode[k].count + 1 /\ e.lock
  BY <1>4 DEF Inode
<1>6. e.mode = "none" => e.count = 1
  BY <1>2, <1>4, <1>5 DEF Fresh
<1>7. \A q \in Proc : file'[q][k] > 0 => e.mode # "none"
  BY <1>1, <1>5 DEF Fresh
<1> HIDE DEF e
<1> QED BY <1>1, <1>2, <1>3, <1>5, <1>6, <1>7, FreshSlot DEF e

LEMMA IgetReadFresh ==
  ASSUME Facts, Fresh, ~ByName, NEW p \in Proc, IgetRead(p)
  PROVE  FreshTurn(p)
<1> DEFINE k == Min(Unused)
           e == [inode[k] EXCEPT !.number = u[p].ino, !.count = 1, !.lock = TRUE, !.want = FALSE, !.dirty = FALSE]
<1>1. At(p, "iget") /\ UNCHANGED file /\ inode' = [inode EXCEPT ![k] = e] /\ Unused # {}
      /\ Set(p, [u[p] EXCEPT !.cur = k])
  BY DEF IgetRead
<1>2. k \in Slot
  BY <1>1, MinIs DEF Unused
<1> HIDE DEF k
<1>3. u'[p].cur = k
  BY <1>1 DEF Set, Facts, TypeOK, Frame
<1>4. Config("iget", ret[p], u[p]) /\ u[p].ino \in Ino
  BY <1>1, HeldIs DEF Config, IgetOf
<1>5. inode[k] \in Inode
  BY <1>2, EntryIs
<1>6. e \in Inode /\ e.count = 1 /\ e.lock /\ e.number = u[p].ino
  BY <1>4, <1>5, Renumbered
<1>7. e.mode = inode[k].mode
  BY <1>5 DEF Inode
<1>8. \A q \in Proc : file'[q][k] > 0 => e.mode # "none"
  BY <1>1, <1>2, <1>7 DEF Fresh
<1> HIDE DEF e
<1> QED BY <1>1, <1>2, <1>3, <1>6, <1>8, FreshSlot

LEMMA IreadFresh ==
  ASSUME PipesApart, Facts, Fresh, ~ByName, NEW p \in Proc, Iread(p)
  PROVE  FreshTurn(p)
<1>1. At(p, "iread") /\ UNCHANGED file
  BY DEF Iread
<1>2. Config("iread", ret[p], u[p]) /\ TypeOK /\ pc[p] = "iread"
  BY <1>1, HeldIs
<1>3. CASE UNCHANGED inode /\ Goto(p, "iput")
  BY <1>1, <1>3, FreshStill DEF Goto
<1> DEFINE k == u[p].cur
           d == dinode[inode[k].number]
           e == [inode[k] EXCEPT !.mode = d.mode, !.nlink = d.nlink]
<1>4. CASE Return(p) /\ inode' = [inode EXCEPT ![k] = e]
  <2>2. Fetched(p)
    BY <1>2 DEF Fetched
  <2>3. k \in Slot /\ Mine(p, k) >= 1
    BY <2>2, FetchedOwn
  <2>4. inode[k].count = 1 /\ inode[k].lock
    BY <2>2 DEF Fresh
  <2>5. ~Fetched(p)'
    <3>1. Head(ret[p]) = "ialgot"
      BY <1>2, PipeCallers DEF Config
    <3> QED BY <1>2, <1>4, <3>1 DEF Return, Enter, TypeOK, Fetched
  <2>6. inode' = [inode EXCEPT ![k] = e]
    BY <1>4
  <2> HIDE DEF k, d
  <2>7. e.count = 1 /\ e.lock
    BY <2>3, <2>4, EntryIs DEF Inode
  <2>8. \A q \in Proc : ~(file'[q][k] > 0)
    BY <1>1, <2>3, <2>4, NoFiles
  <2> HIDE DEF e
  <2> QED BY <1>1, <2>3, <2>5, <2>6, <2>7, <2>8, FreshSlot
<1> QED BY <1>3, <1>4 DEF Iread

LEMMA IgetWaitFresh ==
  ASSUME Facts, Fresh, ~ByName, NEW p \in Proc, NEW k \in Slot, AwaitLock(p, k), pc[p] \notin {"iread", "pipe"},
         UNCHANGED file
  PROVE  FreshTurn(p)
<1>1. pc' = pc /\ inode' = [inode EXCEPT ![k].want = TRUE]
  BY DEF AwaitLock, Sleep
<1>2. ~Fetched(p)'
  BY <1>1 DEF Fetched
<1>3. \A s \in Slot : inode'[s].mode = inode[s].mode /\ inode'[s].count = inode[s].count
                      /\ (inode[s].lock => inode'[s].lock)
  BY <1>1, FactTypes DEF Inode
<1> QED BY <1>2, <1>3, FreshSame

LEMMA PlockFresh ==
  ASSUME Facts, Fresh, ~ByName, NEW p \in Proc, Plock(p)
  PROVE  FreshTurn(p)
<1> DEFINE k == u[p].cur
<1>1. At(p, "plock") /\ UNCHANGED file
  BY DEF Plock
<1>2. Config("plock", ret[p], u[p]) /\ TypeOK /\ pc[p] = "plock"
  BY <1>1, HeldIs
<1>3. k \in Slot /\ Head(ret[p]) \in {"close1", "rdwr1"}
  BY <1>2, Short DEF Config
<1>4. CASE AwaitLock(p, k)
  BY <1>1, <1>2, <1>3, <1>4, IgetWaitFresh
<1>5. CASE inode' = [inode EXCEPT ![k].lock = TRUE] /\ Return(p)
  <2>1. ~Fetched(p)'
    BY <1>2, <1>3, <1>5 DEF Return, Enter, TypeOK, Fetched
  <2>2. \A s \in Slot : inode'[s].mode = inode[s].mode /\ inode'[s].count = inode[s].count
                        /\ (inode[s].lock => inode'[s].lock)
    BY <1>3, <1>5, FactTypes DEF Inode
  <2> QED BY <1>1, <2>1, <2>2, FreshSame
<1> QED BY <1>4, <1>5 DEF Plock

LEMMA IputSharedFresh ==
  ASSUME PipesApart, Facts, Fresh, ~ByName, NEW p \in Proc, IputShared(p)
  PROVE  FreshTurn(p)
<1> DEFINE k == u[p].cur
           e == [Released(inode[k]) EXCEPT !.count = inode[k].count - 1]
<1>1. At(p, "iput") /\ Return(p) /\ inode[k].count # 1 /\ inode' = [inode EXCEPT ![k] = e] /\ UNCHANGED file
  BY DEF IputShared
<1>2. Config("iput", ret[p], u[p]) /\ TypeOK /\ pc[p] = "iput"
  BY <1>1, HeldIs
<1>3. k \in Slot /\ Mine(p, k) >= 1
  <2>1. k \in Slot /\ Owns(pc[p], ret[p])
    BY <1>2 DEF Config, Owns
  <2> QED BY <2>1, MineIs
<1>4. ~Fetched(p)'
  <2>1. Head(ret[p]) \in {"ialgot", "ialloop", "end", "update"}
    BY <1>2, ReturnsTo DEF Config
  <2> QED BY <1>1, <1>2, <2>1 DEF Return, Enter, TypeOK, Fetched
<1> HIDE DEF k
<1>5. inode[k] \in Inode /\ inode[k].count \in Nat /\ inode[k].count >= 1
  BY <1>3, EntryIs, InUse
<1>6. inode[k].mode # "none"
  BY <1>1, <1>3, <1>5 DEF Fresh
<1>7. e.mode = inode[k].mode
  BY <1>5 DEF Released, Inode
<1> HIDE DEF e
<1> QED BY <1>1, <1>3, <1>4, <1>6, <1>7, FreshSlot

LEMMA IputLastFresh ==
  ASSUME Facts, Fresh, ~ByName, NEW p \in Proc, IputLast(p)
  PROVE  FreshTurn(p)
<1> DEFINE k == u[p].cur
<1>1. At(p, "iput") /\ inode' = [inode EXCEPT ![k].lock = TRUE] /\ UNCHANGED file
  BY DEF IputLast
<1>2. Config("iput", ret[p], u[p]) /\ TypeOK
  BY <1>1, HeldIs
<1>3. k \in Slot
  BY <1>2 DEF Config
<1>4. PICK m \in {"itrunc", "ifree", "iupdat", "idrop"} : \E t : Enter(p, m, t)
  BY DEF IputLast, Goto, Call
<1>5. ~Fetched(p)'
  BY <1>2, <1>4 DEF Enter, TypeOK, Fetched
<1>6. \A s \in Slot : inode'[s].mode = inode[s].mode /\ inode'[s].count = inode[s].count
                      /\ (inode[s].lock => inode'[s].lock)
  BY <1>1, <1>3, FactTypes DEF Inode
<1> QED BY <1>1, <1>5, <1>6, FreshSame

LEMMA IfreeFresh ==
  ASSUME Facts, Fresh, ~ByName, NEW p \in Proc, Ifree(p)
  PROVE  FreshTurn(p)
<1> DEFINE k == u[p].cur
           e == [inode[k] EXCEPT !.mode = "none", !.dirty = TRUE]
<1>1. /\ At(p, "itrunc") \/ At(p, "ifree")
      /\ inode' = [inode EXCEPT ![k] = e] /\ UNCHANGED file /\ Call(p, "iupdat", "idrop")
  BY DEF Ifree
<1>2. pc[p] \in {"itrunc", "ifree"} /\ Config(pc[p], ret[p], u[p]) /\ TypeOK
  BY <1>1, HeldIs
<1>3. Finishing(p)
  BY <1>2 DEF Finishing
<1>4. k \in Slot /\ Mine(p, k) >= 1 /\ inode[k].count = 1 /\ inode[k].lock
  BY <1>3, Finishes DEF Facts, LastKept
<1>5. ~Fetched(p)'
  BY <1>1, <1>2 DEF Call, Enter, TypeOK, Fetched
<1> HIDE DEF k
<1>6. e.count = 1 /\ e.lock
  BY <1>4, EntryIs DEF Inode
<1>7. \A q \in Proc : ~(file'[q][k] > 0)
  BY <1>1, <1>4, NoFiles
<1> HIDE DEF e
<1> QED BY <1>1, <1>4, <1>5, <1>6, <1>7, FreshSlot

LEMMA IdropFresh ==
  ASSUME PipesApart, Facts, Fresh, ~ByName, NEW p \in Proc, Idrop(p)
  PROVE  FreshTurn(p)
<1> DEFINE k == u[p].cur
           e == [Released(inode[k]) EXCEPT !.dirty = FALSE, !.number = 0, !.count = 0]
<1>1. At(p, "idrop") /\ Return(p) /\ inode' = [inode EXCEPT ![k] = e] /\ UNCHANGED file
  BY DEF Idrop
<1>2. Config("idrop", ret[p], u[p]) /\ TypeOK /\ pc[p] = "idrop"
  BY <1>1, HeldIs
<1>3. k \in Slot
  BY <1>2 DEF Config
<1>4. ~Fetched(p)'
  <2>1. Head(ret[p]) \in {"ialgot", "ialloop", "end", "update"}
    BY <1>2, ReturnsTo DEF Config
  <2> QED BY <1>1, <1>2, <2>1 DEF Return, Enter, TypeOK, Fetched
<1> HIDE DEF k
<1>5. inode[k] \in Inode
  BY <1>3, EntryIs
<1>6. e \in Inode /\ e.count = 0 /\ e.number = 0 /\ ~e.lock
  BY <1>5, Emptied
<1>7. e.mode = inode[k].mode
  BY <1>5 DEF Released, Inode
<1>8. \A q \in Proc : file'[q][k] > 0 => e.mode # "none"
  BY <1>1, <1>3, <1>7 DEF Fresh
<1> HIDE DEF e
<1> QED BY <1>1, <1>3, <1>4, <1>6, <1>8, FreshSlot

LEMMA IupdatFresh ==
  ASSUME PipesApart, Facts, Fresh, ~ByName, NEW p \in Proc, Iupdat(p)
  PROVE  FreshTurn(p)
<1> DEFINE k == u[p].cur
<1>1. At(p, "iupdat") /\ Return(p) /\ UNCHANGED file
      /\ (UNCHANGED inode \/ inode' = [inode EXCEPT ![k].dirty = FALSE])
  BY DEF Iupdat
<1>2. Config("iupdat", ret[p], u[p]) /\ TypeOK
  BY <1>1, HeldIs
<1>3. k \in Slot /\ Head(ret[p]) \in {"idrop", "ialstale", "update1", "end"}
  BY <1>2, ReturnsTo DEF Config
<1>4. ~Fetched(p)'
  BY <1>1, <1>2, <1>3 DEF Return, Enter, TypeOK, Fetched
<1>5. \A s \in Slot : inode'[s].mode = inode[s].mode /\ inode'[s].count = inode[s].count
                      /\ (inode[s].lock => inode'[s].lock)
  BY <1>1, <1>3, FactTypes DEF Inode
<1> QED BY <1>1, <1>4, <1>5, FreshSame

LEMMA InodesFresh ==
  ASSUME PipesApart, Facts, Fresh, ~ByName, NEW p \in Proc, Inodes(p)
  PROVE  FreshTurn(p)
<1>1. CASE IgetWait(p)
  <2>1. At(p, "iget") /\ UNCHANGED file /\ \E k \in Slot : AwaitLock(p, k)
    BY <1>1 DEF IgetWait, Holding
  <2>2. pc[p] = "iget"
    BY <2>1, HeldIs
  <2> QED BY <2>1, <2>2, IgetWaitFresh
<1>2. CASE IgetFull(p)
  <2>1. At(p, "iget") /\ Return(p) /\ UNCHANGED <<inode, file>>
    BY <1>2 DEF IgetFull
  <2>2. Head(ret[p]) = "ialgot"
    BY <2>1, HeldIs, PipeCallers DEF Config
  <2> QED BY <2>1, <2>2, FreshStill DEF Return
<1> QED BY <1>1, <1>2, IgetFoundFresh, IgetReadFresh, IreadFresh, PlockFresh, IputSharedFresh, IputLastFresh,
     IfreeFresh, IdropFresh, IupdatFresh DEF Inodes

LEMMA IallocGotFresh ==
  ASSUME Facts, Fresh, ~ByName, NEW p \in Proc, IallocGot(p)
  PROVE  FreshTurn(p)
<1> DEFINE k == u[p].cur
           e == [inode[k] EXCEPT !.nlink = 0]
<1>1. At(p, "ialgot") /\ UNCHANGED <<u, file>>
  BY DEF IallocGot
<1>2. Config("ialgot", ret[p], u[p]) /\ TypeOK /\ pc[p] = "ialgot"
  BY <1>1, HeldIs
<1>3. Head(ret[p]) = "pipe"
  BY <1>2, PipeCallers DEF Config
<1>4. CASE k = 0 /\ Return(p) /\ UNCHANGED inode
  <2>1. ~Fetched(p)'
    BY <1>1, <1>2, <1>3, <1>4 DEF Return, Enter, TypeOK, Fetched
  <2> QED BY <1>1, <1>4, <2>1, FreshSame
<1>5. CASE k # 0 /\ inode[k].mode = "none" /\ inode' = [inode EXCEPT ![k] = e] /\ Return(p)
  <2>1. k \in Slot
    BY <1>2, <1>5, Registers DEF TypeOK
  <2>2. Mine(p, k) >= 1
    BY <1>2, MineIs DEF Owns
  <2>3. inode[k] \in Inode /\ inode[k].count \in Nat /\ inode[k].count >= 1
    BY <2>1, <2>2, EntryIs, InUse
  <2>4. inode[k].count = 1 /\ inode[k].lock
    BY <1>5, <2>1, <2>3 DEF Fresh
  <2>5. u'[p].cur = k
    BY <1>1
  <2> HIDE DEF k
  <2>6. e.count = 1 /\ e.lock /\ e.mode = inode[k].mode
    BY <2>3, <2>4 DEF Inode
  <2>7. \A q \in Proc : file'[q][k] > 0 => e.mode # "none"
    BY <1>1, <2>1, <2>6 DEF Fresh
  <2> HIDE DEF e
  <2> QED BY <1>1, <1>5, <2>1, <2>5, <2>6, <2>7, FreshSlot
<1>6. CASE Call(p, "iupdat", "ialstale") /\ UNCHANGED inode
  BY <1>1, <1>6, FreshStill DEF Call
<1> QED BY <1>4, <1>5, <1>6 DEF IallocGot

LEMMA IscanEndFresh ==
  ASSUME Facts, Fresh, ~ByName, NEW p \in Proc, IscanEnd(p)
  PROVE  FreshTurn(p)
<1>1. At(p, "iscanned") /\ UNCHANGED <<inode, file>>
  BY DEF IscanEnd
<1>2. Config("iscanned", ret[p], u[p]) /\ TypeOK /\ pc[p] = "iscanned" /\ u[p] \in Frame
  BY <1>1, HeldIs
<1>3. Head(ret[p]) = "pipe"
  BY <1>2, PipeCallers DEF Config
<1>4. CASE Goto(p, "ialloop")
  BY <1>1, <1>4, FreshStill DEF Goto
<1>5. CASE Set(p, [u[p] EXCEPT !.cur = 0, !.err = TRUE]) /\ Return(p)
  <2> DEFINE g == [u[p] EXCEPT !.cur = 0, !.err = TRUE]
  <2>1. g.cur = 0
    BY <1>2 DEF Frame
  <2> HIDE DEF g
  <2>2. u' = [u EXCEPT ![p] = g]
    BY <1>5 DEF Set, g
  <2>3. u'[p].cur = 0
    BY <1>2, <2>1, <2>2 DEF TypeOK
  <2>4. ~Fetched(p)'
    BY <1>2, <1>3, <1>5, <2>3 DEF Return, Enter, TypeOK, Fetched
  <2> QED BY <1>1, <2>4, FreshSame
<1> QED BY <1>4, <1>5 DEF IscanEnd

LEMMA AllocationFresh ==
  ASSUME Facts, Fresh, ~ByName, NEW p \in Proc, Allocation(p)
  PROVE  FreshTurn(p)
<1>1. CASE Ialloc(p)
  <2>1. At(p, "ialloc") /\ UNCHANGED <<inode, file>>
    BY <1>1 DEF Ialloc
  <2>2. CASE Goto(p, "ialloop")
    BY <2>1, <2>2, FreshStill DEF Goto
  <2>3. CASE Sleep(p, SILOCK)
    <3>1. pc'[p] = "ialloc"
      BY <2>1, <2>3, HeldIs DEF Sleep
    <3> QED BY <2>1, <3>1, FreshSame DEF Fetched
  <2> QED BY <1>1, <2>2, <2>3 DEF Ialloc
<1>2. CASE IallocTake(p)
  BY <1>2, FreshStill DEF IallocTake, Call
<1>3. CASE IallocStale(p)
  BY <1>3, FreshStill DEF IallocStale, Call
<1>4. CASE IallocSearch(p)
  <2>1. UNCHANGED <<inode, file>> /\ \E m \in {"iscan", "iscanned"} : Goto(p, m)
    BY <1>4 DEF IallocSearch
  <2> QED BY <2>1, FreshStill DEF Goto
<1>5. CASE Iscan(p)
  <2>1. UNCHANGED <<inode, file>> /\ \E m \in {"iscan", "iscanned"} : Goto(p, m)
    BY <1>5 DEF Iscan
  <2> QED BY <2>1, FreshStill DEF Goto
<1> QED BY <1>1, <1>2, <1>3, <1>4, <1>5, IallocGotFresh, IscanEndFresh DEF Allocation

LEMMA PipeMadeFresh ==
  ASSUME Facts, Fresh, ~ByName, NEW p \in Proc, PipeMade(p)
  PROVE  FreshTurn(p)
<1> DEFINE k == u[p].cur
           e == Piped(inode[k])
<1>1. At(p, "pipe") /\ k # 0 /\ Call(p, "iupdat", "end") /\ file' = [file EXCEPT ![p][k] = @ + 2]
      /\ inode' = [inode EXCEPT ![k] = e]
  BY DEF PipeMade, Piped
<1>2. TypeOK /\ u[p] \in Frame
  BY <1>1, HeldIs
<1>3. k \in Slot
  BY <1>1, <1>2, Registers
<1>4. ~Fetched(p)'
  BY <1>1, <1>2 DEF Call, Enter, TypeOK, Fetched
<1> HIDE DEF k
<1>5. e.count = 2 /\ e.mode = "fifo"
  BY <1>3, EntryIs, PipedIs
<1>6. \A q \in Proc, s \in Slot \ {k} : file'[q][s] = file[q][s]
  BY <1>1, <1>2 DEF TypeOK
<1>7. e.mode # "none"
  BY <1>5
<1> HIDE DEF e
<1>8. inode' = [inode EXCEPT ![k] = e]
  BY <1>1
<1>9. \A q \in Proc, s \in Slot \ {k} : file'[q][s] > 0 => file[q][s] > 0
  BY <1>6
<1> QED BY <1>3, <1>4, <1>7, <1>8, <1>9, FreshSlot

LEMMA RdwrEndFresh ==
  ASSUME Facts, Fresh, ~ByName, NEW p \in Proc, RdwrEnd(p)
  PROVE  FreshTurn(p)
<1> DEFINE k == u[p].cur
<1>1. At(p, "rdwr") /\ Goto(p, "end") /\ UNCHANGED file
  BY DEF RdwrEnd
<1>2. PICK b : inode' = [inode EXCEPT ![k] = [Released(inode[k]) EXCEPT !.dirty = b]]
  BY DEF RdwrEnd
<1> DEFINE e == [Released(inode[k]) EXCEPT !.dirty = b]
<1>3. Config("rdwr", ret[p], u[p]) /\ TypeOK /\ pc[p] = "rdwr"
  BY <1>1, HeldIs
<1>4. k \in Slot /\ file[p][k] > 0
  BY <1>3 DEF Config, Facts, CopyKept
<1>5. ~Fetched(p)'
  BY <1>1, <1>3 DEF Goto, Enter, TypeOK, Fetched
<1>6. inode' = [inode EXCEPT ![k] = e]
  BY <1>2
<1> HIDE DEF k
<1>7. e.mode = inode[k].mode
  BY <1>4, EntryIs DEF Released, Inode
<1>8. e.mode # "none"
  BY <1>4, <1>7 DEF Fresh
<1> HIDE DEF e
<1> QED BY <1>1, <1>4, <1>5, <1>6, <1>8, FreshSlot

LEMMA UpdateFresh ==
  ASSUME Facts, Fresh, ~ByName, NEW p \in Proc, Update(p)
  PROVE  FreshTurn(p)
<1> DEFINE todo == {s \in Slot : s >= u[p].scan /\ ~inode[s].lock /\ inode[s].count # 0 /\ inode[s].dirty}
           k == Min(todo)
           e == [inode[k] EXCEPT !.count = inode[k].count + 1, !.lock = TRUE]
<1>1. At(p, "update") /\ UNCHANGED file
  BY DEF Update
<1>2. Config("update", ret[p], u[p]) /\ TypeOK
  BY <1>1, HeldIs
<1>3. CASE todo = {}
  <2>1. Return(p) /\ UNCHANGED inode
    BY <1>3 DEF Update
  <2>2. Head(ret[p]) = "end"
    BY <1>2, Short DEF Config
  <2> QED BY <1>1, <2>1, <2>2, FreshStill DEF Return
<1>4. CASE todo # {}
  <2>1. inode' = [inode EXCEPT ![k] = e] /\ Call(p, "iupdat", "update1")
    BY <1>4 DEF Update
  <2>2. k \in todo
    BY <1>4, MinIs
  <2>3. k \in Slot /\ ~inode[k].lock /\ inode[k].count # 0
    BY <2>2
  <2> HIDE DEF todo, k
  <2>4. inode[k].mode # "none"
    BY <2>3 DEF Fresh
  <2>5. e.mode = inode[k].mode
    BY <2>3, EntryIs DEF Inode
  <2>6. ~Fetched(p)'
    BY <1>2, <2>1 DEF Call, Enter, TypeOK, Fetched
  <2> HIDE DEF e
  <2> QED BY <1>1, <2>1, <2>3, <2>4, <2>5, <2>6, FreshSlot
<1> QED BY <1>3, <1>4

LEMMA Close1Fresh ==
  ASSUME Facts, Fresh, ~ByName, NEW p \in Proc, Close1(p)
  PROVE  FreshTurn(p)
<1> DEFINE k == u[p].cur
<1>1. At(p, "close1") /\ Call(p, "iput", "end") /\ file' = [file EXCEPT ![p][k] = @ - 1] /\ UNCHANGED inode
  BY DEF Close1
<1>2. TypeOK
  BY DEF Facts
<1>3. ~Fetched(p)'
  BY <1>1, <1>2 DEF Call, Enter, TypeOK, Fetched
<1>4. ASSUME NEW q \in Proc, NEW s \in Slot, file'[q][s] > 0 PROVE file[q][s] > 0
  <2>1. file[q][s] \in Nat
    BY <1>2 DEF TypeOK
  <2>2. file'[q][s] = file[q][s] \/ file'[q][s] = file[q][s] - 1
    BY <1>1, <1>2 DEF TypeOK
  <2> QED BY <1>4, <2>1, <2>2
<1> QED BY <1>1, <1>3, <1>4, FreshSame

LEMMA UsingFresh ==
  ASSUME Facts, Fresh, ~ByName, NEW p \in Proc, Using(p)
  PROVE  FreshTurn(p)
<1>1. CASE PipeFails(p)
  <2>1. UNCHANGED <<inode, file>> /\ \E m \in {"end", "iput"} : \E t : Enter(p, m, t)
    BY <1>1 DEF PipeFails, Goto, Call
  <2> QED BY <2>1, FreshStill
<1>2. CASE Rdwr1(p)
  BY <1>2, FreshStill DEF Rdwr1, Goto
<1>3. CASE Update1(p)
  BY <1>3, FreshStill DEF Update1, Call
<1> QED BY <1>1, <1>2, <1>3, PipeMadeFresh, RdwrEndFresh, UpdateFresh, Close1Fresh DEF Using

LEMMA NoNames ==
  ASSUME PipesApart, ~ByName, Facts, NEW p \in Proc
  PROVE  ~Names(p) /\ ~Opening(p) /\ ~Linking(p)
<1>1. ASSUME NEW l, At(p, l)
      PROVE  l \notin {"namei", "lookup", "search", "child", "opened", "maknode", "wdir", "wentry", "grant", "granted",
                       "trunc", "link1", "link2", "lentry", "linked", "linkout", "unlink1", "unlink2", "uentry",
                       "unlink3"}
  BY <1>1, HeldIs, PipeLabels
<1>2. ~Names(p)
  BY <1>1 DEF Names, Namei, Lookup, Search, Child
<1>3. ~Opening(p)
  BY <1>1 DEF Opening, Opened, Trunc, Truncated, Grant, Deny, Maknode, Wdir, WdirEnd
<1>4. ~Linking(p)
  BY <1>1 DEF Linking, Link1, Link2, LinkEntry, Linked, LinkOut, Unlink1, Unlink2, UnlinkEntry, UnlinkEnd
<1> QED BY <1>2, <1>3, <1>4

LEMMA EntersFresh ==
  ASSUME PipesApart, Facts, Fresh, ~ByName, NEW p \in Proc, Enters(p)
  PROVE  FreshTurn(p)
<1>1. ~Open(p) /\ ~Creat(p) /\ ~Link(p) /\ ~Unlink(p)
  BY DEF PipesApart, Open, Creat, Link, Unlink, Begin
<1>2. CASE Pipe(p)
  BY <1>2, FreshStill DEF Pipe, Begin, Call
<1>3. CASE Close(p)
  BY <1>3, FreshStill DEF Close, Begin, Call
<1>4. CASE Rdwr(p)
  BY <1>4, FreshStill DEF Rdwr, Begin, Call
<1>5. CASE Sync(p)
  BY <1>5, FreshStill DEF Sync, Begin, Call
<1> QED BY <1>1, <1>2, <1>3, <1>4, <1>5 DEF Enters

LEMMA NextFresh ==
  ASSUME PipesApart, Facts, Fresh, ~ByName, NEW p \in Proc, Enters(p) \/ Kernel(p)
  PROVE  FreshTurn(p)
<1>1. CASE End(p)
  BY <1>1, FreshStill DEF End, Goto
<1> QED BY <1>1, EntersFresh, InodesFresh, AllocationFresh, UsingFresh, NoNames DEF Kernel

(* A step that changes nothing. *)
LEMMA SameMine ==
  ASSUME UNCHANGED vars, NEW p \in Proc, NEW s \in Slot
  PROVE  /\ References(p, s)' = References(p, s) /\ Mine(p, s)' = Mine(p, s) /\ (Has(p, s)' <=> Has(p, s))
BY DEF vars, References, OwnReference, Mine, Has

LEMMA SameFacts == ASSUME Facts, UNCHANGED vars PROVE Facts'
<1>1. TypeOK' /\ Controlled' /\ RootKept' /\ Numbered' /\ LockUsed'
  BY DEF Facts, vars, TypeOK, Controlled, RootKept, Numbered, LockUsed
<1>2. LastKept' /\ CopyKept'
  BY DEF Facts, vars, LastKept, CopyKept, Finishing
<1>3. Awaits'
  BY DEF Facts, vars, Awaits
<1>4. RefCount'
  <2>1. ASSUME NEW s \in Slot
        PROVE  inode'[s].count = One(s = 1) + Total([q \in Proc |-> References(q, s)'])
    <3>1. [q \in Proc |-> References(q, s)'] = [q \in Proc |-> References(q, s)]
      BY SameMine
    <3>2. inode' = inode
      BY DEF vars
    <3>3. inode[s].count = One(s = 1) + Total([q \in Proc |-> References(q, s)])
      BY CountIs DEF Facts
    <3> QED BY <3>1, <3>2, <3>3
  <2> QED BY <2>1, CountNext
<1> QED BY <1>1, <1>2, <1>3, <1>4 DEF Facts

LEMMA SameLocked == ASSUME Locked, UNCHANGED vars PROVE Locked'
<1>1. \A p \in Proc, s \in Slot : Mine(p, s)' = Mine(p, s) /\ (Has(p, s)' <=> Has(p, s))
  BY SameMine
<1>2. inode' = inode
  BY DEF vars
<1> QED BY <1>1, <1>2 DEF Locked

LEMMA SameFresh == ASSUME Fresh, UNCHANGED vars PROVE Fresh'
BY DEF vars, Fresh, Fetched, ByName

(* Facts is inductive with Fresh, and with them Locked.                    *)
LEMMA StepFacts == ASSUME PipesApart PROVE Facts /\ Fresh /\ [Next]_vars => Facts' /\ Fresh'
<1> SUFFICES ASSUME Facts, Fresh, [Next]_vars PROVE Facts' /\ Fresh'
  OBVIOUS
<1>1. CASE Next
  <2>1. PICK p \in Proc : Enters(p) \/ Kernel(p)
    BY <1>1 DEF Next
  <2>2. Goes(p)
    BY <2>1, NextGoes
  <2>3. PICK m, t, g : Effect(p, m, t, g)
    BY <2>2 DEF Goes
  <2>4. CASE ~ByName
    <3>1. FreshTurn(p)
      BY <2>1, <2>4, NextFresh
    <3>2. Fresh'
      BY <2>3, <2>4, <3>1, FreshKeeps
    <3> QED BY <2>3, <3>2, EffectKeeps
  <2>5. CASE ByName
    <3>1. Fresh'
      BY <2>5 DEF Fresh, ByName
    <3> QED BY <2>3, <3>1, EffectKeeps
  <2> QED BY <2>4, <2>5
<1> QED BY <1>1, SameFacts, SameFresh

LEMMA StepLocked ==
  ASSUME PipesApart, "link" \notin Calls
  PROVE  Facts /\ Fresh /\ Locked /\ [Next]_vars => Locked'
<1> SUFFICES ASSUME Facts, Fresh, Locked, [Next]_vars PROVE Locked'
  OBVIOUS
<1>1. CASE Next
  <2>1. PICK p \in Proc : Enters(p) \/ Kernel(p)
    BY <1>1 DEF Next
  <2>2. Goes(p)
    BY <2>1, NextGoes
  <2>3. PICK m, t, g : Effect(p, m, t, g) /\ LockEffect(p, m, t, g)
    BY <2>2 DEF Goes
  <2> QED BY <2>3, LockKeeps
<1> QED BY <1>1, SameLocked

-----------------------------------------------------------------------------
LEMMA NoneCounted == ASSUME NEW c, \A q \in Proc : c[q] = 0 PROVE Total(c) = 0
<1>1. \A q \in Proc : Row(c, q) = {}
  BY DEF Row
<1>2. Rows(c, Proc) = {}
  BY <1>1 DEF Rows
<1> QED BY <1>2, FS_EmptySet DEF Total

LEMMA InitTypes == Init => TypeOK
<1> SUFFICES ASSUME Init PROVE TypeOK
  OBVIOUS
<1>1. ROOTINO \in Ino /\ "none" \in Mode /\ "dir" \in Mode
  BY SizeAssumption DEF Ino, ROOTINO, Mode
<1>2. inode \in [Slot -> Inode]
  <2>1. inode = [s \in Slot |-> [number |-> IF s = 1 THEN ROOTINO ELSE 0, count |-> IF s = 1 THEN 1 ELSE 0,
                                 lock |-> FALSE, want |-> FALSE, dirty |-> FALSE,
                                 mode |-> IF s = 1 THEN "dir" ELSE "none", nlink |-> IF s = 1 THEN 2 ELSE 0]]
    BY DEF Init
  <2>2. ASSUME NEW n \in Ino \cup {0}, NEW c \in Int, NEW m \in Mode, NEW k \in Int
        PROVE  [number |-> n, count |-> c, lock |-> FALSE, want |-> FALSE, dirty |-> FALSE,
                mode |-> m, nlink |-> k] \in Inode
    BY DEF Inode
  <2>3. [number |-> ROOTINO, count |-> 1, lock |-> FALSE, want |-> FALSE, dirty |-> FALSE,
         mode |-> "dir", nlink |-> 2] \in Inode
    BY <1>1, <2>2
  <2>4. [number |-> 0, count |-> 0, lock |-> FALSE, want |-> FALSE, dirty |-> FALSE,
         mode |-> "none", nlink |-> 0] \in Inode
    BY <1>1, <2>2
  <2> QED BY <2>1, <2>3, <2>4
<1>3. dinode \in [Ino -> [mode : Mode, nlink : Int]]
  BY <1>1 DEF Init
<1>4. dir \in [Name -> Ino \cup {0}]
  BY DEF Init
<1>5. updlock \in BOOLEAN /\ cpu \in Proc \cup {NoProc}
  BY DEF Init
<1>6. faults \in 0..MaxFaults
  BY SizeAssumption DEF Init
<1>7. super \in [n : 0..NICINOD, list : [0..NICINOD-1 -> Ino \cup {0}], lock : BOOLEAN]
  BY SizeAssumption DEF Init
<1>8. asleep \in [Proc -> 0..SILOCK]
  BY SizeAssumption DEF Init, SILOCK
<1>9. pc \in [Proc -> PC] /\ ret \in [Proc -> Seq(PC)] /\ file \in [Proc -> [Slot -> Nat]]
  BY DEF Init, PC
<1>10. u \in [Proc -> Frame]
  <2>1. NoCall \in Frame
    BY DEF NoCall, Frame
  <2> QED BY <2>1 DEF Init
<1> QED BY <1>2, <1>3, <1>4, <1>7, <1>8, <1>9, <1>10, <1>5, <1>6 DEF TypeOK

LEMMA InitIdle ==
  ASSUME Init, NEW p \in Proc
  PROVE  /\ pc[p] = "idle" /\ ret[p] = <<>> /\ u[p] = NoCall /\ asleep[p] = 0
         /\ \A s \in Slot : References(p, s) = 0 /\ Mine(p, s) = 0 /\ ~Has(p, s)
<1>1. pc[p] = "idle" /\ ret[p] = <<>> /\ u[p] = NoCall /\ asleep[p] = 0 /\ \A s \in Slot : file[p][s] = 0
  BY DEF Init
<1>2. NoCall.dp = 0 /\ NoCall.ip = 0 /\ NoCall.cur = 0 /\ 0 \notin Slot
  BY DEF NoCall, Slot
<1>3. ASSUME NEW s \in Slot PROVE References(p, s) = 0 /\ Mine(p, s) = 0 /\ ~Has(p, s)
  BY <1>1, <1>2 DEF References, Mine, Weight, One, Has, Holds
<1> QED BY <1>1, <1>3

LEMMA InitTable ==
  ASSUME Init, NEW s \in Slot
  PROVE  /\ inode[s].count = One(s = 1) /\ ~inode[s].lock
         /\ inode[s].number = IF s = 1 THEN ROOTINO ELSE 0
BY DEF Init, One

LEMMA InitFacts == Init => Facts
<1> SUFFICES ASSUME Init PROVE Facts
  OBVIOUS
<1>1. TypeOK
  BY InitTypes
<1>2. Controlled
  BY InitIdle DEF Controlled, Config
<1>3. RootKept /\ Numbered /\ LockUsed
  <2>1. 1 \in Slot /\ ROOTINO # 0
    BY SizeAssumption DEF Slot, ROOTINO
  <2> QED BY <2>1, InitTable DEF RootKept, Numbered, LockUsed, One
<1>4. LastKept /\ CopyKept
  BY InitIdle DEF LastKept, CopyKept, Finishing
<1>5. RefCount
  <2>1. ASSUME NEW s \in Slot PROVE Total([p \in Proc |-> References(p, s)]) = 0
    BY InitIdle, NoneCounted
  <2>2. ASSUME NEW s \in Slot PROVE inode[s].count = One(s = 1) + Total([p \in Proc |-> References(p, s)])
    BY <2>1, InitTable DEF One
  <2> QED BY <2>2, CountIs
<1>6. Awaits
  <2>1. 0 \notin Slot /\ 0 # SILOCK
    BY SizeAssumption DEF Slot, SILOCK
  <2> QED BY <2>1, InitIdle DEF Awaits
<1> QED BY <1>1, <1>2, <1>3, <1>4, <1>5, <1>6 DEF Facts

LEMMA InitFresh == Init => Fresh
<1> SUFFICES ASSUME Init PROVE Fresh
  OBVIOUS
<1>1. \A s \in Slot : inode[s].mode = "none" => inode[s].count = 0
  BY DEF Init
<1>2. \A p \in Proc, s \in Slot : file[p][s] = 0
  BY DEF Init
<1>3. \A p \in Proc : ~Fetched(p)
  BY InitIdle DEF Fetched
<1> QED BY <1>1, <1>2, <1>3 DEF Fresh

LEMMA InitLocked == Init => Locked
BY InitIdle, InitTable DEF Locked

(* What Locked says of the registers is what OneLocker says.               *)
LEMMA LockedOne == ASSUME Facts, Locked PROVE OneLocker
<1>1. ASSUME NEW p \in Proc, NEW s \in Slot PROVE Locks(p, s) => Has(p, s)
  BY DEF Locks, Has, Holds
<1>2. ASSUME NEW p \in Proc, NEW s \in Slot, Has(p, s) PROVE Locks(p, s) \/ (u[p].cur = s /\ pc[p] = "iput")
  BY <1>2 DEF Locks, Has, Holds
<1> QED BY <1>1, <1>2 DEF Locked, OneLocker

(* The inode table, the free list of the superblock, the registers of the  *)
(* processes and their stacks of callers keep their types: a call returns  *)
(* to a caller that expects it, whatever reads fail and whoever runs while *)
(* the disk is busy (iget.c, alloc.c, nami.c, sys2.c, sys4.c).             *)
THEOREM InodeTypeCorrect == PipesApart => (Spec => []TypeOK)
<1> SUFFICES ASSUME PipesApart PROVE Spec => []TypeOK
  OBVIOUS
<1>1. Facts => TypeOK
  BY DEF Facts
<1>2. Facts /\ Fresh /\ [Next]_vars => Facts' /\ Fresh'
  BY StepFacts
<1> QED BY <1>1, <1>2, InitFacts, InitFresh, PTL DEF Spec

(* i_count is the number of references, in whatever order iget, iput,      *)
(* update and the calls that hold an inode over a wait for the disk run:   *)
(* no entry is given to another file while a process uses it, and none is  *)
(* kept when nobody does (iget.c, iget and iput). Without names it holds   *)
(* with pipe() too, though pipe() sets i_count and i_flag as if nobody     *)
(* else could have the inode it was given (pipe.c:39-45): nobody has.      *)
THEOREM CountCorrect == PipesApart => (Spec => []RefCount)
<1> SUFFICES ASSUME PipesApart PROVE Spec => []RefCount
  OBVIOUS
<1>1. Facts => RefCount
  BY DEF Facts
<1>2. Facts /\ Fresh /\ [Next]_vars => Facts' /\ Fresh'
  BY StepFacts
<1> QED BY <1>1, <1>2, InitFacts, InitFresh, PTL DEF Spec

(* Who sleeps for an inode has left its IWANT where the holder of the lock *)
(* will find it, in every order of plock, iget and prele; and who sleeps   *)
(* for the list of free inodes sleeps while it is locked (pipe.c, plock    *)
(* and prele; iget.c; alloc.c, ialloc). With pipe() it does not hold: its  *)
(* assignment of i_flag drops the IWANT of a process that sleeps for an    *)
(* inode it was given twice (pipe.c:44).                                   *)
THEOREM WakeupCorrect == "pipe" \notin Calls => (Spec => []NoLostWakeup)
<1> SUFFICES ASSUME "pipe" \notin Calls PROVE Spec => []NoLostWakeup
  OBVIOUS
<1>1. PipesApart /\ ByName
  BY DEF PipesApart, ByName
<1>2. Facts => NoLostWakeup
  BY <1>1 DEF Facts, Awaits, NoLostWakeup
<1>3. Facts /\ Fresh /\ [Next]_vars => Facts' /\ Fresh'
  BY <1>1, StepFacts
<1> QED BY <1>2, <1>3, InitFacts, InitFresh, PTL DEF Spec

(* A locked inode has exactly one process that counts on its lock, and an  *)
(* unlocked one has none, with every call but link() and with pipe() where *)
(* files have no names: nobody changes an inode under another, though it   *)
(* is passed from one routine to the next and held while the disk is read. *)
THEOREM LockerCorrect == PipesApart /\ "link" \notin Calls => (Spec => []OneLocker)
<1> SUFFICES ASSUME PipesApart, "link" \notin Calls PROVE Spec => []OneLocker
  OBVIOUS
<1>1. Facts /\ Locked => OneLocker
  BY LockedOne
<1>2. Facts /\ Fresh /\ [Next]_vars => Facts' /\ Fresh'
  BY StepFacts
<1>3. Facts /\ Fresh /\ Locked /\ [Next]_vars => Locked'
  BY StepLocked
<1> QED BY <1>1, <1>2, <1>3, InitFacts, InitFresh, InitLocked, PTL DEF Spec
=============================================================================
