---------------------------- MODULE FreeBlocksPool ----------------------------
(***************************************************************************)
(* Proofs about the pool of free blocks, for any number of processes,      *)
(* files and blocks: following the list through its chain meets each free  *)
(* block once, alloc and free take and put back single blocks of it, no    *)
(* block is lost unless a read fails, s_tfree counts what is left, and     *)
(* update saves it.                                                        *)
(***************************************************************************)
EXTENDS FreeBlocksProof, FunctionTheorems, WellFoundedInduction

(* FreeOf and OnePlace's places, for blocks with any contents blk.         *)
Step(g, e, l, blk) ==
  IF e = 0 THEN l
  ELSE IF g[e - 1].nfree = 0 \/ g[e - 1].free[0] = None THEN Empty ELSE blk[g[e - 1].free[0]]
Follows(g, l, blk) == g = [e \in Depth |-> Step(g, e, l, blk)]
ListsIn(l, blk) == CHOOSE g : Follows(g, l, blk)
FreeIn(l, blk) ==
  (UNION {{ListsIn(l, blk)[d].free[i] : i \in 0..ListsIn(l, blk)[d].nfree-1} : d \in Depth}) \ {None}
PlacesIn(l, blk) ==
  {x \in Depth \X Slot : x[2] < ListsIn(l, blk)[x[1]].nfree /\ ListsIn(l, blk)[x[1]].free[x[2]] # None}

(* The blocks that are entries of the lists.                               *)
Entries(S, cur, blk) ==
  {b \in Block : \E x \in S \cup {None}, i \in Slot :
                   i < At0(cur, blk, x).nfree /\ At0(cur, blk, x).free[i] = b}

LEMMA FreeOfIs == \A l : FreeOf(l) = FreeIn(l, fblk)
  BY DEF FreeOf, FreeIn, Lists, ListsIn, Follows, Step

LEMMA FreeOfNow ==
  /\ FreeOf(Current) = FreeIn(Current, fblk)
  /\ FreeOf(Current)' = FreeIn(Current', fblk')
  /\ FreeOf(super)' = FreeIn(super', fblk')
  /\ FreeOf(fp.list)' = FreeIn(fp'.list, fblk')
  BY DEF FreeOf, FreeIn, Lists, ListsIn, Follows, Step

LEMMA DepthType == Depth \subseteq Nat /\ 0 \in Depth /\ \A e \in Depth : e # 0 => e - 1 \in Depth
<1>1. NBLOCK \div NICFREE \in Nat
  BY Division, Sizes
<1> QED BY <1>1 DEF Depth

LEMMA Least ==
  ASSUME NEW T, T \subseteq Nat, T # {}
  PROVE  \E x \in T : \A y \in T : ~(y < x)
<1> DEFINE less == OpToRel(<, Nat)
<1>1. IsWellFoundedOn(less, Nat)
  BY NatLessThanWellFounded
<1> HIDE DEF less
<1>2. PICK x \in T : \A y \in T : ~(<<y, x>> \in less)
  BY <1>1, WFMin
<1>3. \A y \in T : ~(y < x)
  BY <1>2 DEF less, OpToRel
<1> QED BY <1>3

LEMMA FollowsOnce ==
  ASSUME NEW l, NEW blk, NEW g, NEW h, Follows(g, l, blk), Follows(h, l, blk)
  PROVE  g = h
<1>1. ASSUME NEW e \in Depth PROVE g[e] = Step(g, e, l, blk) /\ h[e] = Step(h, e, l, blk)
  BY DEF Follows
<1> DEFINE T == {e \in Depth : g[e] # h[e]}
<1>2. T = {}
  <2> SUFFICES ASSUME T # {} PROVE FALSE
    OBVIOUS
  <2>1. T \subseteq Nat
    BY DepthType
  <2>2. PICK e \in T : \A y \in T : ~(y < e)
    BY <2>1, Least
  <2>3. e \in Depth /\ g[e] # h[e] /\ e \in Nat
    BY <2>1
  <2>4. e # 0
    BY <1>1, <2>3 DEF Step
  <2>5. e - 1 \in Depth /\ e - 1 < e
    BY <2>3, <2>4, DepthType
  <2>6. g[e - 1] = h[e - 1]
    BY <2>2, <2>5
  <2>7. Step(g, e, l, blk) = Step(h, e, l, blk)
    BY <2>6 DEF Step
  <2> QED BY <1>1, <2>3, <2>7
<1>3. DOMAIN g = Depth /\ DOMAIN h = Depth /\ g = [e \in DOMAIN g |-> g[e]] /\ h = [e \in DOMAIN h |-> h[e]]
  BY DEF Follows
<1>4. \A e \in Depth : g[e] = h[e]
  BY <1>2
<1> QED BY <1>3, <1>4

LEMMA At0Type ==
  ASSUME NEW cur \in List, NEW blk \in [Block -> List], NEW S \in SUBSET Block, NEW x \in S \cup {None}
  PROVE  /\ At0(cur, blk, x) \in List /\ At0(cur, blk, x).nfree \in Nat
         /\ At0(cur, blk, x).nfree <= NICFREE
         /\ \A i \in Slot : At0(cur, blk, x).free[i] \in 0..NBLOCK
<1>1. At0(cur, blk, x) \in List
  BY DEF At0
<1> QED BY <1>1, Sizes DEF List

(* The lists met are those in the blocks of the chain, in its order.       *)
LEMMA ListsAre ==
  ASSUME NEW cur \in List, NEW blk \in [Block -> List], NEW S \in SUBSET Block,
         NEW d \in Depth, NEW w, Order(w, d, S, cur, blk)
  PROVE  \A e \in Depth : /\ e <= d => ListsIn(cur, blk)[e] = At0(cur, blk, w[e])
                          /\ ~(e <= d) => ListsIn(cur, blk)[e] = Empty
<1> DEFINE g == [e \in Depth |-> IF e <= d THEN At0(cur, blk, w[e]) ELSE Empty]
<1>1. \A e \in Depth : /\ e <= d => g[e] = At0(cur, blk, w[e])
                       /\ ~(e <= d) => g[e] = Empty
  OBVIOUS
<1>2. g = [e \in Depth |-> g[e]]
  OBVIOUS
<1> HIDE DEF g
<1>3. None \notin S /\ d \in Nat
  BY Sizes, DepthType
<1>4. \A e \in 0..d : w[e] \in S \cup {None} /\ (e # 0 => w[e] \in S /\ w[e] # None)
  BY <1>3, OrderIn
<1>5. ASSUME NEW e \in Depth PROVE Step(g, e, cur, blk) = g[e]
  <2>1. e \in Nat
    BY DepthType
  <2>2. CASE e = 0
    <3>1. e <= d /\ At0(cur, blk, w[e]) = cur
      BY <1>3, <2>2 DEF At0, Order
    <3> QED BY <1>1, <2>2, <3>1 DEF Step
  <2>3. CASE e # 0 /\ e <= d
    <3>1. e - 1 \in Depth /\ e - 1 <= d /\ e - 1 \in 0..d-1 /\ e \in 0..d /\ (e - 1) + 1 = e
      BY <1>3, <2>1, <2>3, DepthType
    <3>2. g[e - 1] = At0(cur, blk, w[e - 1]) /\ g[e] = At0(cur, blk, w[e])
      BY <1>1, <2>3, <3>1
    <3>3. g[e - 1].nfree > 0 /\ g[e - 1].free[0] = w[e]
      BY <3>1, <3>2 DEF Order
    <3>4. w[e] # None
      BY <1>4, <2>3, <3>1
    <3>5. Step(g, e, cur, blk) = blk[w[e]]
      BY <2>3, <3>3, <3>4 DEF Step
    <3> QED BY <3>2, <3>4, <3>5 DEF At0
  <2>4. CASE e # 0 /\ ~(e <= d) /\ e - 1 <= d
    <3>1. e - 1 \in Depth /\ e - 1 = d /\ d \in 0..d
      BY <1>3, <2>1, <2>4, DepthType
    <3>2. g[e - 1] = At0(cur, blk, w[d]) /\ g[e] = Empty
      BY <1>1, <2>4, <3>1
    <3>3. At0(cur, blk, w[d]).nfree \in Nat
      BY <1>4, <3>1, At0Type
    <3>4. g[e - 1].nfree = 0 \/ g[e - 1].free[0] = None
      BY <3>2, <3>3 DEF Order
    <3> QED BY <2>4, <3>2, <3>4 DEF Step
  <2>5. CASE e # 0 /\ ~(e <= d) /\ ~(e - 1 <= d)
    <3>1. e - 1 \in Depth
      BY <2>5, DepthType
    <3>2. g[e - 1] = Empty /\ g[e] = Empty
      BY <1>1, <2>5, <3>1
    <3> QED BY <2>5, <3>2, EmptyType DEF Step
  <2> QED BY <2>2, <2>3, <2>4, <2>5
<1>6. Follows(g, cur, blk)
  BY <1>2, <1>5 DEF Follows
<1>7. Follows(ListsIn(cur, blk), cur, blk)
  BY <1>6 DEF ListsIn
<1>8. ListsIn(cur, blk) = g
  BY <1>6, <1>7, FollowsOnce
<1> QED BY <1>1, <1>8

(* The chain is no longer than Depth allows: its full blocks name as many  *)
(* other blocks as they have places.                                       *)
LEMMA DepthBound ==
  ASSUME NEW cur \in List, NEW blk \in [Block -> List], NEW S \in SUBSET Block, NEW held,
         Chain(S, cur, blk, held), NEW d \in Nat, NEW w, Order(w, d, S, cur, blk)
  PROVE  d \in Depth
<1>1. IsFiniteSet(Block) /\ Cardinality(Block) = NBLOCK /\ IsFiniteSet(Slot) /\ Cardinality(Slot) = NICFREE
  <2>1. /\ IsFiniteSet(1..NBLOCK) /\ Cardinality(1..NBLOCK) = IF 1 > NBLOCK THEN 0 ELSE NBLOCK - 1 + 1
        /\ IsFiniteSet(0..NICFREE-1)
        /\ Cardinality(0..NICFREE-1) = IF 0 > NICFREE - 1 THEN 0 ELSE NICFREE - 1 - 0 + 1
    <3>1. 1 \in Int /\ NBLOCK \in Int /\ 0 \in Int /\ NICFREE - 1 \in Int
      BY Sizes
    <3> QED BY <3>1, FS_Interval
  <2> QED BY <2>1, Sizes DEF Block
<1>2. Cardinality(S) = d /\ IsFiniteSet(S)
  <2> DEFINE f == [i \in 1..d |-> w[i]]
  <2>1. f \in [1..d -> S] /\ (\A i, j \in 1..d : f[i] = f[j] => i = j) /\ \A b \in S : \E i \in 1..d : f[i] = b
    BY DEF Order
  <2> HIDE DEF f
  <2>2. f \in Bijection(1..d, S)
    BY <2>1, Fun_IsBij
  <2>3. IsFiniteSet(1..d) /\ Cardinality(1..d) = IF 1 > d THEN 0 ELSE d - 1 + 1
    BY FS_Interval
  <2>4. Cardinality(1..d) = d
    BY <2>3
  <2> QED BY <2>2, <2>3, <2>4, FS_Bijection DEF ExistsBijection
<1>3. Cardinality(S \X Slot) <= NBLOCK /\ Cardinality(S \X Slot) = d * NICFREE
  <2> DEFINE g == [y \in S \X Slot |-> IF y[2] = 0 THEN y[1] ELSE blk[y[1]].free[y[2]]]
  <2>1. \A x \in S : At0(cur, blk, x) = blk[x] /\ blk[x].nfree = NICFREE /\ x # None
    BY Sizes DEF At0, Chain, Full
  <2>2. \A i \in Slot : i < NICFREE /\ (i # 0 => 0 < i)
    BY Sizes
  <2>3. ASSUME NEW x \in S, NEW i \in Slot, i # 0
        PROVE  blk[x].free[i] # None /\ blk[x].free[i] \in Block
    <3>1. blk[x].free[i] # None
      BY <2>1, <2>2, <2>3 DEF Chain, NoneFirst
    <3>2. blk[x].free[i] \in 0..NBLOCK
      BY <2>1, At0Type
    <3> QED BY <3>1, <3>2, Sizes DEF Block, None
  <2>4. ASSUME NEW x \in S, NEW y \in S, NEW j \in Slot, j # 0
        PROVE  x # blk[y].free[j]
    <3>1. PICK z \in S \cup {None} : At0(cur, blk, z).nfree > 0 /\ At0(cur, blk, z).free[0] = x
      BY DEF Chain, Rooted
    <3>2. 0 < At0(cur, blk, z).nfree /\ 0 \in Slot
      BY <3>1, At0Type, Sizes
    <3> QED BY <2>1, <2>2, <2>4, <3>1, <3>2 DEF Chain, Distinct
  <2>5. ASSUME NEW x \in S, NEW y \in S, NEW i \in Slot, NEW j \in Slot, i # 0, j # 0,
               blk[x].free[i] = blk[y].free[j]
        PROVE  x = y /\ i = j
    BY <2>1, <2>2, <2>3, <2>5 DEF Chain, Distinct
  <2>6. \A y \in S \X Slot : g[y] = IF y[2] = 0 THEN y[1] ELSE blk[y[1]].free[y[2]]
    OBVIOUS
  <2>7. g \in [S \X Slot -> Block]
    <3>1. \A y \in S \X Slot : (IF y[2] = 0 THEN y[1] ELSE blk[y[1]].free[y[2]]) \in Block
      BY <2>3
    <3> QED BY <3>1
  <2> HIDE DEF g
  <2>8. \A y, z \in S \X Slot : g[y] = g[z] => y = z
    <3> SUFFICES ASSUME NEW y \in S \X Slot, NEW z \in S \X Slot, g[y] = g[z] PROVE y = z
      OBVIOUS
    <3>1. y[1] \in S /\ y[2] \in Slot /\ z[1] \in S /\ z[2] \in Slot
      OBVIOUS
    <3>2. y[1] = z[1] /\ y[2] = z[2]
      BY <2>4, <2>5, <2>6, <3>1
    <3> QED BY <3>2
  <2>9. g \in Injection(S \X Slot, Block)
    BY <2>7, <2>8, Fun_IsInj
  <2>10. Cardinality(S \X Slot) <= NBLOCK
    BY <1>1, <2>9, FS_Injection
  <2> QED BY <1>1, <1>2, <2>10, FS_Product
<1> DEFINE q == NBLOCK \div NICFREE
<1>4. q \in Nat /\ NBLOCK % NICFREE \in Slot /\ NBLOCK = NICFREE * q + (NBLOCK % NICFREE)
  BY Division, Sizes
<1>5. Depth = 0..q
  BY DEF Depth
<1> HIDE DEF q
<1>6. d <= q
  <2> SUFFICES ASSUME d > q PROVE FALSE
    BY <1>4
  <2> DEFINE e == d - q - 1
  <2>1. e \in Nat /\ d = q + e + 1
    BY <1>4
  <2> HIDE DEF e
  <2>2. NICFREE * d = NICFREE * q + NICFREE * e + NICFREE /\ NICFREE * e \in Nat /\ NICFREE * q \in Nat
    BY <1>4, <2>1, Sizes
  <2>3. d * NICFREE = NICFREE * d /\ NICFREE * d \in Nat
    BY Sizes
  <2>4. NBLOCK % NICFREE < NICFREE /\ NBLOCK % NICFREE \in Nat
    BY <1>4, Sizes
  <2> QED BY <1>3, <1>4, <2>2, <2>3, <2>4, Sizes
<1> QED BY <1>4, <1>5, <1>6

(* Following the list meets the entries of the chain.                      *)
LEMMA PoolIs ==
  ASSUME NEW cur \in List, NEW blk \in [Block -> List], NEW S \in SUBSET Block, NEW held,
         Chain(S, cur, blk, held)
  PROVE  /\ FreeIn(cur, blk) = Entries(S, cur, blk)
         /\ Cardinality(PlacesIn(cur, blk)) = Cardinality(FreeIn(cur, blk))
<1>1. PICK d \in Nat : \E w : Order(w, d, S, cur, blk)
  BY DEF Chain, Ordered
<1>2. PICK w : Order(w, d, S, cur, blk)
  BY <1>1
<1>3. d \in Depth /\ 0..d \subseteq Depth
  <2>1. d \in Depth
    BY <1>2, DepthBound
  <2>2. NBLOCK \div NICFREE \in Nat
    BY Division, Sizes
  <2> QED BY <2>1, <2>2 DEF Depth
<1> DEFINE L(e) == ListsIn(cur, blk)[e]
           A(e) == At0(cur, blk, w[e])
<1>4. \A e \in Depth : (e <= d => L(e) = A(e)) /\ (~(e <= d) => L(e).nfree = 0)
  BY <1>2, <1>3, ListsAre, EmptyType
<1>5. None \notin S
  BY Sizes
<1>6. \A e \in 0..d : w[e] \in S \cup {None}
  BY <1>2, <1>5, OrderIn
<1>7. \A x \in S \cup {None} : \E e \in 0..d : w[e] = x
  <2> SUFFICES ASSUME NEW x \in S \cup {None} PROVE \E e \in 0..d : w[e] = x
    OBVIOUS
  <2>1. CASE x = None
    BY <1>2, <2>1 DEF Order
  <2>2. CASE x \in S
    <3>1. PICK e \in 1..d : w[e] = x
      BY <1>2, <2>2 DEF Order
    <3> QED BY <3>1
  <2> QED BY <2>1, <2>2
<1>8. \A e \in 0..d : A(e) \in List /\ A(e).nfree \in Nat /\ A(e).nfree <= NICFREE
                       /\ \A i \in Slot : A(e).free[i] \in 0..NBLOCK
  BY <1>6, At0Type
<1>9. \A e \in Depth : e <= d => e \in 0..d
  BY DepthType
<1>10. ASSUME NEW e \in Depth, NEW i \in Int
       PROVE  i \in 0..L(e).nfree-1 <=> e \in 0..d /\ i \in Slot /\ i < A(e).nfree
  <2>1. CASE e <= d
    <3>1. e \in 0..d /\ L(e) = A(e)
      BY <1>4, <1>9, <2>1
    <3>2. A(e).nfree \in Nat /\ A(e).nfree <= NICFREE
      BY <1>8, <3>1
    <3> HIDE DEF L, A
    <3>3. i \in 0..A(e).nfree-1 <=> i \in Slot /\ i < A(e).nfree
      BY <3>2, Sizes
    <3> QED BY <3>1, <3>3
  <2>2. CASE ~(e <= d)
    <3>1. L(e).nfree = 0
      BY <1>4, <2>2
    <3>2. e \notin 0..d
      BY <2>2
    <3> HIDE DEF L, A
    <3> QED BY <3>1, <3>2
  <2> QED BY <2>1, <2>2
<1> HIDE DEF L, A
<1>11. FreeIn(cur, blk) = (UNION {{L(e).free[i] : i \in 0..L(e).nfree-1} : e \in Depth}) \ {None}
  BY DEF FreeIn, L
<1>12. FreeIn(cur, blk) \subseteq Entries(S, cur, blk)
  <2> SUFFICES ASSUME NEW b \in FreeIn(cur, blk) PROVE b \in Entries(S, cur, blk)
    OBVIOUS
  <2>1. b # None /\ \E e \in Depth : \E i \in 0..L(e).nfree-1 : b = L(e).free[i]
    BY <1>11
  <2>2. PICK e \in Depth : \E i \in 0..L(e).nfree-1 : b = L(e).free[i]
    BY <2>1
  <2>3. PICK i \in 0..L(e).nfree-1 : b = L(e).free[i]
    BY <2>2
  <2>4. e \in 0..d /\ i \in Slot /\ i < A(e).nfree
    BY <1>10, <2>3
  <2>5. e <= d
    BY <2>4
  <2>6. b = A(e).free[i] /\ w[e] \in S \cup {None} /\ b \in 0..NBLOCK
    BY <1>4, <1>6, <1>8, <2>3, <2>4, <2>5
  <2>7. b \in Block
    BY <2>1, <2>6, Sizes DEF Block, None
  <2> QED BY <2>4, <2>6, <2>7 DEF Entries, A
<1>13. Entries(S, cur, blk) \subseteq FreeIn(cur, blk)
  <2> SUFFICES ASSUME NEW b \in Entries(S, cur, blk) PROVE b \in FreeIn(cur, blk)
    OBVIOUS
  <2>1. PICK x \in S \cup {None}, i \in Slot : i < At0(cur, blk, x).nfree /\ At0(cur, blk, x).free[i] = b
    BY DEF Entries
  <2>2. PICK e \in 0..d : w[e] = x
    BY <1>7
  <2>3. e \in Depth /\ e <= d /\ i \in Int /\ i < A(e).nfree /\ A(e).free[i] = b
    BY <1>3, <2>1, <2>2, Sizes DEF A
  <2>4. i \in 0..L(e).nfree-1 /\ b = L(e).free[i]
    BY <1>4, <1>10, <2>3
  <2>5. b # None
    BY Sizes DEF Entries
  <2> QED BY <1>11, <2>3, <2>4, <2>5
<1>14. FreeIn(cur, blk) = Entries(S, cur, blk)
  BY <1>12, <1>13
<1> DEFINE P == PlacesIn(cur, blk)
           f == [y \in P |-> L(y[1]).free[y[2]]]
<1>15. \A y : y \in P <=> /\ y \in Depth \X Slot /\ y[2] < L(y[1]).nfree
                           /\ L(y[1]).free[y[2]] # None
  BY DEF PlacesIn, L
<1> HIDE DEF P
<1>16. ASSUME NEW y \in P
       PROVE  /\ y[1] \in 0..d /\ y[1] \in Depth /\ y[2] \in Slot /\ y = <<y[1], y[2]>>
              /\ y[2] < A(y[1]).nfree /\ f[y] = A(y[1]).free[y[2]] /\ f[y] # None
  <2>1. y \in Depth \X Slot /\ y[2] < L(y[1]).nfree /\ L(y[1]).free[y[2]] # None
    BY <1>15
  <2>2. y[1] \in Depth /\ y[2] \in Slot /\ y = <<y[1], y[2]>>
    BY <2>1
  <2>3. y[1] <= d
    <3> SUFFICES ASSUME ~(y[1] <= d) PROVE FALSE
      OBVIOUS
    <3>1. y[2] < 0
      BY <1>4, <2>1, <2>2
    <3> QED BY <2>2, <3>1, Sizes
  <2>4. L(y[1]) = A(y[1]) /\ y[1] \in 0..d
    BY <1>4, <1>9, <2>2, <2>3
  <2> QED BY <2>1, <2>2, <2>4
<1>17. f \in [P -> Entries(S, cur, blk)]
  <2>1. ASSUME NEW y \in P PROVE L(y[1]).free[y[2]] \in Entries(S, cur, blk)
    <3>1. /\ y[1] \in 0..d /\ y[2] \in Slot /\ y[2] < A(y[1]).nfree
          /\ L(y[1]).free[y[2]] = A(y[1]).free[y[2]] /\ L(y[1]).free[y[2]] # None
      BY <1>16
    <3>2. w[y[1]] \in S \cup {None} /\ L(y[1]).free[y[2]] \in 0..NBLOCK
      BY <1>6, <1>8, <3>1
    <3>3. L(y[1]).free[y[2]] \in Block
      BY <3>1, <3>2, Sizes DEF Block, None
    <3> QED BY <3>1, <3>2, <3>3 DEF Entries, A
  <2> QED BY <2>1
<1> HIDE DEF f
<1>18. \A y, z \in P : f[y] = f[z] => y = z
  <2> SUFFICES ASSUME NEW y \in P, NEW z \in P, f[y] = f[z] PROVE y = z
    OBVIOUS
  <2>1. /\ y[1] \in 0..d /\ z[1] \in 0..d /\ y[2] \in Slot /\ z[2] \in Slot
        /\ y[2] < A(y[1]).nfree /\ z[2] < A(z[1]).nfree
        /\ A(y[1]).free[y[2]] = A(z[1]).free[z[2]] /\ A(y[1]).free[y[2]] # None
        /\ y = <<y[1], y[2]>> /\ z = <<z[1], z[2]>>
    BY <1>16
  <2>2. w[y[1]] \in S \cup {None} /\ w[z[1]] \in S \cup {None}
    BY <1>6, <2>1
  <2>3. w[y[1]] = w[z[1]] /\ y[2] = z[2]
    BY <2>1, <2>2 DEF Chain, Distinct, A
  <2>4. y[1] = z[1]
    BY <1>2, <2>1, <2>3 DEF Order
  <2> QED BY <2>1, <2>3, <2>4
<1>19. \A b \in Entries(S, cur, blk) : \E y \in P : f[y] = b
  <2> SUFFICES ASSUME NEW b \in Entries(S, cur, blk) PROVE \E y \in P : f[y] = b
    OBVIOUS
  <2>1. PICK x \in S \cup {None}, i \in Slot : i < At0(cur, blk, x).nfree /\ At0(cur, blk, x).free[i] = b
    BY DEF Entries
  <2>2. PICK e \in 0..d : w[e] = x
    BY <1>7
  <2>3. e \in Depth /\ e <= d /\ i < A(e).nfree /\ A(e).free[i] = b /\ L(e) = A(e)
    BY <1>3, <1>4, <2>1, <2>2 DEF A
  <2>4. b # None
    BY Sizes DEF Entries
  <2> DEFINE y == <<e, i>>
  <2>5. y \in Depth \X Slot /\ y[1] = e /\ y[2] = i
    BY <2>3
  <2> HIDE DEF y
  <2>6. y \in P
    BY <1>15, <2>3, <2>4, <2>5
  <2>7. f[y] = b
    BY <1>16, <2>3, <2>5, <2>6
  <2> QED BY <2>6, <2>7
<1>20. f \in Bijection(P, Entries(S, cur, blk))
  BY <1>17, <1>18, <1>19, Fun_IsBij
<1>21. ExistsBijection(Entries(S, cur, blk), P)
  BY <1>20, Fun_ExistsBijSymmetric DEF ExistsBijection
<1>22. IsFiniteSet(Entries(S, cur, blk))
  <2>1. IsFiniteSet(Block)
    BY FS_Interval, Sizes DEF Block
  <2> QED BY <2>1, FS_Subset DEF Entries
<1>23. Cardinality(P) = Cardinality(Entries(S, cur, blk))
  BY <1>21, <1>22, FS_Bijection
<1> QED BY <1>14, <1>23 DEF P

-----------------------------------------------------------------------------
(* What each change of the list does to the pool.                          *)
LEMMA EntriesApart ==
  ASSUME NEW S, NEW cur, NEW blk, NEW held, Chain(S, cur, blk, held)
  PROVE  Entries(S, cur, blk) \cap held = {} /\ Entries(S, cur, blk) \subseteq Block
  BY DEF Entries, Chain, Apart

LEMMA PoolPop ==
  ASSUME NEW cur \in List, NEW blk \in [Block -> List], NEW S \in SUBSET Block, NEW held,
         Chain(S, cur, blk, held), cur.nfree > 1, Top(cur) # None
  PROVE  /\ FreeIn(Popped(cur), blk) = FreeIn(cur, blk) \ {Top(cur)}
         /\ Top(cur) \in FreeIn(cur, blk) /\ Popped(cur) \in List
         /\ Chain(S, Popped(cur), blk, held \cup {Top(cur)})
<1> DEFINE b == Top(cur)
           n == cur.nfree - 1
           new == Popped(cur)
<1>1. /\ new \in List /\ new.nfree = n /\ n \in Slot /\ b = cur.free[n] /\ b \in Block
      /\ n < cur.nfree /\ cur.nfree \in Nat
      /\ \A i \in Slot : i # n => new.free[i] = cur.free[i]
  <2>1. cur.nfree \in Nat /\ cur.nfree > 0
    BY DEF List
  <2>2. n < cur.nfree
    BY <2>1
  <2>3. Top(cur) \in 0..NBLOCK
    BY <2>1, PoppedType
  <2> QED BY <2>1, <2>2, <2>3, PoppedType, Sizes DEF Block, None
<1>2. \A i \in Slot : /\ i < n => i # n /\ i < cur.nfree
                      /\ i < cur.nfree /\ i # n => i < n
  <2>1. Slot \subseteq Int /\ n \in Int /\ cur.nfree = n + 1
    BY <1>1, Sizes
  <2> HIDE DEF n
  <2> QED BY <1>1, <2>1
<1>3. Chain(S, new, blk, held \cup {b})
  BY PopEntry
<1>4. At0(new, blk, None) = new /\ At0(cur, blk, None) = cur
  BY DEF At0
<1>5. \A x \in S : At0(new, blk, x) = At0(cur, blk, x)
  BY Sizes DEF At0
<1> HIDE DEF b, n, new
<1>6. \A x \in S \cup {None}, i \in Slot :
        i < At0(new, blk, x).nfree =>
          i < At0(cur, blk, x).nfree /\ At0(new, blk, x).free[i] = At0(cur, blk, x).free[i]
  BY <1>1, <1>2, <1>4, <1>5
<1>7. \A x \in S \cup {None}, i \in Slot :
        i < At0(cur, blk, x).nfree /\ At0(cur, blk, x).free[i] # b =>
          i < At0(new, blk, x).nfree /\ At0(new, blk, x).free[i] = At0(cur, blk, x).free[i]
  BY <1>1, <1>2, <1>4, <1>5
<1>8. Entries(S, new, blk) = Entries(S, cur, blk) \ {b}
  <2>1. Entries(S, new, blk) \subseteq Entries(S, cur, blk)
    BY <1>6 DEF Entries
  <2>2. b \notin Entries(S, new, blk)
    BY <1>3, EntriesApart
  <2>3. \A c \in Entries(S, cur, blk) : c # b => c \in Entries(S, new, blk)
    BY <1>7 DEF Entries
  <2> QED BY <2>1, <2>2, <2>3
<1>9. b \in Entries(S, cur, blk)
  BY <1>1, <1>4 DEF Entries
<1>10. FreeIn(new, blk) = Entries(S, new, blk) /\ FreeIn(cur, blk) = Entries(S, cur, blk)
  BY <1>1, <1>3, PoolIs
<1> QED BY <1>1, <1>3, <1>8, <1>9, <1>10 DEF b, new

LEMMA PoolPopLast ==
  ASSUME NEW cur \in List, NEW blk \in [Block -> List], NEW S \in SUBSET Block, NEW held,
         Chain(S, cur, blk, held), cur.nfree = 1, NEW b, b = cur.free[0], b # None
  PROVE  FreeIn(blk[b], blk) = FreeIn(cur, blk) \ {b} /\ b \in FreeIn(cur, blk)
<1> DEFINE T == S \ {b}
           back(x) == IF x = None THEN b ELSE x
<1>1. At0(cur, blk, None) = cur /\ 0 < 1 /\ 0 \in Slot
  BY Sizes DEF At0
<1>2. b \in S
  BY <1>1 DEF Chain, Linked
<1>3. Chain(T, blk[b], blk, held \cup {b}) /\ T \in SUBSET Block /\ blk[b] \in List
  BY <1>2, PopLast
<1>4. \A x \in T \cup {None} : back(x) \in S /\ At0(blk[b], blk, x) = At0(cur, blk, back(x))
  BY <1>2, Sizes DEF At0
<1>5. \A x \in S : \E y \in T \cup {None} : back(y) = x
  BY Sizes
<1>6. \A i \in Slot : i < 1 => i = 0
  BY Sizes
<1> HIDE DEF T, back
<1>7. Entries(T, blk[b], blk) = Entries(S, cur, blk) \ {b}
  <2>1. Entries(T, blk[b], blk) \subseteq Entries(S, cur, blk)
    BY <1>4 DEF Entries
  <2>2. b \notin Entries(T, blk[b], blk)
    BY <1>3, EntriesApart
  <2>3. ASSUME NEW c \in Entries(S, cur, blk), c # b PROVE c \in Entries(T, blk[b], blk)
    <3>1. PICK x \in S \cup {None}, i \in Slot : i < At0(cur, blk, x).nfree /\ At0(cur, blk, x).free[i] = c
      BY DEF Entries
    <3>2. x # None
      BY <1>1, <1>6, <2>3, <3>1
    <3>3. PICK y \in T \cup {None} : back(y) = x
      BY <1>5, <3>2
    <3> QED BY <1>4, <3>1, <3>3 DEF Entries
  <2> QED BY <2>1, <2>2, <2>3
<1>8. b \in Entries(S, cur, blk)
  BY <1>1, <1>2 DEF Entries
<1>9. FreeIn(blk[b], blk) = Entries(T, blk[b], blk) /\ FreeIn(cur, blk) = Entries(S, cur, blk)
  BY <1>3, PoolIs
<1> QED BY <1>7, <1>8, <1>9

LEMMA PoolPut ==
  ASSUME NEW cur \in List, NEW blk \in [Block -> List], NEW S \in SUBSET Block, NEW held,
         Chain(S, cur, blk, held), cur.nfree > 0, cur.nfree < NICFREE, NEW b \in Block, b \in held
  PROVE  FreeIn(Put(cur, b), blk) = FreeIn(cur, blk) \cup {b}
<1> DEFINE n == cur.nfree
           new == Put(cur, b)
<1>1. /\ new \in List /\ new.nfree = n + 1 /\ n \in Slot /\ new.free[n] = b /\ n \in Nat
      /\ \A i \in Slot : i # n => new.free[i] = cur.free[i]
  <2>1. b \in 0..NBLOCK /\ n \in Nat
    BY Sizes DEF Block, List
  <2> QED BY <2>1, PutType
<1>2. \A i \in Slot : /\ i < n => i # n /\ i < n + 1
                      /\ i < n + 1 /\ i # n => i < n
  <2>1. Slot \subseteq Int /\ n \in Int
    BY <1>1, Sizes
  <2> HIDE DEF n, new
  <2> QED BY <2>1
<1>3. Chain(S, new, blk, held \ {b})
  BY PushEntry
<1>4. At0(new, blk, None) = new /\ At0(cur, blk, None) = cur /\ cur.nfree = n /\ n < n + 1
  BY <1>1 DEF At0
<1>5. \A x \in S : At0(new, blk, x) = At0(cur, blk, x)
  BY Sizes DEF At0
<1> HIDE DEF n, new
<1>6. \A x \in S \cup {None}, i \in Slot :
        i < At0(cur, blk, x).nfree =>
          i < At0(new, blk, x).nfree /\ At0(new, blk, x).free[i] = At0(cur, blk, x).free[i]
  BY <1>1, <1>2, <1>4, <1>5
<1>7. \A x \in S \cup {None}, i \in Slot :
        i < At0(new, blk, x).nfree /\ At0(new, blk, x).free[i] # b =>
          i < At0(cur, blk, x).nfree /\ At0(new, blk, x).free[i] = At0(cur, blk, x).free[i]
  BY <1>1, <1>2, <1>4, <1>5
<1>8. Entries(S, cur, blk) \subseteq Entries(S, new, blk)
  BY <1>6 DEF Entries
<1>9. b \in Entries(S, new, blk)
  BY <1>1, <1>4 DEF Entries
<1>10. \A c \in Entries(S, new, blk) : c # b => c \in Entries(S, cur, blk)
  BY <1>7 DEF Entries
<1>11. FreeIn(new, blk) = Entries(S, new, blk) /\ FreeIn(cur, blk) = Entries(S, cur, blk)
  BY <1>1, <1>3, PoolIs
<1> QED BY <1>8, <1>9, <1>10, <1>11 DEF new

LEMMA PoolCons ==
  ASSUME NEW blk \in [Block -> List], NEW S \in SUBSET Block, NEW held, NEW b \in Block,
         Chain(S, blk[b], blk, held), b \in held, blk[b].nfree = NICFREE,
         NEW new \in List, new.nfree = 1, new.free[0] = b
  PROVE  FreeIn(new, blk) = FreeIn(blk[b], blk) \cup {b}
<1> DEFINE T == S \cup {b}
           old == blk[b]
           back(x) == IF x = b THEN None ELSE x
<1>1. b # None /\ b \notin S /\ None \notin S /\ T \in SUBSET Block /\ old \in List /\ 0 \in Slot /\ 0 < 1
  BY NotOfChain, Sizes
<1>2. At0(new, blk, None) = new
  BY DEF At0
<1>3. \A x \in T : back(x) \in S \cup {None} /\ At0(new, blk, x) = At0(old, blk, back(x))
  BY <1>1 DEF At0
<1>4. \A x \in S \cup {None} : \E y \in T : back(y) = x
  BY <1>1
<1>5. \A i \in Slot : i < 1 => i = 0
  BY Sizes
<1>6. Chain(T, new, blk, held \ {b})
  BY PushLast
<1>7. Chain(S, old, blk, held)
  OBVIOUS
<1> HIDE DEF T, back, old
<1>8. \A c \in Entries(S, old, blk) : c \in Entries(T, new, blk)
  BY <1>3, <1>4 DEF Entries
<1>9. b \in Entries(T, new, blk)
  BY <1>1, <1>2 DEF Entries
<1>10. ASSUME NEW c \in Entries(T, new, blk), c # b PROVE c \in Entries(S, old, blk)
  <2>1. PICK x \in T \cup {None}, i \in Slot : i < At0(new, blk, x).nfree /\ At0(new, blk, x).free[i] = c
    BY DEF Entries
  <2>2. x # None
    BY <1>2, <1>5, <1>10, <2>1
  <2> QED BY <1>3, <2>1, <2>2 DEF Entries
<1>11. FreeIn(new, blk) = Entries(T, new, blk) /\ FreeIn(old, blk) = Entries(S, old, blk)
  BY <1>1, <1>6, <1>7, PoolIs
<1> QED BY <1>8, <1>9, <1>10, <1>11 DEF old

(* The list is empty, or its only entry is block 0.                        *)
LEMMA PoolEmpty ==
  ASSUME NEW cur \in List, NEW blk \in [Block -> List], NEW S \in SUBSET Block, NEW held,
         Chain(S, cur, blk, held), cur.nfree = 0 \/ Top(cur) = None
  PROVE  FreeIn(cur, blk) = {}
<1>1. cur.nfree \in Nat /\ At0(cur, blk, None) = cur
  BY DEF List, At0
<1>2. CASE cur.nfree = 0
  <2>1. Chain({}, cur, blk, held)
    BY <1>2, Nothing
  <2>2. Entries({}, cur, blk) = {}
    <3>1. \A i \in Slot : ~(i < 0)
      BY Sizes
    <3> QED BY <1>1, <1>2, <3>1 DEF Entries
  <2> QED BY <2>1, <2>2, PoolIs
<1>3. CASE cur.nfree > 0 /\ Top(cur) = None
  <2>1. cur.nfree - 1 \in Slot /\ cur.free[cur.nfree - 1] = None
    BY <1>3, PoppedType
  <2>2. cur.nfree = 1
    <3> SUFFICES ASSUME cur.nfree # 1 PROVE FALSE
      OBVIOUS
    <3>1. 0 < cur.nfree - 1 /\ cur.nfree - 1 < cur.nfree
      BY <1>1, <1>3
    <3> QED BY <1>1, <2>1, <3>1 DEF Chain, NoneFirst
  <2>3. cur.free[0] = None
    BY <2>1, <2>2
  <2>4. S = {}
    <3>1. PICK d \in Nat : \E w : Order(w, d, S, cur, blk)
      BY DEF Chain, Ordered
    <3>2. PICK w : Order(w, d, S, cur, blk)
      BY <3>1
    <3>3. d = 0
      <4> SUFFICES ASSUME d # 0 PROVE FALSE
        OBVIOUS
      <4>1. 0 \in 0..d-1 /\ 1 \in 0..d /\ 0 + 1 = 1
        OBVIOUS
      <4>2. w[1] # None
        BY <3>2, <4>1, OrderIn, Sizes
      <4> QED BY <1>1, <2>3, <3>2, <4>1, <4>2 DEF Order
    <3>4. 1..d = {}
      BY <3>3
    <3> QED BY <3>2, <3>4 DEF Order
  <2>5. Entries(S, cur, blk) = {}
    <3>1. \A i \in Slot : i < 1 => i = 0
      BY Sizes
    <3> QED BY <1>1, <2>2, <2>3, <2>4, <3>1, Sizes DEF Entries
  <2> QED BY <2>5, PoolIs
<1> QED BY <1>1, <1>2, <1>3

LEMMA PoolBegun ==
  ASSUME NEW cur \in List, NEW blk \in [Block -> List], NEW S \in SUBSET Block, NEW held,
         Chain(S, cur, blk, held), cur.nfree = 0, None \notin held
  PROVE  FreeIn(Put(Empty, None), blk) = FreeIn(cur, blk)
<1>1. Chain(S, Put(Empty, None), blk, held)
  BY Begun
<1>2. Put(Empty, None) \in List /\ Top(Put(Empty, None)) = None
  <2>1. /\ Put(Empty, None) \in List /\ Put(Empty, None).nfree = 1 /\ Put(Empty, None).free[0] = None
    BY PutType, EmptyType, Sizes DEF None
  <2> QED BY <2>1 DEF Top
<1> QED BY <1>1, <1>2, PoolEmpty

LEMMA PoolFrame ==
  ASSUME NEW cur \in List, NEW blk \in [Block -> List], NEW S \in SUBSET Block, NEW held,
         Chain(S, cur, blk, held), NEW blk2 \in [Block -> List], \A x \in S : blk2[x] = blk[x]
  PROVE  FreeIn(cur, blk2) = FreeIn(cur, blk)
<1>1. Chain(S, cur, blk2, held)
  BY Frame
<1>2. \A x \in S \cup {None} : At0(cur, blk2, x) = At0(cur, blk, x)
  BY DEF At0
<1>3. Entries(S, cur, blk2) = Entries(S, cur, blk)
  BY <1>2 DEF Entries
<1> QED BY <1>1, <1>3, PoolIs

(* mkfs frees every block.                                                 *)
LEMMA PoolMade == FreeIn(Made, MadeBlocks) = Block
<1> DEFINE Nodes == Multiples \cup {None}
<1>1. \A x \in Nodes : /\ At0(Made, MadeBlocks, x).nfree = Count(x)
                       /\ \A i \in Slot : i < Count(x) => At0(Made, MadeBlocks, x).free[i] = Base(x) + i
  BY MadeList
<1>2. ASSUME NEW b \in Block PROVE \E x \in Nodes, i \in Slot : i < Count(x) /\ Base(x) + i = b
  <2>1. b \in Nat /\ b > 0 /\ b <= NBLOCK
    BY Sizes DEF Block
  <2> DEFINE q == b \div NICFREE
             r == b % NICFREE
             y == NICFREE * q + NICFREE
  <2>2. q \in Nat /\ r \in Slot /\ b = NICFREE * q + r
    BY <2>1, Division
  <2>3. r \in Nat /\ r < NICFREE
    BY <2>2, Sizes
  <2> HIDE DEF q, r
  <2>4. NICFREE * q \in Nat /\ y \in Nat /\ y = NICFREE * (q + 1)
    BY <2>2, Sizes
  <2>5. CASE y <= NBLOCK
    <3>1. y > 0 /\ y % NICFREE = 0
      <4>1. y % NICFREE = 0
        BY <2>2, <2>4, MultipleIs
      <4> QED BY <2>4, <4>1, Sizes
    <3>2. y \in Multiples /\ y # None
      BY <2>4, <2>5, <3>1, Sizes DEF Multiples, Block, None
    <3>3. Base(y) = NICFREE * q /\ Count(y) = NICFREE
      <4>1. Base(y) = y - NICFREE /\ Count(y) = NICFREE
        BY <3>2 DEF Base, Count
      <4>2. y - NICFREE = NICFREE * q
        BY <2>4, Sizes
      <4> QED BY <4>1, <4>2
    <3> QED BY <2>2, <2>3, <3>2, <3>3
  <2>6. CASE ~(y <= NBLOCK)
    <3> DEFINE j == NBLOCK - NICFREE * q
    <3>1. j \in Nat /\ j < NICFREE /\ r <= j /\ NBLOCK = NICFREE * q + j
      BY <2>1, <2>2, <2>3, <2>4, <2>6, Sizes
    <3> HIDE DEF j
    <3>2. j \in Slot
      BY <3>1, Sizes
    <3>3. Last \in Slot /\ NBLOCK = NICFREE * (NBLOCK \div NICFREE) + Last /\ NBLOCK \div NICFREE \in Nat
      BY Division, Sizes DEF Last
    <3>4. j = Last
      BY <2>2, <3>1, <3>2, <3>3, Unique
    <3>5. Base(None) = NICFREE * q /\ Count(None) = j + 1
      <4>1. NBLOCK - j = NICFREE * q
        BY <2>4, <3>1, Sizes
      <4> QED BY <3>4, <4>1 DEF Base, Count
    <3>6. r < j + 1
      BY <2>3, <3>1
    <3> QED BY <2>2, <3>5, <3>6
  <2> QED BY <2>5, <2>6
<1> HIDE DEF Nodes
<1>3. Block \subseteq Entries(Multiples, Made, MadeBlocks)
  <2> SUFFICES ASSUME NEW b \in Block PROVE b \in Entries(Multiples, Made, MadeBlocks)
    OBVIOUS
  <2>1. PICK x \in Nodes, i \in Slot : i < Count(x) /\ Base(x) + i = b
    BY <1>2
  <2>2. i < At0(Made, MadeBlocks, x).nfree /\ At0(Made, MadeBlocks, x).free[i] = b
    BY <1>1, <2>1
  <2> QED BY <2>2 DEF Entries, Nodes
<1>4. Multiples \in SUBSET Block
  BY DEF Multiples
<1>5. FreeIn(Made, MadeBlocks) = Entries(Multiples, Made, MadeBlocks)
  BY <1>4, MadeType, MadeChain, PoolIs
<1> QED BY <1>3, <1>5 DEF Entries

-----------------------------------------------------------------------------
(* What a step does to the pool, the blocks held, the requests refused and *)
(* s_tfree.                                                                *)
Free == FreeOf(Current)
Refused == {p \in Proc : pc[p] = "nospace"}
Taking == {p \in Proc : pc[p] \in {"chain", "take"}}

Took(p, b) ==
  /\ b \in Free /\ b \notin Held /\ Free' = Free \ {b} /\ Held' = Held \cup {b}
  /\ Refused' = Refused /\ errors' = errors
  /\ p \notin Taking /\ Taking' = Taking \cup {p} /\ fp'.tfree = fp.tfree
Gave(b) ==
  /\ b \in Held /\ b \notin Free /\ Free' = Free \cup {b} /\ Held' = Held \ {b}
  /\ Refused' = Refused /\ errors' = errors
  /\ Taking' = Taking /\ fp'.tfree = fp.tfree + 1
Denied(p) ==
  /\ Free = {} /\ Free' = {} /\ Held' = Held
  /\ Refused' = Refused \cup {p} /\ errors' = errors
  /\ fp'.tfree = 0
Lost ==
  /\ errors' > 0 /\ Free' = {} /\ Held' \subseteq Held /\ Refused \subseteq Refused'
  /\ fp'.tfree = 0
Kept(p) ==
  /\ Free' = Free /\ Held' = Held /\ errors' = errors
  /\ Refused' = Refused \/ Refused' = Refused \ {p}
  /\ \/ Taking' = Taking /\ fp'.tfree = fp.tfree
     \/ p \in Taking /\ Taking' = Taking \ {p} /\ fp'.tfree = IF fp.tfree > 0 THEN fp.tfree - 1 ELSE 0

LEMMA CurrentIs ==
  IInv => /\ (\A p \in Proc : pc[p] \in AtBlock => Current = fblk[u[p].bno])
          /\ (\A p \in Proc : pc[p] \notin AtBlock) => Current = fp.list
          /\ Current \in List /\ fblk \in [Block -> List]
<1> SUFFICES ASSUME IInv
             PROVE  /\ (\A p \in Proc : pc[p] \in AtBlock => Current = fblk[u[p].bno])
                    /\ (\A p \in Proc : pc[p] \notin AtBlock) => Current = fp.list
                    /\ Current \in List /\ fblk \in [Block -> List]
  OBVIOUS
<1>1. \A p \in Proc : pc[p] \in AtBlock => Current = fblk[u[p].bno] /\ u[p].bno \in Block
  BY CurrentMoved, Types DEF IInv, Hands, AtBlock
<1>2. (\A p \in Proc : pc[p] \notin AtBlock) => Current = fp.list
  BY CurrentFree
<1>3. fp.list \in List /\ fblk \in [Block -> List]
  BY Types DEF IInv, TypeOK
<1>4. Current \in List
  <2>1. CASE \A p \in Proc : pc[p] \notin AtBlock
    BY <1>2, <1>3, <2>1
  <2>2. CASE \E p \in Proc : pc[p] \in AtBlock
    BY <1>1, <1>3, <2>2
  <2> QED BY <2>1, <2>2
<1> QED BY <1>1, <1>2, <1>3, <1>4

LEMMA CurrentThen ==
  IInv' => /\ (\A p \in Proc : pc'[p] \in AtBlock => Current' = fblk'[u'[p].bno])
           /\ (\A p \in Proc : pc'[p] \notin AtBlock) => Current' = fp'.list
           /\ Current' \in List /\ fblk' \in [Block -> List]
<1>1. (IInv => /\ (\A p \in Proc : pc[p] \in AtBlock => Current = fblk[u[p].bno])
               /\ (\A p \in Proc : pc[p] \notin AtBlock) => Current = fp.list
               /\ Current \in List /\ fblk \in [Block -> List])'
  BY CurrentIs, PTL
<1>2. AtBlock' = AtBlock /\ List' = List /\ Block' = Block
  BY DEF AtBlock, List, Block, Slot
<1> QED BY <1>1, <1>2

LEMMA FreeNow ==
  ASSUME IInv
  PROVE  /\ Free \subseteq Block /\ Free \cap Held = {} /\ Held \subseteq Block
         /\ Cardinality(PlacesIn(Current, fblk)) = Cardinality(Free)
<1>1. PICK S \in SUBSET Block : Chain(S, Current, fblk, Held)
  BY DEF IInv, Chained
<1>2. Current \in List /\ fblk \in [Block -> List]
  BY CurrentIs
<1>3. /\ FreeIn(Current, fblk) = Entries(S, Current, fblk)
      /\ Cardinality(PlacesIn(Current, fblk)) = Cardinality(FreeIn(Current, fblk))
  BY <1>1, <1>2, PoolIs
<1>4. Free = FreeIn(Current, fblk)
  BY FreeOfIs DEF Free
<1>5. Held \subseteq Block
  <2>1. TypeOK
    BY DEF IInv
  <2>2. \A p \in Proc : u[p].bno # None => u[p].bno \in Block
    BY <2>1, Types
  <2>3. \A f \in File : \A i \in 1..Len(addr[f]) : addr[f][i] \in Block
    BY <2>1, HeldIs
  <2> QED BY <2>2, <2>3 DEF Held, InHand, InFile
<1> QED BY <1>1, <1>3, <1>4, <1>5, EntriesApart

LEMMA FreeSame ==
  ASSUME Current' = Current, fblk' = fblk
  PROVE  Free' = Free
  BY FreeOfNow DEF Free

(* Only the hands of p change.                                             *)
LEMMA HeldNow ==
  ASSUME TypeOK, NoBlockTwice, addr' = addr, NEW p \in Proc,
         \A q \in Proc : q # p => u'[q].bno = u[q].bno
  PROVE  Held' = (Held \ {u[p].bno}) \cup ({u'[p].bno} \ {None})
<1>1. \A f \in File : InFile(f)' = InFile(f)
  BY DEF InFile
<1>2. \A c : c \in Held <=> \/ c # None /\ \E q \in Proc : u[q].bno = c
                            \/ \E f \in File : c \in InFile(f)
  BY DEF Held, InHand
<1>3. \A c : c \in Held' <=> \/ c # None /\ \E q \in Proc : u'[q].bno = c
                             \/ \E f \in File : c \in InFile(f)
  BY <1>1 DEF Held, InHand
<1>4. \A f \in File : None \notin InFile(f) /\ u[p].bno \notin InFile(f)
  BY HeldIs DEF NoBlockTwice
<1>5. \A q \in Proc : u[q].bno = u[p].bno /\ u[q].bno # None => q = p
  BY DEF NoBlockTwice
<1>6. ASSUME NEW c \in Held' PROVE c \in (Held \ {u[p].bno}) \cup ({u'[p].bno} \ {None})
  <2>1. CASE c # None /\ \E q \in Proc : u'[q].bno = c
    <3>1. PICK q \in Proc : u'[q].bno = c /\ c # None
      BY <2>1
    <3>2. CASE q = p
      BY <3>1, <3>2
    <3>3. CASE q # p
      <4>1. u[q].bno = c /\ c # u[p].bno
        BY <1>5, <3>1, <3>3
      <4> QED BY <1>2, <3>1, <4>1
    <3> QED BY <3>2, <3>3
  <2>2. CASE \E f \in File : c \in InFile(f)
    BY <1>2, <1>4, <2>2
  <2> QED BY <1>3, <2>1, <2>2
<1>7. ASSUME NEW c \in Held, c # u[p].bno PROVE c \in Held'
  <2>1. CASE c # None /\ \E q \in Proc : u[q].bno = c
    <3>1. PICK q \in Proc : u[q].bno = c /\ c # None
      BY <2>1
    <3>2. u'[q].bno = c
      BY <1>7, <3>1
    <3> QED BY <1>3, <3>1, <3>2
  <2>2. CASE \E f \in File : c \in InFile(f)
    BY <1>3, <2>2
  <2> QED BY <1>2, <2>1, <2>2
<1>8. u'[p].bno # None => u'[p].bno \in Held'
  BY <1>3
<1> QED BY <1>6, <1>7, <1>8

LEMMA HeldSame ==
  ASSUME TypeOK, NoBlockTwice, addr' = addr, \A q \in Proc : u'[q].bno = u[q].bno
  PROVE  Held' = Held
<1>1. InHand' = InHand
  BY DEF InHand
<1> QED BY <1>1 DEF Held, InFile

-----------------------------------------------------------------------------
(* Steps that leave the list and the blocks alone.                         *)
LEMMA QuietKept ==
  ASSUME IInv, NEW p \in Proc, fp'.list = fp.list, fp'.tfree = fp.tfree, fblk' = fblk, addr' = addr, errors' = errors,
         \A q \in Proc : u'[q].bno = u[q].bno,
         \A q \in Proc : q # p => pc'[q] = pc[q],
         pc'[p] = pc[p] \/ (pc[p] \notin WithBlock /\ pc'[p] \notin WithBlock /\ pc'[p] # "nospace")
  PROVE  Kept(p)
<1>1. \A q \in Proc : (pc'[q] \in AtBlock <=> pc[q] \in AtBlock) /\ fblk'[u'[q].bno] = fblk[u[q].bno]
  BY DEF AtBlock, WithBlock
<1>2. Current' = Current
  BY <1>1, CurrentSame
<1>3. Held' = Held
  BY HeldSame DEF IInv
<1>4. Free' = Free
  BY <1>2, FreeSame
<1>5. Refused' = Refused \/ Refused' = Refused \ {p}
  BY DEF Refused
<1>6. Taking' = Taking
  BY DEF Taking, WithBlock
<1> QED BY <1>3, <1>4, <1>5, <1>6 DEF Kept

LEMMA StartKept ==
  ASSUME IInv, NEW p \in Proc, NEW f \in File, Grow(p, f) \/ Truncate(p, f)
  PROVE  Kept(p)
<1>1. PICK l \in {"alloc", "trunc"} :
        /\ pc[p] = "idle" /\ Goto(p, l) /\ u' = [u EXCEPT ![p].file = f]
        /\ UNCHANGED <<fp, super, fblk, addr, asleep, saving, errors>>
  BY DEF Grow, Truncate, At
<1>2. TypeOK /\ l \in PC
  BY PCs DEF IInv
<1>3. pc'[p] = l /\ \A q \in Proc : q # p => pc'[q] = pc[q]
  BY <1>1, <1>2, Goes
<1>4. \A q \in Proc : u'[q].bno = u[q].bno
  BY <1>1, <1>2, HandFile
<1>5. pc[p] \notin WithBlock /\ pc'[p] \notin WithBlock /\ pc'[p] # "nospace"
  BY <1>1, <1>3 DEF WithBlock
<1> QED BY <1>1, <1>3, <1>4, <1>5, QuietKept

LEMMA EndKept ==
  ASSUME IInv, NEW p \in Proc, AllocFails(p) \/ TruncEnd(p)
  PROVE  Kept(p)
<1>1. /\ pc[p] \in {"nospace", "trunc"} /\ Goto(p, "idle") /\ u' = [u EXCEPT ![p].file = NoFile]
      /\ UNCHANGED <<fp, super, fblk, addr, asleep, saving, errors>>
  BY DEF AllocFails, TruncEnd, At
<1>2. TypeOK /\ "idle" \in PC
  BY PCs DEF IInv
<1>3. pc'[p] = "idle" /\ \A q \in Proc : q # p => pc'[q] = pc[q]
  BY <1>1, <1>2, Goes
<1>4. \A q \in Proc : u'[q].bno = u[q].bno
  BY <1>1, <1>2, HandFile
<1>5. pc[p] \notin WithBlock /\ pc'[p] \notin WithBlock /\ pc'[p] # "nospace"
  BY <1>1, <1>3 DEF WithBlock
<1> QED BY <1>1, <1>3, <1>4, <1>5, QuietKept

-----------------------------------------------------------------------------
(* There is no space: the list is empty after it.                          *)
LEMMA NoSpaceFree ==
  ASSUME IInv', NEW p \in Proc, NEW s, NoSpace(p, s), s = fp \/ s.list = fp.list, s \in Super,
         \A q \in Proc : pc'[q] \notin AtBlock
  PROVE  Free' = {} /\ fp'.tfree = 0
<1>1. fp'.list = Empty /\ fp'.tfree = 0
  <2>1. fp' = [s EXCEPT !.list = Empty, !.tfree = 0]
    BY DEF NoSpace
  <2> QED BY <2>1 DEF Super
<1>2. Current' = Empty /\ Current' \in List /\ fblk' \in [Block -> List]
  BY <1>1, CurrentThen
<1>3. Empty \in List /\ Empty.nfree = 0
  BY EmptyType
<1>4. Chain({}, Empty, fblk', {})
  BY <1>3, Nothing
<1>5. FreeIn(Empty, fblk') = {}
  BY <1>2, <1>3, <1>4, PoolEmpty
<1> QED BY <1>1, <1>2, <1>5, FreeOfNow DEF Free

LEMMA AllocTook ==
  ASSUME IInv, NEW p \in Proc, Alloc(p), fp.list.nfree > 0, Top(fp.list) # None
  PROVE  Took(p, Top(fp.list))
<1> DEFINE b == Top(fp.list)
           rest == Popped(fp.list)
           last == rest.nfree = 0
           l == IF last THEN "chain" ELSE "take"
<1>1. /\ pc[p] = "alloc" /\ ~fp.flock /\ fp.list.nfree # 0
      /\ UNCHANGED <<super, fblk, addr, asleep, saving, errors>>
  BY Types DEF Alloc, At, IInv, List
<1>2. fp' = [fp EXCEPT !.list = rest, !.flock = last] /\ Goto(p, l) /\ Hold(p, b)
  BY <1>1 DEF Alloc
<1>3. /\ TypeOK /\ NoBlockTwice /\ fp \in Super /\ fp.list \in List /\ fblk \in [Block -> List] /\ l \in PC
  BY Types, PCs DEF IInv, TypeOK
<1>4. /\ rest.nfree = fp.list.nfree - 1 /\ b = fp.list.free[fp.list.nfree - 1]
      /\ b \in 0..NBLOCK /\ fp.list.nfree - 1 \in Slot
  BY <1>3, PoppedType
<1>5. fp'.list = rest /\ fp'.tfree = fp.tfree
  <2> HIDE DEF last, rest
  <2> QED BY <1>2, <1>3 DEF Super
<1>6. \A q \in Proc : pc[q] \notin Chaining
  BY <1>1, Unlocks
<1>7. Current = fp.list /\ u[p].bno = None
  BY <1>1, Unlocks DEF IInv, Hands
<1> HIDE DEF b, rest, last, l
<1>8. pc'[p] = l /\ \A q \in Proc : q # p => pc'[q] = pc[q]
  BY <1>2, <1>3, Goes
<1>9. u'[p].bno = b /\ \A q \in Proc : q # p => u'[q] = u[q]
  BY <1>2, <1>3, <1>4, HandBlock
<1>10. l \in {"chain", "take"} /\ (l = "chain" <=> last)
  BY DEF l
<1>11. b # None
  BY DEF b
<1>12. Held' = Held \cup {b}
  <2>1. Held' = (Held \ {None}) \cup ({b} \ {None})
    BY <1>1, <1>3, <1>7, <1>9, HeldNow
  <2> QED BY <1>3, <1>11, <2>1, HeldIs
<1>13. IInv'
  BY AllocTakesInv
<1>14. PICK S \in SUBSET Block : Chain(S, fp.list, fblk, Held)
  BY <1>7 DEF IInv, Chained
<1>15. Free = FreeIn(fp.list, fblk) /\ Free' = FreeIn(Current', fblk)
  BY <1>1, <1>7, FreeOfNow DEF Free
<1>16. b \in Free /\ Free' = Free \ {b}
  <2>1. CASE ~last
    <3>1. Current' = rest
      BY <1>5, <1>6, <1>8, <1>10, <1>13, <2>1, CurrentThen DEF AtBlock, Chaining
    <3>2. fp.list.nfree > 1
      <4>1. rest.nfree # 0
        BY <2>1 DEF last
      <4>2. fp.list.nfree \in Nat
        BY <1>3 DEF List
      <4> QED BY <1>4, <4>1, <4>2
    <3> QED BY <1>3, <1>14, <1>15, <3>1, <3>2, PoolPop DEF b, rest
  <2>2. CASE last
    <3>1. Current' = fblk[b]
      BY <1>1, <1>8, <1>9, <1>10, <1>13, <2>2, CurrentThen DEF AtBlock
    <3>2. fp.list.nfree = 1 /\ b = fp.list.free[0]
      <4>1. rest.nfree = 0
        BY <2>2 DEF last
      <4>2. fp.list.nfree \in Nat
        BY <1>3 DEF List
      <4>3. fp.list.nfree = 1
        BY <1>4, <4>1, <4>2
      <4> QED BY <1>4, <4>3
    <3> QED BY <1>3, <1>11, <1>14, <1>15, <3>1, <3>2, PoolPopLast
  <2> QED BY <2>1, <2>2
<1>17. b \notin Held
  BY <1>16, FreeNow
<1>18. Refused' = Refused
  BY <1>1, <1>8, <1>10 DEF Refused
<1>19. p \notin Taking /\ Taking' = Taking \cup {p}
  BY <1>1, <1>8, <1>10 DEF Taking
<1> QED BY <1>1, <1>5, <1>12, <1>16, <1>17, <1>18, <1>19 DEF Took, b

LEMMA AllocDenied ==
  ASSUME IInv, NEW p \in Proc, Alloc(p), NoSpace(p, fp), fp.list.nfree = 0 \/ Top(fp.list) = None
  PROVE  Denied(p)
<1>1. /\ pc[p] = "alloc" /\ ~fp.flock /\ UNCHANGED <<super, fblk, addr, asleep, saving, errors>>
      /\ Goto(p, "nospace") /\ Hold(p, None)
  BY DEF Alloc, At, NoSpace
<1>2. /\ TypeOK /\ NoBlockTwice /\ fp \in Super /\ fp.list \in List /\ fblk \in [Block -> List]
      /\ "nospace" \in PC /\ None \in 0..NBLOCK
  BY Types, PCs, Sizes DEF IInv, TypeOK, None
<1>3. \A q \in Proc : pc[q] \notin Chaining
  BY <1>1, Unlocks
<1>4. Current = fp.list /\ u[p].bno = None
  BY <1>1, Unlocks DEF IInv, Hands
<1>5. pc'[p] = "nospace" /\ \A q \in Proc : q # p => pc'[q] = pc[q]
  BY <1>1, <1>2, Goes
<1>6. u'[p].bno = None /\ \A q \in Proc : q # p => u'[q] = u[q]
  BY <1>1, <1>2, HandBlock
<1>7. Held' = Held
  <2>1. Held' = (Held \ {None}) \cup ({None} \ {None})
    BY <1>1, <1>2, <1>4, <1>6, HeldNow
  <2> QED BY <1>2, <2>1, HeldIs
<1>8. Free = {}
  <2>1. PICK S \in SUBSET Block : Chain(S, fp.list, fblk, Held)
    BY <1>4 DEF IInv, Chained
  <2>2. FreeIn(fp.list, fblk) = {}
    BY <1>2, <2>1, PoolEmpty
  <2> QED BY <1>4, <2>2, FreeOfNow DEF Free
<1>9. IInv' /\ \A q \in Proc : pc'[q] \notin AtBlock
  BY <1>3, <1>5, AllocInv DEF AtBlock, Chaining
<1>10. Free' = {} /\ fp'.tfree = 0
  BY <1>2, <1>9, NoSpaceFree
<1>11. Refused' = Refused \cup {p}
  BY <1>5 DEF Refused
<1> QED BY <1>1, <1>7, <1>8, <1>10, <1>11 DEF Denied

LEMMA AllocDoes ==
  ASSUME IInv, NEW p \in Proc, Alloc(p)
  PROVE  (\E b : Took(p, b)) \/ Denied(p)
<1>1. fp.list.nfree \in Nat
  BY Types DEF IInv, List
<1>2. CASE fp.list.nfree = 0 \/ Top(fp.list) = None
  BY <1>2, AllocDenied DEF Alloc
<1>3. CASE fp.list.nfree > 0 /\ Top(fp.list) # None
  BY <1>3, AllocTook
<1> QED BY <1>1, <1>2, <1>3

(* The next list of the chain is full, so that only a failing read ends    *)
(* the list.                                                               *)
LEMMA AllocChainDoes ==
  ASSUME IInv, NEW p \in Proc, NEW fails \in BOOLEAN, AllocChain(p, fails)
  PROVE  Lost \/ Kept(p)
<1> DEFINE b == u[p].bno
           s == [fp EXCEPT !.flock = FALSE, !.list = IF fails THEN @ ELSE fblk[b]]
<1>1. /\ pc[p] = "chain" /\ UNCHANGED <<super, fblk, addr, saving>>
      /\ IF fails THEN errors' = errors + 1 ELSE errors' = errors
  BY DEF AllocChain, At
<1>2. IF s.list.nfree = 0 THEN NoSpace(p, s) ELSE fp' = s /\ Goto(p, "take") /\ UNCHANGED u
  BY DEF AllocChain
<1>3. /\ TypeOK /\ NoBlockTwice /\ fp \in Super /\ fp.list \in List /\ fp.list.nfree = 0
      /\ b # None /\ b \in Block
      /\ fblk[b] \in List /\ fblk[b].nfree = NICFREE /\ errors \in Nat
      /\ "take" \in PC /\ "nospace" \in PC /\ None \in 0..NBLOCK
  BY <1>1, Types, PCs, Sizes DEF IInv, Hands, TypeOK, None
<1>4. s \in Super /\ s.list = (IF fails THEN fp.list ELSE fblk[b]) /\ s.tfree = fp.tfree
  <2>1. (IF fails THEN fp.list ELSE fblk[b]) \in List
    BY <1>3
  <2> HIDE DEF b
  <2> QED BY <1>3, <2>1 DEF Super
<1>5. IInv' /\ \A q \in Proc : q # p => pc[q] \notin Chaining
  BY <1>1, Alone, AllocChainInv DEF Chaining
<1> HIDE DEF s
<1>6. CASE fails
  <2>1. NoSpace(p, s) /\ s.list = fp.list
    BY <1>2, <1>3, <1>4, <1>6
  <2>2. Goto(p, "nospace") /\ Hold(p, None)
    BY <2>1 DEF NoSpace
  <2>3. pc'[p] = "nospace" /\ \A q \in Proc : q # p => pc'[q] = pc[q]
    BY <1>3, <2>2, Goes
  <2>4. u'[p].bno = None /\ \A q \in Proc : q # p => u'[q] = u[q]
    BY <1>3, <2>2, HandBlock
  <2>5. Held' \subseteq Held
    BY <1>1, <1>3, <2>4, HeldNow
  <2>6. Refused \subseteq Refused'
    BY <2>3 DEF Refused
  <2>7. errors' > 0
    BY <1>1, <1>3, <1>6
  <2>8. \A q \in Proc : pc'[q] \notin AtBlock
    BY <1>5, <2>3 DEF AtBlock, Chaining
  <2>9. Free' = {} /\ fp'.tfree = 0
    BY <1>4, <1>5, <2>1, <2>8, NoSpaceFree
  <2> QED BY <2>5, <2>6, <2>7, <2>9 DEF Lost
<1>7. CASE ~fails
  <2>1. fp' = s /\ s.list = fblk[b] /\ Goto(p, "take") /\ u' = u
    BY <1>2, <1>3, <1>4, <1>7, Sizes
  <2>2. pc'[p] = "take" /\ \A q \in Proc : q # p => pc'[q] = pc[q]
    BY <1>3, <2>1, Goes
  <2>3. Held' = Held
    BY <1>1, <1>3, <2>1, HeldSame
  <2>4. Current = fblk[b]
    BY <1>1, CurrentIs DEF AtBlock
  <2>5. Current' = fblk[b]
    BY <1>5, <2>1, <2>2, CurrentThen DEF AtBlock, Chaining
  <2>6. Free' = Free
    BY <1>1, <2>4, <2>5, FreeSame
  <2>7. Refused' = Refused /\ Taking' = Taking
    BY <1>1, <2>2 DEF Refused, Taking
  <2> QED BY <1>1, <1>4, <1>7, <2>1, <2>3, <2>6, <2>7 DEF Kept
<1> QED BY <1>6, <1>7

(* The blocks of a sequence that is longer by one.                         *)
LEMMA LongerByOne ==
  ASSUME NEW s, NEW t, Len(s) \in Nat, Len(t) = Len(s) + 1, \A i \in 1..Len(s) : t[i] = s[i]
  PROVE  {t[i] : i \in 1..Len(t)} = {s[i] : i \in 1..Len(s)} \cup {t[Len(t)]}
<1>1. \A i : i \in 1..Len(t) <=> i \in 1..Len(s) \/ i = Len(t)
  OBVIOUS
<1> QED BY <1>1

(* The block goes from the hands of alloc into the file.                   *)
LEMMA AllocTakeKept ==
  ASSUME IInv, NEW p \in Proc, AllocTake(p)
  PROVE  Kept(p)
<1> DEFINE b == u[p].bno
<1>0. PICK f \in File : f = u[p].file
  <2>1. pc[p] = "take"
    BY DEF AllocTake, At
  <2> QED BY <2>1 DEF IInv, Hands
<1> DEFINE n == Len(addr[f])
<1>1. /\ pc[p] = "take" /\ UNCHANGED <<super, asleep, saving, errors>> /\ Goto(p, "idle")
      /\ fp' = [fp EXCEPT !.tfree = IF @ > 0 THEN @ - 1 ELSE 0, !.fmod = TRUE]
      /\ fblk' = [fblk EXCEPT ![b] = Empty]
      /\ addr' = [addr EXCEPT ![f] = Append(@, b)]
      /\ u' = [u EXCEPT ![p] = [file |-> NoFile, bno |-> None]]
  BY <1>0 DEF AllocTake, At
<1>2. /\ TypeOK /\ fp \in Super /\ b # None /\ b \in Block /\ f \in File /\ "idle" \in PC
      /\ u \in [Proc -> Hand] /\ addr \in [File -> Seq(Block)] /\ fblk \in [Block -> List]
  BY <1>1, Types, PCs DEF IInv, Hands, TypeOK, Hand
<1>3. n \in Nat /\ addr[f] \in Seq(Block)
  BY <1>2
<1>4. fp'.list = fp.list /\ fp'.tfree = IF fp.tfree > 0 THEN fp.tfree - 1 ELSE 0
  BY <1>1, <1>2 DEF Super
<1>5. IInv'
  BY AllocTakeInv
<1> HIDE DEF b
<1>6. pc'[p] = "idle" /\ \A q \in Proc : q # p => pc'[q] = pc[q]
  BY <1>1, <1>2, Goes
<1>7. u'[p].bno = None /\ \A q \in Proc : q # p => u'[q] = u[q]
  BY <1>1, <1>2
<1>8. fblk' \in [Block -> List] /\ \A c \in Block : c # b => fblk'[c] = fblk[c]
  BY <1>1, <1>2, EmptyType
<1>9. /\ \A g \in File : g # f => addr'[g] = addr[g]
      /\ addr'[f] = Append(addr[f], b)
  BY <1>1, <1>2
<1>10. /\ Len(addr'[f]) = n + 1 /\ addr'[f][n + 1] = b
       /\ \A i \in 1..n : addr'[f][i] = addr[f][i]
  BY <1>2, <1>3, <1>9
<1>11. \A g \in File : g # f => InFile(g)' = InFile(g)
  BY <1>9 DEF InFile
<1>12. InFile(f)' = InFile(f) \cup {b}
  <2>1. {addr'[f][i] : i \in 1..Len(addr'[f])} = {addr[f][i] : i \in 1..Len(addr[f])} \cup {addr'[f][Len(addr'[f])]}
    BY <1>3, <1>10, LongerByOne
  <2> QED BY <1>10, <2>1 DEF InFile
<1>13. Held' = Held
  <2>1. \A c : c \in Held <=> \/ c # None /\ \E q \in Proc : u[q].bno = c
                              \/ \E g \in File : c \in InFile(g)
    BY DEF Held, InHand
  <2>2. \A c : c \in Held' <=> \/ c # None /\ \E q \in Proc : u'[q].bno = c
                               \/ \E g \in File : c \in InFile(g)'
    BY DEF Held, InHand
  <2>3. \A c : (\E g \in File : c \in InFile(g)') <=> (\E g \in File : c \in InFile(g)) \/ c = b
    BY <1>2, <1>11, <1>12
  <2>4. \A c : c # None => ((\E q \in Proc : u[q].bno = c) <=> (\E q \in Proc : u'[q].bno = c) \/ c = b)
    <3> SUFFICES ASSUME NEW c, c # None
                 PROVE  (\E q \in Proc : u[q].bno = c) <=> (\E q \in Proc : u'[q].bno = c) \/ c = b
      OBVIOUS
    <3>1. ASSUME NEW q \in Proc, u[q].bno = c PROVE (\E r \in Proc : u'[r].bno = c) \/ c = b
      <4>1. CASE q = p
        BY <3>1, <4>1 DEF b
      <4>2. CASE q # p
        BY <1>7, <3>1, <4>2
      <4> QED BY <4>1, <4>2
    <3>2. ASSUME NEW q \in Proc, u'[q].bno = c PROVE \E r \in Proc : u[r].bno = c
      <4>1. q # p
        BY <1>7, <3>2
      <4> QED BY <1>7, <3>2, <4>1
    <3>3. c = b => \E r \in Proc : u[r].bno = c
      BY DEF b
    <3> QED BY <3>1, <3>2, <3>3
  <2>5. \A c : c \in Held <=> c \in Held'
    BY <1>2, <2>1, <2>2, <2>3, <2>4
  <2> QED BY <2>5
<1>14. Current' = Current
  <2>1. \A q \in Proc : pc'[q] \in AtBlock <=> pc[q] \in AtBlock
    BY <1>1, <1>6 DEF AtBlock
  <2>2. \A q \in Proc : pc[q] \in AtBlock => fblk'[u'[q].bno] = fblk[u[q].bno]
    <3> SUFFICES ASSUME NEW q \in Proc, pc[q] \in AtBlock PROVE fblk'[u'[q].bno] = fblk[u[q].bno]
      OBVIOUS
    <3>1. q # p /\ u[q].bno # None
      BY <1>1 DEF IInv, Hands, AtBlock
    <3>2. u[q].bno \in Block /\ u[q].bno # b
      BY <1>2, <3>1, Types DEF IInv, NoBlockTwice, b
    <3> QED BY <1>7, <1>8, <3>1, <3>2
  <2> QED BY <1>4, <2>1, <2>2, CurrentSame
<1>15. Free' = Free
  <2>1. PICK S \in SUBSET Block : Chain(S, Current, fblk, Held)
    BY DEF IInv, Chained
  <2>2. b \notin S
    BY <1>2, <2>1, HeldIs, NotOfChain DEF b
  <2>3. \A x \in S : fblk'[x] = fblk[x]
    BY <1>8, <2>1, <2>2
  <2>4. FreeIn(Current, fblk') = FreeIn(Current, fblk)
    BY <1>2, <1>8, <2>1, <2>3, CurrentIs, PoolFrame
  <2> QED BY <1>14, <2>4, FreeOfNow DEF Free
<1>16. Refused' = Refused
  BY <1>1, <1>6 DEF Refused
<1>17. p \in Taking /\ Taking' = Taking \ {p}
  BY <1>1, <1>6 DEF Taking
<1> QED BY <1>1, <1>4, <1>13, <1>15, <1>16, <1>17 DEF Kept

(* The last block of the file goes into the hands of itrunc.               *)
LEMMA TruncNextKept ==
  ASSUME IInv, NEW p \in Proc, TruncNext(p)
  PROVE  Kept(p)
<1>0. PICK f \in File : f = u[p].file
  <2>1. pc[p] = "trunc"
    BY DEF TruncNext, At
  <2> QED BY <2>1 DEF IInv, Hands
<1> DEFINE n == Len(addr[f])
           b == addr[f][n]
<1>1. /\ pc[p] = "trunc" /\ UNCHANGED <<super, fblk, asleep, saving, errors>> /\ Goto(p, "free")
      /\ fp' = [fp EXCEPT !.fmod = TRUE] /\ addr[f] # <<>>
      /\ addr' = [addr EXCEPT ![f] = SubSeq(@, 1, Len(@) - 1)] /\ Hold(p, b)
  BY <1>0 DEF TruncNext, At
<1>2. /\ TypeOK /\ fp \in Super /\ f \in File /\ "free" \in PC /\ u[p].bno = None
      /\ addr \in [File -> Seq(Block)]
  BY <1>1, Types, PCs DEF IInv, Hands, TypeOK
<1>3. addr[f] \in Seq(Block) /\ n \in Nat /\ n > 0 /\ n \in 1..Len(addr[f]) /\ b \in Block
  <2>1. addr[f] \in Seq(Block) /\ addr[f] # <<>>
    BY <1>1, <1>2
  <2> QED BY <2>1
<1>4. fp'.list = fp.list /\ fp'.tfree = fp.tfree
  BY <1>1, <1>2 DEF Super
<1>5. b # None /\ b \in 0..NBLOCK
  BY <1>3, Sizes DEF Block
<1>6. addr' = [addr EXCEPT ![f] = SubSeq(addr[f], 1, n - 1)]
  BY <1>1
<1>7. b \in InFile(f) /\ InFile(f) = {addr[f][i] : i \in 1..n}
  BY <1>3 DEF InFile
<1> HIDE DEF b
<1>8. pc'[p] = "free" /\ \A q \in Proc : q # p => pc'[q] = pc[q]
  BY <1>1, <1>2, Goes
<1>9. u'[p].bno = b /\ \A q \in Proc : q # p => u'[q] = u[q]
  BY <1>1, <1>2, <1>5, HandBlock
<1>10. /\ Len(SubSeq(addr[f], 1, n - 1)) = n - 1
       /\ \A i \in 1..n-1 : SubSeq(addr[f], 1, n - 1)[i] = addr[f][i]
  BY <1>3
<1>11. /\ \A g \in File : g # f => addr'[g] = addr[g]
       /\ addr'[f] = SubSeq(addr[f], 1, n - 1)
  BY <1>2, <1>6
<1>12. \A g \in File : g # f => InFile(g)' = InFile(g)
  BY <1>11 DEF InFile
<1>13. InFile(f) = InFile(f)' \cup {b}
  <2>1. Len(addr'[f]) = n - 1 /\ \A i \in 1..n-1 : addr[f][i] = addr'[f][i]
    BY <1>10, <1>11
  <2>2. {addr[f][i] : i \in 1..Len(addr[f])} = {addr'[f][i] : i \in 1..Len(addr'[f])} \cup {addr[f][Len(addr[f])]}
    <3>1. Len(addr'[f]) \in Nat /\ Len(addr[f]) = Len(addr'[f]) + 1
      BY <1>3, <2>1
    <3> QED BY <2>1, <3>1, LongerByOne
  <2> QED BY <2>2 DEF InFile, b
<1>14. Held' = Held
  <2>1. \A c : c \in Held <=> \/ c # None /\ \E q \in Proc : u[q].bno = c
                              \/ \E g \in File : c \in InFile(g)
    BY DEF Held, InHand
  <2>2. \A c : c \in Held' <=> \/ c # None /\ \E q \in Proc : u'[q].bno = c
                               \/ \E g \in File : c \in InFile(g)'
    BY DEF Held, InHand
  <2>3. \A c : (\E g \in File : c \in InFile(g)) <=> (\E g \in File : c \in InFile(g)') \/ c = b
    BY <1>2, <1>12, <1>13
  <2>4. \A c : c # None => ((\E q \in Proc : u'[q].bno = c) <=> (\E q \in Proc : u[q].bno = c) \/ c = b)
    <3> SUFFICES ASSUME NEW c, c # None
                 PROVE  (\E q \in Proc : u'[q].bno = c) <=> (\E q \in Proc : u[q].bno = c) \/ c = b
      OBVIOUS
    <3>1. ASSUME NEW q \in Proc, u'[q].bno = c PROVE (\E r \in Proc : u[r].bno = c) \/ c = b
      <4>1. CASE q = p
        BY <1>9, <3>1, <4>1
      <4>2. CASE q # p
        BY <1>9, <3>1, <4>2
      <4> QED BY <4>1, <4>2
    <3>2. ASSUME NEW q \in Proc, u[q].bno = c PROVE \E r \in Proc : u'[r].bno = c
      <4>1. q # p
        BY <1>2, <3>2
      <4> QED BY <1>9, <3>2, <4>1
    <3> QED BY <1>9, <3>1, <3>2
  <2>5. \A c : c \in Held <=> c \in Held'
    BY <1>5, <2>1, <2>2, <2>3, <2>4
  <2> QED BY <2>5
<1>15. Current' = Current
  <2>1. \A q \in Proc : pc'[q] \in AtBlock <=> pc[q] \in AtBlock
    BY <1>1, <1>8 DEF AtBlock
  <2>2. \A q \in Proc : pc[q] \in AtBlock => fblk'[u'[q].bno] = fblk[u[q].bno]
    BY <1>1, <1>9 DEF AtBlock
  <2> QED BY <1>4, <2>1, <2>2, CurrentSame
<1>16. Free' = Free
  BY <1>1, <1>15, FreeSame
<1>17. Refused' = Refused /\ Taking' = Taking
  BY <1>1, <1>8 DEF Refused, Taking
<1> QED BY <1>1, <1>4, <1>14, <1>16, <1>17 DEF Kept

-----------------------------------------------------------------------------
(* The end of free: the block in the hands of p is put on the list s.      *)
LEMMA FreedGave ==
  ASSUME IInv, IInv', NEW p \in Proc, pc[p] \in {"free", "linked"}, NEW s \in Super, s.tfree = fp.tfree,
         Freed(p, s), \A q \in Proc : q # p => pc[q] \notin Chaining,
         UNCHANGED <<super, fblk, addr, saving, errors>>,
         FreeIn(Put(s.list, u[p].bno), fblk) = Free \cup {u[p].bno}
  PROVE  Gave(u[p].bno)
<1> DEFINE b == u[p].bno
           new == Put(s.list, b)
<1>1. /\ TypeOK /\ NoBlockTwice /\ "trunc" \in PC /\ None \in 0..NBLOCK /\ b # None
  BY PCs, Sizes DEF IInv, None, Hands
<1>2. fp'.list = new /\ fp'.tfree = fp.tfree + 1 /\ Goto(p, "trunc") /\ Hold(p, None)
  <2>1. fp' = [s EXCEPT !.list = new, !.tfree = s.tfree + 1, !.fmod = TRUE] /\ Goto(p, "trunc") /\ Hold(p, None)
    BY DEF Freed
  <2> HIDE DEF new, b
  <2> QED BY <2>1 DEF Super
<1>3. pc'[p] = "trunc" /\ \A q \in Proc : q # p => pc'[q] = pc[q]
  BY <1>1, <1>2, Goes
<1>4. u'[p].bno = None /\ \A q \in Proc : q # p => u'[q] = u[q]
  BY <1>1, <1>2, HandBlock
<1>5. Held' = Held \ {b}
  <2>1. Held' = (Held \ {b}) \cup ({None} \ {None})
    BY <1>1, <1>4, HeldNow
  <2> QED BY <2>1
<1>6. b \in Held
  BY <1>1, HeldIs
<1> HIDE DEF b
<1>7. Current' = new
  BY <1>2, <1>3, CurrentThen DEF AtBlock, Chaining
<1> HIDE DEF new
<1>8. Free' = Free \cup {b}
  BY <1>7, FreeOfNow DEF Free, b, new
<1>9. b \notin Free
  BY <1>6, FreeNow
<1>10. Refused' = Refused /\ Taking' = Taking
  BY <1>3 DEF Refused, Taking
<1> QED BY <1>2, <1>5, <1>6, <1>8, <1>9, <1>10 DEF Gave, b

LEMMA FreeBlockDoes ==
  ASSUME IInv, NEW p \in Proc, FreeBlock(p)
  PROVE  Gave(u[p].bno) \/ Kept(p)
<1> DEFINE b == u[p].bno
           begun == IF fp.list.nfree = 0 THEN Put(Empty, None) ELSE fp.list
           s == [fp EXCEPT !.list = begun]
<1>1. /\ pc[p] = "free" /\ ~fp.flock /\ UNCHANGED <<super, fblk, addr, asleep, saving, errors>>
      /\ IF s.list.nfree < NICFREE THEN Freed(p, s)
         ELSE fp' = [s EXCEPT !.flock = TRUE] /\ Goto(p, "link") /\ UNCHANGED u
  BY DEF FreeBlock, At
<1>2. /\ TypeOK /\ NoBlockTwice /\ fp \in Super /\ fp.list \in List /\ fp.list.nfree \in Nat
      /\ b # None /\ b \in Block
      /\ b \in Held /\ None \notin Held /\ "link" \in PC /\ fblk \in [Block -> List]
  BY <1>1, Types, PCs, HeldIs DEF IInv, Hands, List, TypeOK
<1>3. begun \in List /\ begun.nfree \in Nat /\ begun.nfree > 0
  <2>1. CASE fp.list.nfree = 0
    <3>1. begun = Put(Empty, None) /\ None \in 0..NBLOCK
      BY <2>1, Sizes DEF None
    <3> QED BY <3>1, EmptyType, PutType, Sizes
  <2>2. CASE fp.list.nfree # 0
    BY <1>2, <2>2
  <2> QED BY <2>1, <2>2
<1>4. (\A q \in Proc : pc[q] \notin Chaining) /\ Current = fp.list
  BY <1>1, Unlocks
<1>5. PICK S \in SUBSET Block : Chain(S, fp.list, fblk, Held)
  BY <1>4 DEF IInv, Chained
<1>6. Chain(S, begun, fblk, Held)
  BY <1>2, <1>5, Begun
<1>7. Free = FreeIn(fp.list, fblk)
  BY <1>4, FreeOfNow DEF Free
<1>8. FreeIn(begun, fblk) = Free
  <2>1. CASE fp.list.nfree = 0
    BY <1>2, <1>5, <1>7, <2>1, PoolBegun
  <2>2. CASE fp.list.nfree # 0
    BY <1>7, <2>2
  <2> QED BY <2>1, <2>2
<1>9. IInv'
  BY FreeBlockInv
<1> HIDE DEF begun
<1>10. s \in Super /\ s.list = begun /\ s.tfree = fp.tfree
  BY <1>2, <1>3 DEF Super
<1> HIDE DEF s, b
<1>11. CASE begun.nfree < NICFREE
  <2>1. FreeIn(Put(begun, b), fblk) = Free \cup {b}
    BY <1>2, <1>3, <1>6, <1>8, <1>11, PoolPut
  <2>2. Freed(p, s)
    BY <1>1, <1>10, <1>11
  <2> QED BY <1>1, <1>4, <1>9, <1>10, <2>1, <2>2, FreedGave DEF b
<1>12. CASE ~(begun.nfree < NICFREE)
  <2>1. fp' = [s EXCEPT !.flock = TRUE] /\ Goto(p, "link") /\ u' = u
    BY <1>1, <1>10, <1>12
  <2>2. fp'.list = begun /\ fp'.tfree = fp.tfree
    BY <1>10, <2>1 DEF Super
  <2>3. pc'[p] = "link" /\ \A q \in Proc : q # p => pc'[q] = pc[q]
    BY <1>2, <2>1, Goes
  <2>4. Held' = Held
    BY <1>1, <1>2, <2>1, HeldSame
  <2>5. Current' = begun
    BY <1>4, <1>9, <2>2, <2>3, CurrentThen DEF AtBlock, Chaining
  <2>6. Free' = Free
    BY <1>1, <1>8, <2>5, FreeOfNow DEF Free
  <2>7. Refused' = Refused /\ Taking' = Taking
    BY <1>1, <2>3 DEF Refused, Taking
  <2> QED BY <1>1, <2>2, <2>4, <2>6, <2>7 DEF Kept
<1> QED BY <1>11, <1>12

LEMMA FreeLinkKept ==
  ASSUME IInv, NEW p \in Proc, FreeLink(p)
  PROVE  Kept(p)
<1> DEFINE b == u[p].bno
<1>1. /\ pc[p] = "link" /\ UNCHANGED <<super, addr, asleep, u, saving, errors>>
      /\ fblk' = [fblk EXCEPT ![b] = fp.list] /\ fp' = [fp EXCEPT !.list = Empty] /\ Goto(p, "linked")
  BY DEF FreeLink, At
<1>2. /\ TypeOK /\ NoBlockTwice /\ fp \in Super /\ fp.list \in List /\ b # None /\ b \in Block /\ b \in Held
      /\ fblk \in [Block -> List] /\ "linked" \in PC
  BY <1>1, Types, PCs, HeldIs DEF IInv, Hands, TypeOK
<1>3. fp'.tfree = fp.tfree
  BY <1>1, <1>2 DEF Super
<1>4. IInv' /\ \A q \in Proc : q # p => pc[q] \notin Chaining
  BY <1>1, Alone, FreeLinkInv DEF Chaining
<1>5. Current = fp.list
  BY <1>1, <1>4, CurrentIs DEF AtBlock, Chaining
<1> HIDE DEF b
<1>6. pc'[p] = "linked" /\ \A q \in Proc : q # p => pc'[q] = pc[q]
  BY <1>1, <1>2, Goes
<1>7. fblk' \in [Block -> List] /\ fblk'[b] = fp.list /\ \A c \in Block : c # b => fblk'[c] = fblk[c]
  BY <1>1, <1>2
<1>8. Held' = Held
  BY <1>1, <1>2, HeldSame
<1>9. Current' = fp.list
  BY <1>1, <1>4, <1>6, <1>7, CurrentThen DEF AtBlock, b
<1>10. Free' = Free
  <2>1. PICK S \in SUBSET Block : Chain(S, fp.list, fblk, Held)
    BY <1>5 DEF IInv, Chained
  <2>2. b \notin S
    BY <1>2, <2>1, NotOfChain
  <2>3. FreeIn(fp.list, fblk') = FreeIn(fp.list, fblk)
    BY <1>2, <1>7, <2>1, <2>2, PoolFrame
  <2> QED BY <1>5, <1>9, <2>3, FreeOfNow DEF Free
<1>11. Refused' = Refused /\ Taking' = Taking
  BY <1>1, <1>6 DEF Refused, Taking
<1> QED BY <1>1, <1>3, <1>8, <1>10, <1>11 DEF Kept

LEMMA FreeLinkedGave ==
  ASSUME IInv, NEW p \in Proc, FreeLinked(p)
  PROVE  Gave(u[p].bno)
<1> DEFINE b == u[p].bno
           s == [fp EXCEPT !.flock = FALSE]
           new == Put(fp.list, b)
<1>1. /\ pc[p] = "linked" /\ UNCHANGED <<super, fblk, addr, saving, errors>> /\ Freed(p, s)
  BY DEF FreeLinked, At
<1>2. /\ TypeOK /\ fp \in Super /\ fp.list \in List /\ fp.list.nfree = 0 /\ b # None /\ b \in Block
      /\ b \in Held /\ b \in 0..NBLOCK /\ fblk[b].nfree = NICFREE /\ fblk \in [Block -> List]
  BY <1>1, Types, HeldIs DEF IInv, Hands, TypeOK
<1>3. s \in Super /\ s.list = fp.list /\ s.tfree = fp.tfree
  BY <1>2 DEF Super
<1>4. new \in List /\ new.nfree = 1 /\ new.free[0] = b
  BY <1>2, PutType, Sizes
<1>5. IInv' /\ \A q \in Proc : q # p => pc[q] \notin Chaining
  BY <1>1, Alone, FreeLinkedInv DEF Chaining
<1>6. Current = fblk[b]
  BY <1>1, CurrentIs DEF AtBlock
<1> HIDE DEF s, new, b
<1>7. PICK S \in SUBSET Block : Chain(S, fblk[b], fblk, Held)
  BY <1>6 DEF IInv, Chained
<1>8. FreeIn(new, fblk) = FreeIn(fblk[b], fblk) \cup {b}
  BY <1>2, <1>4, <1>7, PoolCons
<1>9. FreeIn(Put(s.list, b), fblk) = Free \cup {b}
  BY <1>3, <1>6, <1>8, FreeOfNow DEF Free, new
<1> QED BY <1>1, <1>3, <1>5, <1>9, FreedGave DEF b

(* update leaves the list and the blocks alone.                            *)
Still ==
  /\ Free' = Free /\ Held' = Held /\ errors' = errors
  /\ Refused' = Refused /\ Taking' = Taking /\ fp'.tfree = fp.tfree

LEMMA UpdateStill ==
  ASSUME IInv, UpdateTest \/ UpdateCopy \/ UNCHANGED vars
  PROVE  Still
<1>1. /\ fp'.list = fp.list /\ fp'.tfree = fp.tfree
      /\ UNCHANGED <<fblk, addr, pc, u, errors>>
  <2>1. fp \in Super
    BY Types DEF IInv
  <2>2. (fp' = fp \/ fp' = [fp EXCEPT !.fmod = FALSE]) /\ UNCHANGED <<fblk, addr, pc, u, errors>>
    BY DEF UpdateTest, UpdateCopy, vars
  <2> QED BY <2>1, <2>2 DEF Super
<1>2. Current' = Current
  BY <1>1, CurrentSame
<1>3. Held' = Held
  BY <1>1, HeldSame DEF IInv
<1>4. Free' = Free
  BY <1>1, <1>2, FreeSame
<1> QED BY <1>1, <1>3, <1>4 DEF Still, Refused, Taking

LEMMA AwaitFlockKept ==
  ASSUME IInv, NEW p \in Proc, AwaitFlock(p)
  PROVE  Kept(p)
<1>1. UNCHANGED <<fp, super, fblk, addr, pc, u, saving, errors>>
  BY DEF AwaitFlock
<1> QED BY <1>1, QuietKept

(* What one step of p may do.                                              *)
Does(p) == (\E b : Took(p, b)) \/ (\E b : Gave(b)) \/ Denied(p) \/ Lost \/ Kept(p)

LEMMA NextDoes ==
  ASSUME IInv, [Next]_vars
  PROVE  Still \/ \E p \in Proc : Does(p)
<1>1. ASSUME NEW p \in Proc, Kernel(p) PROVE Does(p)
  <2>1. CASE AwaitFlock(p)
    BY <2>1, AwaitFlockKept DEF Does
  <2>2. CASE Alloc(p)
    BY <2>2, AllocDoes DEF Does
  <2>3. CASE AllocTake(p)
    BY <2>3, AllocTakeKept DEF Does
  <2>4. CASE AllocFails(p) \/ TruncEnd(p)
    BY <2>4, EndKept DEF Does
  <2>5. CASE TruncNext(p)
    BY <2>5, TruncNextKept DEF Does
  <2>6. CASE FreeBlock(p)
    BY <2>6, FreeBlockDoes DEF Does
  <2>7. CASE FreeLink(p)
    BY <2>7, FreeLinkKept DEF Does
  <2>8. CASE FreeLinked(p)
    BY <2>8, FreeLinkedGave DEF Does
  <2>9. CASE \E fails \in BOOLEAN : AllocChain(p, fails)
    BY <2>9, AllocChainDoes DEF Does
  <2> QED BY <1>1, <2>1, <2>2, <2>3, <2>4, <2>5, <2>6, <2>7, <2>8, <2>9 DEF Kernel
<1>2. ASSUME NEW p \in Proc, NEW f \in File, Grow(p, f) \/ Truncate(p, f) PROVE Does(p)
  BY <1>2, StartKept DEF Does
<1> QED BY <1>1, <1>2, UpdateStill DEF Next

LEMMA InitFree == Init => Free = Block /\ Held = {} /\ Refused = {} /\ Taking = {} /\ errors = 0 /\ fp.tfree = NBLOCK
<1> SUFFICES ASSUME Init
             PROVE  Free = Block /\ Held = {} /\ Refused = {} /\ Taking = {} /\ errors = 0 /\ fp.tfree = NBLOCK
  OBVIOUS
<1>1. /\ fp.list = Made /\ fp.tfree = NBLOCK /\ fblk = MadeBlocks /\ errors = 0
      /\ \A p \in Proc : pc[p] = "idle" /\ u[p].bno = None
      /\ \A f \in File : addr[f] = <<>>
  BY DEF Init
<1>2. Current = Made
  BY <1>1, CurrentFree DEF AtBlock
<1>3. Free = Block
  BY <1>1, <1>2, FreeOfNow, PoolMade DEF Free
<1>4. Held = {}
  <2>1. \A f \in File : InFile(f) = {}
    BY <1>1 DEF InFile
  <2> QED BY <1>1, <2>1 DEF Held, InHand
<1>5. Refused = {} /\ Taking = {}
  BY <1>1 DEF Refused, Taking
<1> QED BY <1>1, <1>3, <1>4, <1>5

-----------------------------------------------------------------------------
NoneLost == errors = 0 => Free \cup Held = Block

LEMMA NoneLostInv == Spec => []NoneLost
<1>1. Init => NoneLost
  BY InitFree DEF NoneLost
<1>2. IInv /\ NoneLost /\ [Next]_vars => NoneLost'
  <2> SUFFICES ASSUME IInv, NoneLost, [Next]_vars PROVE NoneLost'
    OBVIOUS
  <2>1. Block' = Block
    BY DEF Block
  <2>2. CASE Still
    BY <2>1, <2>2 DEF Still, NoneLost
  <2>3. ASSUME NEW p \in Proc, Does(p) PROVE NoneLost'
    <3>1. CASE \E b : Took(p, b)
      BY <2>1, <3>1 DEF Took, NoneLost
    <3>2. CASE \E b : Gave(b)
      BY <2>1, <3>2 DEF Gave, NoneLost
    <3>3. CASE Denied(p)
      BY <2>1, <3>3 DEF Denied, NoneLost
    <3>4. CASE Lost
      BY <3>4 DEF Lost, NoneLost
    <3>5. CASE Kept(p)
      BY <2>1, <3>5 DEF Kept, NoneLost
    <3> QED BY <2>3, <3>1, <3>2, <3>3, <3>4, <3>5 DEF Does
  <2> QED BY <2>2, <2>3, NextDoes
<1> QED BY <1>1, <1>2, SpecInv, PTL DEF Spec

(* free and alloc keep every block in one place: each block is free, and   *)
(* then once in the list and its chain, or in one file, or in the hands of *)
(* one call; and while no read of the chain has failed, none is lost.      *)
THEOREM OnePlaceCorrect == Spec => []OnePlace
<1>1. IInv /\ NoneLost => OnePlace
  <2> SUFFICES ASSUME IInv, NoneLost PROVE OnePlace
    OBVIOUS
  <2>1. Lists(Current) = ListsIn(Current, fblk)
    BY DEF Lists, ListsIn, Follows, Step
  <2>2. {x \in Depth \X Slot : x[2] < Lists(Current)[x[1]].nfree /\ Lists(Current)[x[1]].free[x[2]] # None}
          = PlacesIn(Current, fblk)
    BY <2>1 DEF PlacesIn
  <2> QED BY <2>2, FreeNow DEF OnePlace, NoneLost, Free
<1> QED BY <1>1, SpecInv, NoneLostInv, PTL

-----------------------------------------------------------------------------
NTaking == Cardinality(Taking)
Promised == fp.tfree <= Cardinality(Free) + NTaking

LEMMA Sizable ==
  ASSUME IInv
  PROVE  /\ IsFiniteSet(Free) /\ IsFiniteSet(Taking) /\ Cardinality(Free) \in Nat /\ NTaking \in Nat
         /\ fp.tfree \in Nat
<1>1. IsFiniteSet(Block) /\ IsFiniteSet(Proc)
  BY FS_Interval, Sizes, ProcAssumption DEF Block
<1>2. IsFiniteSet(Free)
  BY <1>1, FreeNow, FS_Subset
<1>3. IsFiniteSet(Taking)
  BY <1>1, FS_Subset DEF Taking
<1>4. fp.tfree \in Nat
  BY DEF IInv, TypeOK
<1> QED BY <1>2, <1>3, <1>4, FS_CardinalityType DEF NTaking

LEMMA SizableThen ==
  IInv' => /\ IsFiniteSet(Free') /\ IsFiniteSet(Taking') /\ Cardinality(Free') \in Nat /\ NTaking' \in Nat
           /\ NTaking' = Cardinality(Taking')
<1>1. IInv => /\ IsFiniteSet(Free) /\ IsFiniteSet(Taking) /\ Cardinality(Free) \in Nat /\ NTaking \in Nat
              /\ NTaking = Cardinality(Taking)
  BY Sizable DEF NTaking
<1>2. (IInv => /\ IsFiniteSet(Free) /\ IsFiniteSet(Taking) /\ Cardinality(Free) \in Nat /\ NTaking \in Nat
               /\ NTaking = Cardinality(Taking))'
  BY <1>1, PTL
<1> QED BY <1>2

LEMMA PromisedKept ==
  ASSUME IInv, IInv', Promised, NEW p \in Proc, Does(p)
  PROVE  Promised'
<1>1. /\ IsFiniteSet(Free) /\ IsFiniteSet(Taking) /\ Cardinality(Free) \in Nat /\ NTaking \in Nat
      /\ fp.tfree \in Nat /\ fp.tfree <= Cardinality(Free) + NTaking /\ NTaking = Cardinality(Taking)
  BY Sizable DEF Promised, NTaking
<1>2. /\ IsFiniteSet(Free') /\ IsFiniteSet(Taking') /\ Cardinality(Free') \in Nat /\ NTaking' \in Nat
      /\ NTaking' = Cardinality(Taking')
  BY SizableThen
<1>3. Promised' <=> fp'.tfree <= Cardinality(Free') + NTaking'
  BY DEF Promised
<1>4. ASSUME NEW b, Took(p, b) PROVE Promised'
  <2>1. fp'.tfree = fp.tfree
    BY <1>4 DEF Took
  <2>2. Cardinality(Free') = Cardinality(Free) - 1
    <3>1. b \in Free /\ Free' = Free \ {b}
      BY <1>4 DEF Took
    <3> QED BY <1>1, <3>1, FS_RemoveElement
  <2>3. NTaking' = NTaking + 1
    <3>1. p \notin Taking /\ Taking' = Taking \cup {p}
      BY <1>4 DEF Took
    <3> QED BY <1>1, <1>2, <3>1, FS_AddElement
  <2> QED BY <1>1, <1>3, <2>1, <2>2, <2>3
<1>5. ASSUME NEW b, Gave(b) PROVE Promised'
  <2>1. fp'.tfree = fp.tfree + 1 /\ NTaking' = NTaking
    BY <1>1, <1>2, <1>5 DEF Gave
  <2>2. Cardinality(Free') = Cardinality(Free) + 1
    <3>1. b \notin Free /\ Free' = Free \cup {b}
      BY <1>5 DEF Gave
    <3> QED BY <1>1, <3>1, FS_AddElement
  <2> QED BY <1>1, <1>3, <2>1, <2>2
<1>6. CASE Denied(p) \/ Lost
  <2>1. fp'.tfree = 0
    BY <1>6 DEF Denied, Lost
  <2> QED BY <1>2, <1>3, <2>1
<1>7. CASE Kept(p)
  <2>1. Cardinality(Free') = Cardinality(Free)
    BY <1>7 DEF Kept
  <2>2. CASE Taking' = Taking /\ fp'.tfree = fp.tfree
    BY <1>1, <1>2, <1>3, <2>1, <2>2
  <2>3. CASE /\ p \in Taking /\ Taking' = Taking \ {p}
             /\ fp'.tfree = IF fp.tfree > 0 THEN fp.tfree - 1 ELSE 0
    <3>1. NTaking' = NTaking - 1
      BY <1>1, <1>2, <2>3, FS_RemoveElement
    <3>2. fp.tfree > 0 => fp'.tfree = fp.tfree - 1
      BY <2>3
    <3>3. ~(fp.tfree > 0) => fp'.tfree = 0
      BY <2>3
    <3> QED BY <1>1, <1>2, <1>3, <2>1, <3>1, <3>2, <3>3
  <2> QED BY <1>7, <2>2, <2>3 DEF Kept
<1> QED BY <1>4, <1>5, <1>6, <1>7 DEF Does

LEMMA PromisedInv == Spec => []Promised
<1>1. Init => Promised
  <2> SUFFICES ASSUME Init PROVE Promised
    OBVIOUS
  <2>1. Free = Block /\ Taking = {} /\ fp.tfree = NBLOCK
    BY InitFree
  <2>2. Cardinality(Block) = NBLOCK
    BY FS_Interval, Sizes DEF Block
  <2> QED BY <2>1, <2>2, FS_EmptySet, Sizes DEF Promised, NTaking
<1>2. IInv /\ IInv' /\ Promised /\ [Next]_vars => Promised'
  <2> SUFFICES ASSUME IInv, IInv', Promised, [Next]_vars PROVE Promised'
    OBVIOUS
  <2>1. CASE Still
    BY <2>1 DEF Still, Promised, NTaking
  <2> QED BY <2>1, NextDoes, PromisedKept
<1>3. IInv /\ [Next]_vars => IInv'
  BY NextInv
<1> QED BY <1>1, <1>2, <1>3, SpecInv, PTL DEF Spec

(* s_tfree never promises more blocks than are free, but for those that    *)
(* alloc has taken off the list and not yet subtracted: it is changed      *)
(* after the sleeps of alloc, and set to 0 when the list is.               *)
THEOREM CountedCorrect == Spec => []Counted
<1>1. Promised => Counted
  BY DEF Promised, Counted, NTaking, Taking, Free
<1> QED BY <1>1, PromisedInv, PTL

-----------------------------------------------------------------------------
(* alloc and free implement BlockPool: every step takes a free block, puts *)
(* back a held one, refuses a request when nothing is free, forgets a      *)
(* refusal, loses blocks after a failed read, or changes none of it.       *)
THEOREM PoolKept == Spec => PoolPromise
<1>1. Init => Pool!PoolInit
  <2> SUFFICES ASSUME Init PROVE Pool!PoolInit
    OBVIOUS
  <2>1. Free = Block /\ Held = {} /\ Refused = {} /\ errors = 0
    BY InitFree
  <2>2. (errors > 0) = FALSE
    BY <2>1
  <2> QED BY <2>1, <2>2 DEF Pool!PoolInit, Free, Refused
<1>2. IInv /\ [Next]_vars => [Pool!PoolNext]_Pool!poolvars
  <2> SUFFICES ASSUME IInv, [Next]_vars PROVE [Pool!PoolNext]_Pool!poolvars
    OBVIOUS
  <2>1. CASE Still
    BY <2>1 DEF Still, Pool!poolvars, Free, Refused
  <2>2. ASSUME NEW p \in Proc, Does(p) PROVE [Pool!PoolNext]_Pool!poolvars
    <3>1. ASSUME NEW b, Took(p, b) PROVE Pool!Take
      <4>1. b \in Held' \ Held
        BY <3>1 DEF Took
      <4>2. /\ Held' = Held \cup {b} /\ b \in Free /\ Free' = Free \ {b} /\ Refused' = Refused
            /\ (errors > 0)' = (errors > 0)
        BY <3>1 DEF Took
      <4> QED BY <4>1, <4>2 DEF Pool!Take, Free, Refused
    <3>2. ASSUME NEW b, Gave(b) PROVE Pool!Give
      <4>1. b \in Held \ Held'
        BY <3>2 DEF Gave
      <4>2. /\ Held' = Held \ {b} /\ Free' = Free \cup {b} /\ Refused' = Refused
            /\ (errors > 0)' = (errors > 0)
        BY <3>2 DEF Gave
      <4> QED BY <4>1, <4>2 DEF Pool!Give, Free, Refused
    <3>3. CASE Denied(p)
      <4>1. /\ Free = {} /\ Free' = Free /\ Held' = Held /\ Refused' = Refused \cup {p}
            /\ (errors > 0)' = (errors > 0)
        BY <3>3 DEF Denied
      <4>2. Pool!Refuse(p)
        BY <4>1 DEF Pool!Refuse, Free, Refused
      <4> QED BY <4>2 DEF Pool!PoolNext
    <3>4. CASE Lost
      <4>1. (errors > 0)' /\ Free' = {} /\ Held' \subseteq Held /\ Refused \subseteq Refused'
        BY <3>4 DEF Lost
      <4>2. Pool!Lose
        BY <4>1 DEF Pool!Lose, Free, Refused
      <4> QED BY <4>2 DEF Pool!PoolNext
    <3>5. CASE Kept(p)
      <4>1. Free' = Free /\ Held' = Held /\ (errors > 0)' = (errors > 0)
        BY <3>5 DEF Kept
      <4>2. CASE Refused' = Refused
        BY <4>1, <4>2 DEF Pool!poolvars, Free, Refused
      <4>3. CASE Refused' = Refused \ {p}
        <5>1. Pool!Excuse(p)
          BY <4>1, <4>3 DEF Pool!Excuse, Free, Refused
        <5> QED BY <5>1 DEF Pool!PoolNext
      <4> QED BY <3>5, <4>2, <4>3 DEF Kept
    <3> QED BY <2>2, <3>1, <3>2, <3>3, <3>4, <3>5 DEF Does, Pool!PoolNext
  <2> QED BY <2>1, <2>2, NextDoes
<1> QED BY <1>1, <1>2, SpecInv, PTL DEF Spec, PoolPromise, Pool!PoolSpec

-----------------------------------------------------------------------------
(* SavedWhenClean, inductively: a call of alloc or free that has not begun *)
(* to work on the list is no exception.                                    *)
Resting == {"idle", "alloc", "nospace", "trunc", "free"}
Clean == ~fp.fmod /\ errors = 0 /\ (\A p \in Proc : pc[p] \in Resting) => FreeOf(super) = FreeOf(fp.list)

LEMMA CleanThen ==
  Clean' <=> (~fp'.fmod /\ errors' = 0 /\ (\A p \in Proc : pc'[p] \in Resting)
               => FreeIn(super', fblk') = FreeIn(fp'.list, fblk'))
  BY FreeOfNow DEF Clean, Resting

LEMMA CleanSame ==
  ASSUME Clean, UNCHANGED <<fp, super, fblk, errors>>, \A p \in Proc : pc'[p] \in Resting => pc[p] \in Resting
  PROVE  Clean'
  BY CleanThen, FreeOfIs DEF Clean

LEMMA CleanAlloc ==
  ASSUME IInv, Clean, NEW p \in Proc, Alloc(p)
  PROVE  Clean'
<1>1. /\ pc[p] = "alloc" /\ ~fp.flock /\ UNCHANGED <<super, fblk, addr, asleep, saving, errors>>
      /\ fp \in Super /\ fp.list \in List /\ TypeOK /\ fp.list.nfree \in Nat
      /\ {"take", "chain", "nospace"} \subseteq PC
  BY Types, PCs DEF Alloc, At, IInv, List
<1>2. CASE fp.list.nfree > 0 /\ Top(fp.list) # None
  <2>1. PICK l \in {"chain", "take"} : Goto(p, l)
    BY <1>1, <1>2 DEF Alloc
  <2>2. pc'[p] = l
    BY <1>1, <2>1, Goes
  <2> QED BY <2>1, <2>2, CleanThen DEF Resting
<1>3. CASE fp.list.nfree = 0 \/ Top(fp.list) = None
  <2>1. NoSpace(p, fp)
    BY <1>3 DEF Alloc
  <2>2. Goto(p, "nospace") /\ fp' = [fp EXCEPT !.list = Empty, !.tfree = 0]
    BY <2>1 DEF NoSpace
  <2>3. fp'.list = Empty /\ fp'.fmod = fp.fmod
    BY <1>1, <2>2 DEF Super
  <2>4. \A q \in Proc : pc'[q] \in Resting => pc[q] \in Resting
    BY <1>1, <2>2, Goes DEF Resting
  <2>5. Free = {} /\ Free' = {}
    BY <1>1, <1>3, <2>1, AllocDenied DEF Denied
  <2>6. Current = fp.list
    BY <1>1, Unlocks
  <2>7. FreeIn(fp.list, fblk) = {}
    BY <2>5, <2>6, FreeOfNow DEF Free
  <2>8. \A q \in Proc : pc'[q] \notin AtBlock
    <3>1. \A q \in Proc : pc[q] \notin Chaining
      BY <1>1, Unlocks
    <3> QED BY <1>1, <2>2, <3>1, Goes DEF AtBlock, Chaining
  <2>9. Current' = fp'.list
    BY <1>1, <2>8, AllocInv, CurrentThen
  <2>10. FreeIn(fp'.list, fblk') = {}
    BY <2>5, <2>9, FreeOfNow DEF Free
  <2> QED BY <1>1, <2>3, <2>4, <2>7, <2>10, CleanThen, FreeOfIs DEF Clean
<1> QED BY <1>1, <1>2, <1>3

LEMMA FreedMarks ==
  ASSUME NEW p \in Proc, NEW s \in Super, Freed(p, s)
  PROVE  fp'.fmod
<1> DEFINE new == Put(s.list, u[p].bno)
<1>1. fp' = [s EXCEPT !.list = new, !.tfree = s.tfree + 1, !.fmod = TRUE]
  BY DEF Freed
<1> HIDE DEF new
<1> QED BY <1>1 DEF Super

LEMMA CleanKernel ==
  ASSUME IInv, Clean, NEW p \in Proc, Kernel(p)
  PROVE  Clean'
<1>1. fp \in Super /\ TypeOK /\ errors \in Nat /\ {"idle", "take", "link", "linked", "trunc"} \subseteq PC
  BY Types, PCs DEF IInv, TypeOK
<1>2. CASE AwaitFlock(p)
  BY <1>2, CleanSame DEF AwaitFlock
<1>3. CASE Alloc(p)
  BY <1>3, CleanAlloc
<1>4. CASE AllocTake(p) \/ TruncNext(p)
  <2>1. PICK n : fp' = [fp EXCEPT !.tfree = n, !.fmod = TRUE] \/ fp' = [fp EXCEPT !.fmod = TRUE]
    BY <1>4 DEF AllocTake, TruncNext
  <2>2. fp'.fmod
    BY <1>1, <2>1 DEF Super
  <2> QED BY <2>2, CleanThen
<1>5. CASE AllocFails(p) \/ TruncEnd(p)
  <2>1. /\ pc[p] \in {"nospace", "trunc"} /\ Goto(p, "idle")
        /\ UNCHANGED <<fp, super, fblk, addr, asleep, saving, errors>>
    BY <1>5 DEF AllocFails, TruncEnd, At
  <2>2. \A q \in Proc : pc'[q] \in Resting => pc[q] \in Resting
    BY <1>1, <2>1, Goes DEF Resting
  <2> QED BY <2>1, <2>2, CleanSame
<1>6. CASE FreeBlock(p)
  <2> DEFINE begun == IF fp.list.nfree = 0 THEN Put(Empty, None) ELSE fp.list
             s == [fp EXCEPT !.list = begun]
  <2>1. IF s.list.nfree < NICFREE THEN Freed(p, s)
        ELSE fp' = [s EXCEPT !.flock = TRUE] /\ Goto(p, "link") /\ UNCHANGED u
    BY <1>6 DEF FreeBlock
  <2>2. begun \in List
    <3>1. Put(Empty, None) \in List /\ fp.list \in List
      BY <1>1, Types, EmptyType, PutType, Sizes DEF None
    <3> QED BY <3>1
  <2> HIDE DEF begun
  <2>3. s \in Super
    BY <1>1, <2>2 DEF Super
  <2> HIDE DEF s
  <2>4. CASE Freed(p, s)
    BY <2>3, <2>4, FreedMarks, CleanThen
  <2>5. CASE Goto(p, "link")
    <3>1. pc'[p] = "link"
      BY <1>1, <2>5, Goes
    <3> QED BY <3>1, CleanThen DEF Resting
  <2> QED BY <2>1, <2>4, <2>5
<1>7. CASE FreeLink(p)
  <2>1. pc'[p] = "linked"
    BY <1>1, <1>7, Goes DEF FreeLink
  <2> QED BY <2>1, CleanThen DEF Resting
<1>8. CASE FreeLinked(p)
  <2> DEFINE s == [fp EXCEPT !.flock = FALSE]
  <2>1. Freed(p, s)
    BY <1>8 DEF FreeLinked
  <2>2. s \in Super
    BY <1>1 DEF Super
  <2> QED BY <2>1, <2>2, FreedMarks, CleanThen
<1>9. ASSUME NEW fails \in BOOLEAN, AllocChain(p, fails) PROVE Clean'
  <2> DEFINE s == [fp EXCEPT !.flock = FALSE, !.list = IF fails THEN @ ELSE fblk[u[p].bno]]
  <2>3. CASE fails
    <3>1. errors' = errors + 1
      BY <1>9, <2>3 DEF AllocChain
    <3>2. errors' # 0
      BY <1>1, <3>1
    <3> QED BY <3>2, CleanThen
  <2>4. CASE ~fails
    <3>1. IF s.list.nfree = 0 THEN NoSpace(p, s) ELSE fp' = s /\ Goto(p, "take") /\ UNCHANGED u
      BY <1>9 DEF AllocChain
    <3>2. pc[p] = "chain"
      BY <1>9 DEF AllocChain, At
    <3>3. fblk[u[p].bno] \in List /\ fblk[u[p].bno].nfree = NICFREE
      BY <1>1, <3>2, Types DEF IInv, Hands, TypeOK
    <3>4. s.list = fblk[u[p].bno]
      BY <1>1, <2>4 DEF Super
    <3> HIDE DEF s
    <3>5. Goto(p, "take")
      BY <3>1, <3>3, <3>4, Sizes
    <3>6. pc'[p] = "take"
      BY <1>1, <3>5, Goes
    <3> QED BY <3>6, CleanThen DEF Resting
  <2> QED BY <2>3, <2>4
<1> QED BY <1>2, <1>3, <1>4, <1>5, <1>6, <1>7, <1>8, <1>9 DEF Kernel

LEMMA CleanInv == Spec => []Clean
<1>1. Init => Clean
  BY DEF Init, Clean
<1>2. IInv /\ Clean /\ [Next]_vars => Clean'
  <2> SUFFICES ASSUME IInv, Clean, [Next]_vars PROVE Clean'
    OBVIOUS
  <2>1. ASSUME NEW p \in Proc, NEW f \in File, Grow(p, f) \/ Truncate(p, f) PROVE Clean'
    <3>1. PICK l \in {"alloc", "trunc"} :
            pc[p] = "idle" /\ Goto(p, l) /\ UNCHANGED <<fp, super, fblk, addr, asleep, saving, errors>>
      BY <2>1 DEF Grow, Truncate, At
    <3>2. TypeOK /\ l \in PC
      BY PCs DEF IInv
    <3>3. \A q \in Proc : pc'[q] \in Resting => pc[q] \in Resting
      BY <3>1, <3>2, Goes DEF Resting
    <3> QED BY <3>1, <3>3, CleanSame
  <2>2. CASE UpdateTest \/ UNCHANGED vars
    <3>1. UNCHANGED <<fp, super, fblk, pc, errors>>
      BY <2>2 DEF UpdateTest, vars
    <3> QED BY <3>1, CleanSame
  <2>3. CASE UpdateCopy
    <3>1. super' = fp.list /\ fblk' = fblk /\ fp' = [fp EXCEPT !.fmod = FALSE]
      BY <2>3 DEF UpdateCopy
    <3>2. fp'.list = fp.list
      BY <3>1, Types DEF IInv, Super
    <3> QED BY <3>1, <3>2, CleanThen
  <2> QED BY <2>1, <2>2, <2>3, CleanKernel DEF Next
<1> QED BY <1>1, <1>2, SpecInv, PTL DEF Spec

(* Once s_fmod is clear and no call is at work on the list, the superblock *)
(* on the disk has the free blocks that the one in core has, whatever came *)
(* between update's look at s_flock and, after a sleep, its copy.          *)
THEOREM SavedCorrect == Spec => []SavedWhenClean
<1>1. Clean => SavedWhenClean
  BY DEF Clean, SavedWhenClean, Resting
<1> QED BY <1>1, CleanInv, PTL
=============================================================================
