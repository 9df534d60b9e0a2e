--------------------------- MODULE FreeBlocksProof ---------------------------
(***************************************************************************)
(* Proofs about the free blocks, for any number of processes, files and    *)
(* blocks: the list and its chain have each block once, and none that has  *)
(* been given out.                                                         *)
(***************************************************************************)
EXTENDS FreeBlocks, FiniteSetTheorems, TLAPS

(* The free list is the list cur and those in the blocks of a set S, each  *)
(* of which is at place 0 of another: x is the block a list is in, None    *)
(* for cur.                                                                *)
At0(cur, blk, x) == IF x = None THEN cur ELSE blk[x]
In(S, cur, blk, x, i) == x \in S \cup {None} /\ i \in Slot /\ i < At0(cur, blk, x).nfree

Linked(S, cur, blk) == \A x \in S \cup {None} :
  At0(cur, blk, x).nfree > 0 /\ At0(cur, blk, x).free[0] # None => At0(cur, blk, x).free[0] \in S
Rooted(S, cur, blk) == \A b \in S : \E x \in S \cup {None} :
  At0(cur, blk, x).nfree > 0 /\ At0(cur, blk, x).free[0] = b
Distinct(S, cur, blk) == \A x, y \in S \cup {None} : \A i, j \in Slot :
  /\ i < At0(cur, blk, x).nfree /\ j < At0(cur, blk, y).nfree
  /\ At0(cur, blk, x).free[i] = At0(cur, blk, y).free[j] /\ At0(cur, blk, x).free[i] # None
  => x = y /\ i = j
Apart(S, cur, blk, held) == \A x \in S \cup {None} : \A i \in Slot :
  i < At0(cur, blk, x).nfree => At0(cur, blk, x).free[i] \notin held
(* A list in a block is full, and block 0 only ends a list.                *)
Full(S, blk) == \A b \in S : blk[b].nfree = NICFREE
NoneFirst(S, cur, blk) == \A x \in S \cup {None} : \A i \in Slot :
  0 < i /\ i < At0(cur, blk, x).nfree => At0(cur, blk, x).free[i] # None

(* The lists in the order alloc comes to them: list i is the one in w[i].  *)
Order(w, d, S, cur, blk) ==
  /\ w[0] = None
  /\ \A i \in 1..d : w[i] \in S
  /\ \A b \in S : \E i \in 1..d : w[i] = b
  /\ \A i, j \in 0..d : w[i] = w[j] => i = j
  /\ \A i \in 0..d-1 : At0(cur, blk, w[i]).nfree > 0 /\ At0(cur, blk, w[i]).free[0] = w[i + 1]
  /\ At0(cur, blk, w[d]).nfree > 0 => At0(cur, blk, w[d]).free[0] = None
Ordered(S, cur, blk) == \E d \in Nat : \E w : Order(w, d, S, cur, blk)

Chain(S, cur, blk, held) ==
  /\ S \subseteq Block
  /\ Linked(S, cur, blk) /\ Rooted(S, cur, blk)
  /\ Distinct(S, cur, blk) /\ Apart(S, cur, blk, held)
  /\ Full(S, blk) /\ NoneFirst(S, cur, blk) /\ Ordered(S, cur, blk)
Chained == \E S \in SUBSET Block : Chain(S, Current, fblk, Held)

Chaining == {"chain", "link", "linked"}
Locked ==
  /\ fp.flock <=> \E p \in Proc : pc[p] \in Chaining
  /\ \A p, q \in Proc : pc[p] \in Chaining /\ pc[q] \in Chaining => p = q
  /\ \A p \in Proc : asleep[p] => fp.flock
Hands == \A p \in Proc :
  /\ pc[p] \in {"chain", "linked"} => fp.list.nfree = 0
  /\ pc[p] \in {"chain", "take", "free", "link", "linked"} => u[p].bno # None
  /\ pc[p] \in {"idle", "alloc", "nospace", "trunc"} => u[p].bno = None
  /\ pc[p] \in {"chain", "linked"} => fblk[u[p].bno].nfree = NICFREE
  /\ pc[p] = "link" => fp.list.nfree = NICFREE
  /\ pc[p] # "idle" => u[p].file \in File

IInv == TypeOK /\ Locked /\ Hands /\ NoBlockTwice /\ Chained

-----------------------------------------------------------------------------
LEMMA Sizes == /\ NBLOCK \in Nat /\ NBLOCK > 0 /\ NICFREE \in Nat /\ NICFREE > 1
               /\ Slot = 0..NICFREE-1 /\ 0 \in Slot /\ None \notin Block
  BY SizeAssumption DEF Slot, Block, None

LEMMA ListType ==
  ASSUME NEW l
  PROVE  l \in List <=> l = [nfree |-> l.nfree, free |-> l.free]
                        /\ l.nfree \in 0..NICFREE /\ l.free \in [Slot -> 0..NBLOCK]
  BY DEF List

LEMMA EmptyType == Empty \in List /\ Empty.nfree = 0
  BY Sizes DEF Empty, List, None

LEMMA PutType ==
  ASSUME NEW l \in List, l.nfree < NICFREE, NEW b \in 0..NBLOCK
  PROVE  /\ Put(l, b) \in List /\ Put(l, b).nfree = l.nfree + 1 /\ l.nfree \in Slot
         /\ Put(l, b).free[l.nfree] = b
         /\ \A i \in Slot : i # l.nfree => Put(l, b).free[i] = l.free[i]
<1>1. l.nfree \in 0..NICFREE /\ l.free \in [Slot -> 0..NBLOCK]
  BY DEF List
<1>2. l.nfree \in Slot /\ l.nfree + 1 \in 0..NICFREE
  BY <1>1, Sizes
<1> DEFINE f == [l.free EXCEPT ![l.nfree] = b]
<1>3. f \in [Slot -> 0..NBLOCK] /\ f[l.nfree] = b /\ \A i \in Slot : i # l.nfree => f[i] = l.free[i]
  BY <1>1, <1>2
<1>4. Put(l, b) = [nfree |-> l.nfree + 1, free |-> f]
  BY DEF Put
<1> HIDE DEF f
<1> QED BY <1>2, <1>3, <1>4 DEF List

LEMMA PoppedType ==
  ASSUME NEW l \in List, l.nfree > 0
  PROVE  /\ Popped(l) \in List /\ Popped(l).nfree = l.nfree - 1 /\ l.nfree - 1 \in Slot
         /\ Top(l) = l.free[l.nfree - 1] /\ Top(l) \in 0..NBLOCK
         /\ \A i \in Slot : i # l.nfree - 1 => Popped(l).free[i] = l.free[i]
<1>1. l.nfree \in 0..NICFREE /\ l.free \in [Slot -> 0..NBLOCK]
  BY DEF List
<1>2. l.nfree - 1 \in Slot /\ l.nfree - 1 \in 0..NICFREE /\ None \in 0..NBLOCK
  BY <1>1, Sizes DEF None
<1> DEFINE n == l.nfree - 1
           f == [l.free EXCEPT ![n] = None]
<1>3. f \in [Slot -> 0..NBLOCK] /\ l.free[n] \in 0..NBLOCK /\ \A i \in Slot : i # n => f[i] = l.free[i]
  BY <1>1, <1>2
<1>4. Popped(l) = [nfree |-> n, free |-> f] /\ Top(l) = l.free[n]
  BY DEF Popped, Top
<1> HIDE DEF f, n
<1>5. Popped(l) \in List /\ Popped(l).nfree = n /\ \A i \in Slot : i # n => Popped(l).free[i] = l.free[i]
  BY <1>2, <1>3, <1>4 DEF List, n
<1> QED BY <1>2, <1>3, <1>4, <1>5 DEF n

-----------------------------------------------------------------------------
LEMMA OrderIn ==
  ASSUME NEW w, NEW d \in Nat, NEW S, NEW cur, NEW blk, Order(w, d, S, cur, blk), None \notin S
  PROVE  \A i \in 0..d : w[i] \in S \cup {None} /\ (i # 0 => w[i] \in S /\ w[i] # None)
<1> SUFFICES ASSUME NEW i \in 0..d PROVE w[i] \in S \cup {None} /\ (i # 0 => w[i] \in S /\ w[i] # None)
  OBVIOUS
<1>1. CASE i = 0
  BY <1>1 DEF Order
<1>2. CASE i # 0
  <2>1. i \in 1..d
    BY <1>2
  <2> QED BY <2>1 DEF Order
<1> QED BY <1>1, <1>2

(* Only place 0 of the lists matters for the order they are in.            *)
LEMMA OrderedSame ==
  ASSUME NEW S, None \notin S, NEW cur, NEW blk, NEW new, NEW blk2, Ordered(S, cur, blk),
         \A x \in S \cup {None} :
           /\ At0(new, blk2, x).nfree > 0 <=> At0(cur, blk, x).nfree > 0
           /\ At0(cur, blk, x).nfree > 0 => At0(new, blk2, x).free[0] = At0(cur, blk, x).free[0]
  PROVE  Ordered(S, new, blk2)
<1>1. PICK d \in Nat : \E w : Order(w, d, S, cur, blk)
  BY DEF Ordered
<1>2. PICK w : Order(w, d, S, cur, blk)
  BY <1>1
<1>3. \A i \in 0..d : w[i] \in S \cup {None}
  BY <1>2, OrderIn
<1>4. \A i \in 0..d-1 : At0(new, blk2, w[i]).nfree > 0 /\ At0(new, blk2, w[i]).free[0] = w[i + 1]
  <2> SUFFICES ASSUME NEW i \in 0..d-1
               PROVE  At0(new, blk2, w[i]).nfree > 0 /\ At0(new, blk2, w[i]).free[0] = w[i + 1]
    OBVIOUS
  <2>1. i \in 0..d
    OBVIOUS
  <2> QED BY <1>2, <1>3, <2>1 DEF Order
<1>5. At0(new, blk2, w[d]).nfree > 0 => At0(new, blk2, w[d]).free[0] = None
  <2>1. d \in 0..d
    OBVIOUS
  <2> QED BY <1>2, <1>3, <2>1 DEF Order
<1>6. Order(w, d, S, new, blk2)
  BY <1>2, <1>4, <1>5 DEF Order
<1> QED BY <1>6 DEF Ordered

(* Chain reads the blocks of S only, and holds for less held.              *)
LEMMA Frame ==
  ASSUME NEW S, NEW cur, NEW blk, NEW blk2, NEW held, NEW held2, Chain(S, cur, blk, held),
         \A x \in S : blk2[x] = blk[x], held2 \subseteq held
  PROVE  Chain(S, cur, blk2, held2)
<1>1. \A x \in S \cup {None} : At0(cur, blk2, x) = At0(cur, blk, x)
  BY DEF At0
<1>2. None \notin S
  BY Sizes DEF Chain
<1>3. Ordered(S, cur, blk2)
  BY <1>1, <1>2, OrderedSame DEF Chain
<1> QED BY <1>1, <1>3 DEF Chain, Linked, Rooted, Distinct, Apart, Full, NoneFirst

LEMMA Nothing ==
  ASSUME NEW cur, cur.nfree = 0, NEW blk, NEW held
  PROVE  Chain({}, cur, blk, held)
<1>1. \A x \in {None} : At0(cur, blk, x).nfree = 0
  BY DEF At0
<1>2. \A i \in Slot : ~(i < 0)
  BY Sizes
<1>3. Ordered({}, cur, blk)
  <2> DEFINE w == [i \in {0} |-> None]
  <2>1. w[0] = None /\ \A i \in 0..0 : i = 0
    OBVIOUS
  <2> HIDE DEF w
  <2>2. Order(w, 0, {}, cur, blk)
    BY <1>1, <2>1 DEF Order
  <2> QED BY <2>2 DEF Ordered
<1>4. Full({}, blk) /\ NoneFirst({}, cur, blk)
  BY <1>1, <1>2 DEF Full, NoneFirst
<1> QED BY <1>1, <1>2, <1>3, <1>4 DEF Chain, Linked, Rooted, Distinct, Apart

(* A held block is not one of the chain: the chain's are at a place 0.     *)
LEMMA NotOfChain ==
  ASSUME NEW S, NEW cur, NEW blk, NEW held, Chain(S, cur, blk, held), NEW b \in held
  PROVE  b \notin S
  BY Sizes DEF Chain, Rooted, Apart

(* alloc takes an entry that is not the last one.                          *)
LEMMA PopEntry ==
  ASSUME NEW S, NEW cur \in List, NEW blk, NEW held, Chain(S, cur, blk, held),
         cur.nfree > 1, Top(cur) # None
  PROVE  Chain(S, Popped(cur), blk, held \cup {Top(cur)})
<1> DEFINE b == Top(cur)
           n == cur.nfree - 1
           new == Popped(cur)
<1>1. /\ new.nfree = n /\ n \in Slot /\ n # 0 /\ b = cur.free[n] /\ n < cur.nfree /\ n > 0
      /\ \A i \in Slot : i < n => i # n /\ i < cur.nfree /\ new.free[i] = cur.free[i]
      /\ cur.nfree > 0 /\ 0 \in Slot
  <2>1. cur.nfree \in Nat /\ cur.nfree > 0
    BY DEF List
  <2>2. /\ new.nfree = n /\ n \in Slot /\ b = cur.free[n]
        /\ \A i \in Slot : i # n => new.free[i] = cur.free[i]
    BY <2>1, PoppedType
  <2>3. n # 0 /\ n < cur.nfree /\ n > 0 /\ n \in Int
    BY <2>1
  <2>4. 0 \in Slot /\ Slot \subseteq Int
    BY Sizes
  <2> HIDE DEF n, new, b
  <2>5. \A i \in Slot : i < n => i # n /\ i < cur.nfree
    BY <2>1, <2>3, <2>4
  <2> QED BY <2>1, <2>2, <2>3, <2>4, <2>5
<1>2. \A x \in S \cup {None} : x # None => At0(new, blk, x) = At0(cur, blk, x)
  BY DEF At0
<1>3. At0(new, blk, None) = new /\ At0(cur, blk, None) = cur
  BY DEF At0
<1>4. b # None
  OBVIOUS
<1> HIDE DEF b, n, new
<1>5. Linked(S, new, blk)
  BY <1>1, <1>2, <1>3 DEF Chain, Linked
<1>6. Rooted(S, new, blk)
  <2> SUFFICES ASSUME NEW c \in S
               PROVE  \E x \in S \cup {None} : At0(new, blk, x).nfree > 0 /\ At0(new, blk, x).free[0] = c
    BY DEF Rooted
  <2>1. PICK x \in S \cup {None} : At0(cur, blk, x).nfree > 0 /\ At0(cur, blk, x).free[0] = c
    BY DEF Chain, Rooted
  <2> QED BY <1>1, <1>2, <1>3, <2>1
<1>7. \A x \in S \cup {None} : \A i \in Slot : i < At0(new, blk, x).nfree =>
        /\ i < At0(cur, blk, x).nfree /\ At0(new, blk, x).free[i] = At0(cur, blk, x).free[i]
        /\ (x = None => i # n)
  BY <1>1, <1>2, <1>3
<1>8. Distinct(S, new, blk)
  BY <1>7 DEF Chain, Distinct
<1>9. Apart(S, new, blk, held \cup {b})
  <2> SUFFICES ASSUME NEW x \in S \cup {None}, NEW i \in Slot, i < At0(new, blk, x).nfree,
                      At0(new, blk, x).free[i] \in held \cup {b}
               PROVE  FALSE
    BY DEF Apart
  <2>1. At0(cur, blk, x).free[i] \in held \cup {b} /\ i < At0(cur, blk, x).nfree
    BY <1>7
  <2>2. CASE At0(cur, blk, x).free[i] = b
    <3>1. x = None /\ i = n
      BY <1>1, <1>3, <1>4, <2>1, <2>2 DEF Chain, Distinct
    <3> QED BY <1>7, <3>1
  <2>3. CASE At0(cur, blk, x).free[i] \in held
    BY <2>1, <2>3 DEF Chain, Apart
  <2> QED BY <2>1, <2>2, <2>3
<1>10. None \notin S
  BY Sizes DEF Chain
<1>11. Ordered(S, new, blk)
  <2>1. \A x \in S \cup {None} :
          /\ At0(new, blk, x).nfree > 0 <=> At0(cur, blk, x).nfree > 0
          /\ At0(cur, blk, x).nfree > 0 => At0(new, blk, x).free[0] = At0(cur, blk, x).free[0]
    BY <1>1, <1>2, <1>3
  <2> QED BY <1>10, <2>1, OrderedSame DEF Chain
<1>12. NoneFirst(S, new, blk)
  BY <1>7 DEF Chain, NoneFirst
<1> QED BY <1>5, <1>6, <1>8, <1>9, <1>11, <1>12 DEF Chain, b, new

LEMMA OrderedTail ==
  ASSUME NEW S, None \notin S, NEW cur, NEW blk, Ordered(S, cur, blk),
         cur.nfree = 1, cur.free[0] # None
  PROVE  Ordered(S \ {cur.free[0]}, blk[cur.free[0]], blk)
<1> DEFINE b == cur.free[0]
           T == S \ {b}
<1>1. PICK d \in Nat : \E w : Order(w, d, S, cur, blk)
  BY DEF Ordered
<1>2. PICK w : Order(w, d, S, cur, blk)
  BY <1>1
<1>3. At0(cur, blk, None) = cur
  BY DEF At0
<1>4. d # 0
  BY <1>2, <1>3 DEF Order
<1> DEFINE e == d - 1
           v == [i \in 0..e |-> IF i = 0 THEN None ELSE w[i + 1]]
<1>5. e \in Nat /\ d = e + 1 /\ 1 \in 1..d /\ 0 \in 0..d-1
  BY <1>4
<1>6. w[1] = b /\ b \in S /\ b # None
  BY <1>2, <1>3, <1>5 DEF Order
<1>7. v[0] = None /\ \A i \in 1..e : v[i] = w[i + 1]
  BY <1>5
<1> HIDE DEF v, e, b, T
<1>8. \A i \in 0..d : w[i] \in S \cup {None} /\ (i # 0 => w[i] \in S /\ w[i] # None)
  BY <1>2, OrderIn
<1>9. \A i \in 1..e : i + 1 \in 0..d /\ i + 1 \in 1..d /\ i + 1 # 0 /\ i + 1 # 1
  BY <1>5
<1>10. \A i \in 1..e : v[i] \in S /\ v[i] # None /\ v[i] # b
  <2> SUFFICES ASSUME NEW i \in 1..e PROVE v[i] \in S /\ v[i] # None /\ v[i] # b
    OBVIOUS
  <2>1. 1 \in 0..d
    BY <1>5
  <2> QED BY <1>2, <1>6, <1>7, <1>8, <1>9, <2>1 DEF Order
<1>11. \A i \in 0..e : At0(blk[b], blk, v[i]) = At0(cur, blk, w[i + 1])
  <2> SUFFICES ASSUME NEW i \in 0..e PROVE At0(blk[b], blk, v[i]) = At0(cur, blk, w[i + 1])
    OBVIOUS
  <2>1. CASE i = 0
    <3>1. w[i + 1] = b
      BY <1>6, <2>1
    <3> QED BY <1>6, <1>7, <2>1, <3>1 DEF At0
  <2>2. CASE i # 0
    <3>1. i \in 1..e
      BY <1>5, <2>2
    <3>2. v[i] = w[i + 1] /\ v[i] # None
      BY <1>7, <1>10, <3>1
    <3> QED BY <3>2 DEF At0
  <2> QED BY <2>1, <2>2
<1>12. Order(v, e, T, blk[b], blk)
  <2>1. \A i \in 1..e : v[i] \in T
    BY <1>10 DEF T
  <2>2. \A c \in T : \E i \in 1..e : v[i] = c
    <3> SUFFICES ASSUME NEW c \in T PROVE \E i \in 1..e : v[i] = c
      OBVIOUS
    <3>1. PICK j \in 1..d : w[j] = c
      BY <1>2 DEF Order, T
    <3>2. j # 1
      BY <1>6, <3>1 DEF T
    <3>3. j - 1 \in 1..e /\ (j - 1) + 1 = j
      BY <1>5, <3>2
    <3>4. v[j - 1] = c
      BY <1>7, <3>1, <3>3
    <3> QED BY <3>3, <3>4
  <2>3. \A i, j \in 0..e : v[i] = v[j] => i = j
    <3>1. \A i \in 1..e : v[i] # v[0]
      BY <1>7, <1>10
    <3>2. \A i, j \in 1..e : v[i] = v[j] => i = j
      <4> SUFFICES ASSUME NEW i \in 1..e, NEW j \in 1..e, v[i] = v[j] PROVE i = j
        OBVIOUS
      <4>1. i + 1 = j + 1
        BY <1>2, <1>7, <1>9 DEF Order
      <4> QED BY <4>1
    <3>3. \A i \in 0..e : i = 0 \/ i \in 1..e
      BY <1>5
    <3> QED BY <3>1, <3>2, <3>3
  <2>4. ASSUME NEW i \in 0..e-1
        PROVE  At0(blk[b], blk, v[i]).nfree > 0 /\ At0(blk[b], blk, v[i]).free[0] = v[i + 1]
    <3>1. i \in 0..e /\ i + 1 \in 0..d-1 /\ i + 1 \in 1..e /\ i + 1 \in Nat
      BY <1>5
    <3>2. v[i + 1] = w[(i + 1) + 1]
      BY <1>7, <3>1
    <3> QED BY <1>2, <1>11, <3>1, <3>2 DEF Order
  <2>5. At0(blk[b], blk, v[e]).nfree > 0 => At0(blk[b], blk, v[e]).free[0] = None
    <3>1. e \in 0..e
      BY <1>5
    <3> QED BY <1>2, <1>5, <1>11, <3>1 DEF Order
  <2> QED BY <1>7, <2>1, <2>2, <2>3, <2>4, <2>5 DEF Order
<1> QED BY <1>5, <1>12 DEF Ordered, T, b

(* It takes the last one, and the list goes on with the one in that block. *)
LEMMA PopLast ==
  ASSUME NEW S, NEW cur, NEW blk, NEW held, Chain(S, cur, blk, held),
         cur.nfree = 1, cur.free[0] # None
  PROVE  Chain(S \ {cur.free[0]}, blk[cur.free[0]], blk, held \cup {cur.free[0]})
<1> DEFINE b == cur.free[0]
           T == S \ {b}
           back(x) == IF x = None THEN b ELSE x
<1>1. At0(cur, blk, None) = cur
  BY DEF At0
<1>2. b \in S /\ b # None
  BY <1>1 DEF Chain, Linked
<1>3. None \notin S
  BY Sizes DEF Chain
<1>4. \A x \in T \cup {None} : back(x) \in S /\ back(x) # None /\ At0(blk[b], blk, x) = At0(cur, blk, back(x))
  BY <1>2, <1>3 DEF At0
<1>5. \A x, y \in T \cup {None} : back(x) = back(y) => x = y
  BY <1>2, <1>3
<1>6. \A x \in S : x # b => x \in T /\ back(x) = x
  BY <1>3
<1> HIDE DEF T, back, b
<1>7. \A x \in S : \A i \in Slot : i < At0(cur, blk, x).nfree => At0(cur, blk, x).free[i] # b
  <2> SUFFICES ASSUME NEW x \in S, NEW i \in Slot, i < At0(cur, blk, x).nfree, At0(cur, blk, x).free[i] = b
               PROVE  FALSE
    OBVIOUS
  <2>1. 0 \in Slot /\ 0 < At0(cur, blk, None).nfree /\ At0(cur, blk, None).free[0] = b
    BY <1>1, Sizes DEF b
  <2>2. x = None
    BY <1>2, <2>1 DEF Chain, Distinct
  <2> QED BY <1>3, <2>2
<1>8. Linked(T, blk[b], blk)
  <2> SUFFICES ASSUME NEW x \in T \cup {None}, At0(cur, blk, back(x)).nfree > 0, At0(cur, blk, back(x)).free[0] # None
               PROVE  At0(cur, blk, back(x)).free[0] \in T
    BY <1>4 DEF Linked
  <2>1. At0(cur, blk, back(x)).free[0] \in S
    BY <1>4 DEF Chain, Linked
  <2>2. At0(cur, blk, back(x)).free[0] # b
    BY <1>4, <1>7, Sizes
  <2> QED BY <2>1, <2>2 DEF T
<1>9. Rooted(T, blk[b], blk)
  <2> SUFFICES ASSUME NEW c \in T
               PROVE  \E x \in T \cup {None} : At0(blk[b], blk, x).nfree > 0 /\ At0(blk[b], blk, x).free[0] = c
    BY DEF Rooted
  <2>1. PICK x \in S \cup {None} : At0(cur, blk, x).nfree > 0 /\ At0(cur, blk, x).free[0] = c
    BY DEF Chain, Rooted, T
  <2>2. x # None
    BY <1>1, <2>1 DEF b, T
  <2>3. CASE x = b
    BY <1>4, <2>1, <2>3, back(None) = b DEF back
  <2>4. CASE x # b
    BY <1>4, <1>6, <2>1, <2>2, <2>4
  <2> QED BY <2>3, <2>4
<1>10. Distinct(T, blk[b], blk)
  BY <1>4, <1>5 DEF Chain, Distinct
<1>11. Apart(T, blk[b], blk, held \cup {b})
  BY <1>4, <1>7 DEF Chain, Apart
<1>12. T \subseteq Block
  BY DEF Chain, T
<1>13. Full(T, blk)
  BY DEF Chain, Full, T
<1>14. NoneFirst(T, blk[b], blk)
  BY <1>4 DEF Chain, NoneFirst
<1>15. Ordered(T, blk[b], blk)
  BY <1>2, <1>3, OrderedTail DEF Chain, b, T
<1> QED BY <1>8, <1>9, <1>10, <1>11, <1>12, <1>13, <1>14, <1>15 DEF Chain, T, b

(* free begins a list that is empty with block 0.                          *)
LEMMA Begun ==
  ASSUME NEW S, NEW cur, NEW blk, NEW held, Chain(S, cur, blk, held), cur.nfree = 0, None \notin held
  PROVE  Chain(S, Put(Empty, None), blk, held)
<1> DEFINE new == Put(Empty, None)
<1>1. new.nfree = 1 /\ new.free[0] = None
  BY PutType, EmptyType, Sizes DEF None
<1>2. \A i \in Slot : i < 1 => i = 0
  BY Sizes
<1>3. \A x \in S : x # None /\ At0(new, blk, x) = At0(cur, blk, x)
  BY Sizes DEF At0, Chain
<1>4. At0(new, blk, None) = new /\ At0(cur, blk, None) = cur
  BY DEF At0
<1> HIDE DEF new
<1>5. Linked(S, new, blk)
  BY <1>1, <1>3, <1>4 DEF Chain, Linked
<1>6. Rooted(S, new, blk)
  <2>1. \A c \in S : \E x \in S : At0(cur, blk, x).nfree > 0 /\ At0(cur, blk, x).free[0] = c
    <3> SUFFICES ASSUME NEW c \in S
                 PROVE  \E x \in S : At0(cur, blk, x).nfree > 0 /\ At0(cur, blk, x).free[0] = c
      OBVIOUS
    <3>1. PICK x \in S \cup {None} : At0(cur, blk, x).nfree > 0 /\ At0(cur, blk, x).free[0] = c
      BY DEF Chain, Rooted
    <3> QED BY <1>4, <3>1
  <2> QED BY <1>3, <2>1 DEF Rooted
<1>7. Distinct(S, new, blk)
  BY <1>1, <1>2, <1>3, <1>4 DEF Chain, Distinct
<1>8. Apart(S, new, blk, held)
  BY <1>1, <1>2, <1>3, <1>4 DEF Chain, Apart
<1>9. Ordered(S, new, blk)
  <2>1. PICK d \in Nat : \E w : Order(w, d, S, cur, blk)
    BY DEF Chain, Ordered
  <2>2. PICK w : Order(w, d, S, cur, blk)
    BY <2>1
  <2>3. d = 0
    <3> SUFFICES ASSUME d # 0 PROVE FALSE
      OBVIOUS
    <3>1. 0 \in 0..d-1
      OBVIOUS
    <3> QED BY <1>4, <2>2, <3>1 DEF Order
  <2>4. Order(w, 0, S, new, blk)
    <3>1. \A i \in 0..0-1 : FALSE
      OBVIOUS
    <3> QED BY <1>1, <1>4, <2>2, <2>3, <3>1 DEF Order
  <2> QED BY <2>4 DEF Ordered
<1>10. NoneFirst(S, new, blk)
  <2> SUFFICES ASSUME NEW x \in S \cup {None}, NEW i \in Slot, 0 < i, i < At0(new, blk, x).nfree
               PROVE  At0(new, blk, x).free[i] # None
    BY DEF NoneFirst
  <2>1. x # None
    <3> SUFFICES ASSUME x = None PROVE FALSE
      OBVIOUS
    <3>1. i < 1
      BY <1>1, <1>4
    <3> QED BY <1>2, <3>1
  <2> QED BY <1>3, <2>1 DEF Chain, NoneFirst
<1> QED BY <1>5, <1>6, <1>7, <1>8, <1>9, <1>10 DEF Chain, new

(* free puts a block on the list.                                          *)
LEMMA PushEntry ==
  ASSUME NEW S, NEW cur \in List, NEW blk, NEW held, Chain(S, cur, blk, held),
         cur.nfree > 0, cur.nfree < NICFREE, NEW b \in Block, b \in held
  PROVE  Chain(S, Put(cur, b), blk, held \ {b})
<1> DEFINE n == cur.nfree
           new == Put(cur, b)
<1>1. /\ new.nfree = n + 1 /\ n \in Slot /\ n # 0 /\ new.free[n] = b /\ 0 \in Slot /\ n > 0 /\ n + 1 > 0
      /\ \A i \in Slot : i # n => new.free[i] = cur.free[i]
      /\ \A i \in Slot : i < n + 1 /\ i # n => i < n
  <2>1. n \in Nat /\ n > 0 /\ n # 0 /\ n + 1 > 0 /\ b \in 0..NBLOCK
    BY Sizes DEF List, Block
  <2>2. /\ new.nfree = n + 1 /\ n \in Slot /\ new.free[n] = b
        /\ \A i \in Slot : i # n => new.free[i] = cur.free[i]
    BY <2>1, PutType
  <2>3. 0 \in Slot /\ Slot \subseteq Int
    BY Sizes
  <2> HIDE DEF n, new
  <2>4. \A i \in Slot : i < n + 1 /\ i # n => i < n
    BY <2>1, <2>3
  <2> QED BY <2>1, <2>2, <2>3, <2>4
<1>2. \A x \in S : x # None /\ At0(new, blk, x) = At0(cur, blk, x)
  BY Sizes DEF At0, Chain
<1>3. At0(new, blk, None) = new /\ At0(cur, blk, None) = cur
  BY DEF At0
<1>4. cur.nfree = n
  OBVIOUS
<1> HIDE DEF n, new
<1>5. Linked(S, new, blk)
  BY <1>1, <1>2, <1>3, <1>4 DEF Chain, Linked
<1>6. Rooted(S, new, blk)
  <2> SUFFICES ASSUME NEW c \in S
               PROVE  \E x \in S \cup {None} : At0(new, blk, x).nfree > 0 /\ At0(new, blk, x).free[0] = c
    BY DEF Rooted
  <2>1. PICK x \in S \cup {None} : At0(cur, blk, x).nfree > 0 /\ At0(cur, blk, x).free[0] = c
    BY DEF Chain, Rooted
  <2> QED BY <1>1, <1>2, <1>3, <2>1
<1>7. \A x \in S \cup {None} : \A i \in Slot : i < At0(new, blk, x).nfree =>
        \/ x = None /\ i = n /\ At0(new, blk, x).free[i] = b
        \/ /\ i < At0(cur, blk, x).nfree /\ At0(new, blk, x).free[i] = At0(cur, blk, x).free[i]
           /\ At0(cur, blk, x).free[i] \notin held
  BY <1>1, <1>2, <1>3, <1>4 DEF Chain, Apart
<1>8. Distinct(S, new, blk)
  BY <1>7 DEF Chain, Distinct
<1>9. Apart(S, new, blk, held \ {b})
  BY <1>7 DEF Apart
<1>10. None \notin S /\ b # None
  BY Sizes DEF Chain
<1>11. Ordered(S, new, blk)
  <2>1. \A x \in S \cup {None} :
          /\ At0(new, blk, x).nfree > 0 <=> At0(cur, blk, x).nfree > 0
          /\ At0(cur, blk, x).nfree > 0 => At0(new, blk, x).free[0] = At0(cur, blk, x).free[0]
    BY <1>1, <1>2, <1>3, <1>4
  <2> QED BY <1>10, <2>1, OrderedSame DEF Chain
<1>12. NoneFirst(S, new, blk)
  BY <1>7, <1>10 DEF Chain, NoneFirst
<1> QED BY <1>5, <1>6, <1>8, <1>9, <1>11, <1>12 DEF Chain, new

LEMMA OrderedCons ==
  ASSUME NEW S, None \notin S, NEW blk, NEW b, b \notin S, b # None, Ordered(S, blk[b], blk),
         NEW new, new.nfree = 1, new.free[0] = b
  PROVE  Ordered(S \cup {b}, new, blk)
<1> DEFINE T == S \cup {b}
<1>1. PICK d \in Nat : \E w : Order(w, d, S, blk[b], blk)
  BY DEF Ordered
<1>2. PICK w : Order(w, d, S, blk[b], blk)
  BY <1>1
<1> DEFINE e == d + 1
           v == [i \in 0..e |-> IF i = 0 THEN None ELSE IF i = 1 THEN b ELSE w[i - 1]]
<1>3. e \in Nat /\ d = e - 1 /\ 0 \in 0..e /\ 1 \in 1..e /\ e # 0
  OBVIOUS
<1>4. v[0] = None /\ v[1] = b /\ \A i \in 1..e : i # 1 => v[i] = w[i - 1]
  BY <1>3
<1> HIDE DEF v, e, T
<1>5. \A i \in 0..d : w[i] \in S \cup {None} /\ (i # 0 => w[i] \in S /\ w[i] # None)
  BY <1>2, OrderIn
<1>6. \A i \in 1..e : i - 1 \in 0..d /\ (i # 1 => i - 1 # 0 /\ i - 1 \in 1..d)
  BY <1>3
<1>7. \A i \in 1..e : v[i] \in T /\ v[i] # None /\ (i # 1 => v[i] \in S /\ v[i] # b)
  BY <1>4, <1>5, <1>6 DEF T
<1>8. \A i \in 1..e : At0(new, blk, v[i]) = At0(blk[b], blk, w[i - 1])
  <2> SUFFICES ASSUME NEW i \in 1..e PROVE At0(new, blk, v[i]) = At0(blk[b], blk, w[i - 1])
    OBVIOUS
  <2>1. CASE i = 1
    <3>1. w[i - 1] = None
      BY <1>2, <2>1 DEF Order
    <3> QED BY <1>4, <2>1, <3>1 DEF At0
  <2>2. CASE i # 1
    BY <1>4, <1>7, <2>2 DEF At0
  <2> QED BY <2>1, <2>2
<1>9. Order(v, e, T, new, blk)
  <2>1. \A c \in T : \E i \in 1..e : v[i] = c
    <3> SUFFICES ASSUME NEW c \in T PROVE \E i \in 1..e : v[i] = c
      OBVIOUS
    <3>1. CASE c = b
      BY <1>3, <1>4, <3>1
    <3>2. CASE c # b
      <4>1. PICK j \in 1..d : w[j] = c
        BY <1>2, <3>2 DEF Order, T
      <4>2. j + 1 \in 1..e /\ j + 1 # 1 /\ (j + 1) - 1 = j
        BY <1>3
      <4>3. v[j + 1] = c
        BY <1>4, <4>1, <4>2
      <4> QED BY <4>2, <4>3
    <3> QED BY <3>1, <3>2
  <2>2. \A i, j \in 0..e : v[i] = v[j] => i = j
    <3>1. \A i \in 1..e : v[i] # v[0]
      BY <1>4, <1>7
    <3>2. \A i, j \in 1..e : v[i] = v[j] => i = j
      <4> SUFFICES ASSUME NEW i \in 1..e, NEW j \in 1..e, v[i] = v[j] PROVE i = j
        OBVIOUS
      <4>1. CASE i = 1 \/ j = 1
        BY <1>4, <1>7, <4>1
      <4>2. CASE i # 1 /\ j # 1
        <5>1. i - 1 = j - 1
          BY <1>2, <1>4, <1>6, <4>2 DEF Order
        <5> QED BY <5>1
      <4> QED BY <4>1, <4>2
    <3>3. \A i \in 0..e : i = 0 \/ i \in 1..e
      BY <1>3
    <3> QED BY <3>1, <3>2, <3>3
  <2>3. ASSUME NEW i \in 0..e-1
        PROVE  At0(new, blk, v[i]).nfree > 0 /\ At0(new, blk, v[i]).free[0] = v[i + 1]
    <3>1. CASE i = 0
      <4>1. At0(new, blk, v[i]) = new /\ v[i + 1] = b
        BY <1>4, <3>1 DEF At0
      <4> QED BY <4>1
    <3>2. CASE i # 0
      <4>1. i \in 1..e /\ i - 1 \in 0..d-1 /\ i + 1 \in 1..e /\ i + 1 # 1 /\ (i + 1) - 1 = (i - 1) + 1
        BY <1>3, <3>2
      <4>2. v[i + 1] = w[(i - 1) + 1]
        BY <1>4, <4>1
      <4> QED BY <1>2, <1>8, <4>1, <4>2 DEF Order
    <3> QED BY <3>1, <3>2
  <2>4. At0(new, blk, v[e]).nfree > 0 => At0(new, blk, v[e]).free[0] = None
    <3>1. e \in 1..e /\ e - 1 = d
      BY <1>3
    <3> QED BY <1>2, <1>8, <3>1 DEF Order
  <2> QED BY <1>4, <1>7, <2>1, <2>2, <2>3, <2>4 DEF Order
<1> QED BY <1>3, <1>9 DEF Ordered, T

(* The list is in block b, which begins the next one.                      *)
LEMMA PushLast ==
  ASSUME NEW S, NEW blk, NEW held, NEW b \in Block, Chain(S, blk[b], blk, held), b \in held,
         NEW new, new.nfree = 1, new.free[0] = b, blk[b].nfree = NICFREE
  PROVE  Chain(S \cup {b}, new, blk, held \ {b})
<1> DEFINE T == S \cup {b}
           old == blk[b]
           back(x) == IF x = b THEN None ELSE x
<1>1. b # None /\ b \notin S /\ None \notin S
  BY NotOfChain, Sizes DEF Chain
<1>2. At0(new, blk, None) = new /\ At0(new, blk, b) = old /\ At0(old, blk, None) = old
  BY <1>1 DEF At0
<1>3. \A x \in T : back(x) \in S \cup {None} /\ At0(new, blk, x) = At0(old, blk, back(x)) /\ x # None
  BY <1>1 DEF At0
<1>4. \A x, y \in T : back(x) = back(y) => x = y
  BY <1>1
<1>5. \A i \in Slot : i < 1 => i = 0
  BY Sizes
<1>6. back(b) = None /\ \A x \in S : back(x) = x /\ x \in T
  BY <1>1
<1>7. b \in T /\ S \subseteq T /\ T \subseteq Block
  BY DEF Chain
<1>8. Chain(S, old, blk, held)
  OBVIOUS
<1> HIDE DEF T, old, back
<1>9. Linked(T, new, blk)
  BY <1>2, <1>3, <1>7, <1>8 DEF Chain, Linked
<1>10. Rooted(T, new, blk)
  <2> SUFFICES ASSUME NEW c \in T
               PROVE  \E x \in T \cup {None} : At0(new, blk, x).nfree > 0 /\ At0(new, blk, x).free[0] = c
    BY DEF Rooted
  <2>1. CASE c = b
    BY <1>2, <2>1
  <2>2. CASE c # b
    <3>1. c \in S
      BY <2>2 DEF T
    <3>2. PICK x \in S \cup {None} : At0(old, blk, x).nfree > 0 /\ At0(old, blk, x).free[0] = c
      BY <1>8, <3>1 DEF Chain, Rooted
    <3>3. CASE x = None
      BY <1>2, <1>7, <3>2, <3>3
    <3>4. CASE x \in S
      BY <1>3, <1>6, <3>2, <3>4
    <3> QED BY <3>2, <3>3, <3>4
  <2> QED BY <2>1, <2>2
<1>11. \A x \in T \cup {None} : \A i \in Slot : i < At0(new, blk, x).nfree =>
        \/ x = None /\ i = 0 /\ At0(new, blk, x).free[i] = b
        \/ /\ x \in T /\ i < At0(old, blk, back(x)).nfree
           /\ At0(new, blk, x).free[i] = At0(old, blk, back(x)).free[i]
           /\ At0(old, blk, back(x)).free[i] \notin held
  BY <1>2, <1>3, <1>5, <1>8 DEF Chain, Apart
<1>12. Distinct(T, new, blk)
  BY <1>3, <1>4, <1>8, <1>11 DEF Chain, Distinct
<1>13. Apart(T, new, blk, held \ {b})
  BY <1>11 DEF Apart
<1>14. Full(T, blk)
  BY DEF Chain, Full, T
<1>15. NoneFirst(T, new, blk)
  <2> SUFFICES ASSUME NEW x \in T \cup {None}, NEW i \in Slot, 0 < i, i < At0(new, blk, x).nfree
               PROVE  At0(new, blk, x).free[i] # None
    BY DEF NoneFirst
  <2>1. CASE x = None
    BY <1>2, <1>5, <2>1
  <2>2. CASE x # None
    BY <1>3, <1>8, <2>2 DEF Chain, NoneFirst
  <2> QED BY <2>1, <2>2
<1>16. Ordered(T, new, blk)
  BY <1>1, <1>8, OrderedCons DEF Chain, T, old
<1> QED BY <1>7, <1>9, <1>10, <1>12, <1>13, <1>14, <1>15, <1>16 DEF Chain, T

-----------------------------------------------------------------------------
(* What mkfs has made: the list in block x begins after the block before   *)
(* x, at a multiple of NICFREE.                                            *)
Multiples == {b \in Block : b % NICFREE = 0}
Base(x) == IF x = None THEN NBLOCK - Last ELSE x - NICFREE
Count(x) == IF x = None THEN Last + 1 ELSE NICFREE

LEMMA Unique ==
  ASSUME NEW q \in Nat, NEW r \in Nat, NEW i \in Slot, NEW j \in Slot,
         NICFREE * q + i = NICFREE * r + j
  PROVE  q = r /\ i = j
<1>1. ASSUME NEW a \in Nat, NEW c \in Nat, NEW m \in Slot, NEW n \in Slot,
             NICFREE * a + m = NICFREE * c + n
      PROVE  ~(a < c)
  <2> SUFFICES ASSUME a < c PROVE FALSE
    OBVIOUS
  <2> DEFINE d == c - a - 1
  <2>1. d \in Nat /\ c = a + d + 1
    OBVIOUS
  <2> HIDE DEF d
  <2>2. NICFREE * c = NICFREE * a + NICFREE * d + NICFREE
    BY <2>1, Sizes
  <2>3. NICFREE * d \in Nat /\ NICFREE * a \in Nat
    BY <2>1, Sizes
  <2>4. m \in Nat /\ n \in Nat /\ m < NICFREE
    BY Sizes
  <2> QED BY <1>1, <2>2, <2>3, <2>4, Sizes
<1>2. q = r
  BY <1>1
<1>3. NICFREE * q \in Nat /\ i \in Nat /\ j \in Nat
  BY Sizes
<1> QED BY <1>2, <1>3

LEMMA Division ==
  ASSUME NEW m \in Nat
  PROVE  m \div NICFREE \in Nat /\ m % NICFREE \in Slot /\ m = NICFREE * (m \div NICFREE) + (m % NICFREE)
  BY Sizes

LEMMA MultipleIs ==
  ASSUME NEW m \in Nat
  PROVE  m % NICFREE = 0 <=> \E q \in Nat : m = NICFREE * q
<1>1. ASSUME m % NICFREE = 0 PROVE \E q \in Nat : m = NICFREE * q
  <2>1. NICFREE * (m \div NICFREE) \in Nat
    BY Division, Sizes
  <2> QED BY <1>1, <2>1, Division
<1>2. ASSUME NEW q \in Nat, m = NICFREE * q PROVE m % NICFREE = 0
  <2> DEFINE d == m \div NICFREE
             e == m % NICFREE
  <2>1. d \in Nat /\ e \in Slot /\ m = NICFREE * d + e
    BY Division
  <2> HIDE DEF d, e
  <2>2. NICFREE * q + 0 = NICFREE * d + e
    BY <1>2, <2>1, Sizes
  <2>3. e = 0
    BY <2>1, <2>2, Unique, Sizes
  <2> QED BY <2>3 DEF e
<1> QED BY <1>1, <1>2

LEMMA Bases ==
  ASSUME NEW x \in Multiples \cup {None}
  PROVE  /\ \E q \in Nat : Base(x) = NICFREE * q
         /\ Count(x) \in 1..NICFREE /\ Base(x) \in 0..NBLOCK /\ Base(x) + Count(x) - 1 <= NBLOCK
         /\ x # None => Base(x) + Count(x) = x
<1>1. CASE x = None
  <2>1. Last \in Slot /\ NBLOCK = NICFREE * (NBLOCK \div NICFREE) + Last /\ NBLOCK \div NICFREE \in Nat
    BY Division, Sizes DEF Last
  <2>2. NICFREE * (NBLOCK \div NICFREE) \in Nat
    BY <2>1, Sizes
  <2>3. Base(x) = NBLOCK - Last /\ Count(x) = Last + 1
    BY <1>1 DEF Base, Count
  <2>4. Base(x) = NICFREE * (NBLOCK \div NICFREE)
    BY <2>1, <2>2, <2>3, Sizes
  <2> QED BY <1>1, <2>1, <2>2, <2>3, <2>4, Sizes
<1>2. CASE x # None
  <2>1. x \in Nat /\ x > 0 /\ x <= NBLOCK /\ x % NICFREE = 0
    BY <1>2, Sizes DEF Multiples, Block
  <2>2. PICK q \in Nat : x = NICFREE * q
    BY <2>1, MultipleIs
  <2>3. q > 0
    BY <2>1, <2>2, Sizes
  <2> DEFINE r == q - 1
  <2>4. r \in Nat /\ q = r + 1
    BY <2>3
  <2> HIDE DEF r
  <2>5. x = NICFREE * r + NICFREE /\ NICFREE * r \in Nat
    BY <2>2, <2>4, Sizes
  <2>6. Base(x) = x - NICFREE /\ Count(x) = NICFREE
    BY <1>2 DEF Base, Count
  <2>7. Base(x) = NICFREE * r
    BY <2>5, <2>6, Sizes
  <2> QED BY <2>1, <2>4, <2>5, <2>6, <2>7, Sizes
<1> QED BY <1>1, <1>2

LEMMA MadeList ==
  ASSUME NEW x \in Multiples \cup {None}
  PROVE  /\ At0(Made, MadeBlocks, x).nfree = Count(x)
         /\ \A i \in Slot : i < Count(x) => At0(Made, MadeBlocks, x).free[i] = Base(x) + i
<1>1. CASE x = None
  BY <1>1 DEF At0, Made, MadeFrom, Base, Count
<1>2. CASE x # None
  <2>1. x \in Block /\ x % NICFREE = 0
    BY <1>2 DEF Multiples
  <2>2. MadeBlocks[x] = MadeFrom(x - NICFREE, NICFREE)
    BY <2>1 DEF MadeBlocks
  <2> QED BY <1>2, <2>2 DEF At0, MadeFrom, Base, Count
<1> QED BY <1>1, <1>2

LEMMA MadeType == Made \in List /\ MadeBlocks \in [Block -> List]
<1>1. ASSUME NEW b, NEW n \in 0..NICFREE, b \in 0..NBLOCK, b + n - 1 <= NBLOCK
      PROVE  MadeFrom(b, n) \in List
  <2>1. \A i \in Slot : i < n => b + i \in 0..NBLOCK
    BY <1>1, Sizes
  <2> DEFINE f == [i \in Slot |-> IF i < n THEN b + i ELSE None]
  <2>2. f \in [Slot -> 0..NBLOCK]
    BY <2>1, Sizes DEF None
  <2>3. MadeFrom(b, n) = [nfree |-> n, free |-> f]
    BY DEF MadeFrom
  <2> HIDE DEF f
  <2> QED BY <2>2, <2>3 DEF List
<1>2. Made \in List
  <2>1. Made = MadeFrom(Base(None), Count(None))
    BY DEF Made, Base, Count
  <2>2. Count(None) \in 0..NICFREE
    BY Bases, Sizes
  <2> QED BY <1>1, <2>1, <2>2, Bases
<1>3. ASSUME NEW b \in Block PROVE MadeBlocks[b] \in List
  <2>1. CASE b % NICFREE = 0
    <3>1. b \in Multiples /\ b # None
      BY <2>1, Sizes DEF Multiples
    <3>2. MadeBlocks[b] = MadeFrom(Base(b), Count(b))
      BY <2>1, <3>1 DEF MadeBlocks, Base, Count
    <3>3. Count(b) \in 0..NICFREE
      BY <3>1, Bases, Sizes
    <3> QED BY <1>1, <3>1, <3>2, <3>3, Bases
  <2>2. CASE b % NICFREE # 0
    BY <2>2, EmptyType DEF MadeBlocks
  <2> QED BY <2>1, <2>2
<1>4. MadeBlocks = [b \in Block |-> MadeBlocks[b]]
  BY DEF MadeBlocks
<1> QED BY <1>2, <1>3, <1>4

LEMMA MadeChain == Chain(Multiples, Made, MadeBlocks, {})
<1> DEFINE Nodes == Multiples \cup {None}
           E(x) == At0(Made, MadeBlocks, x)
<1>1. \A x \in Nodes : /\ E(x).nfree = Count(x) /\ Count(x) \in 1..NICFREE /\ Base(x) \in 0..NBLOCK
                       /\ \A i \in Slot : i < Count(x) => E(x).free[i] = Base(x) + i
  BY MadeList, Bases
<1>2. \A x \in Nodes : E(x).nfree > 0 /\ E(x).free[0] = Base(x)
  BY <1>1, Sizes
<1>3. ASSUME NEW x \in Nodes, Base(x) # None PROVE Base(x) \in Multiples
  <2>1. Base(x) \in Nat /\ Base(x) <= NBLOCK
    BY <1>1, Sizes
  <2>2. PICK q \in Nat : Base(x) = NICFREE * q
    BY Bases
  <2>3. Base(x) % NICFREE = 0
    BY <2>1, <2>2, MultipleIs
  <2> QED BY <1>3, <2>1, <2>3, Sizes DEF Multiples, Block, None
<1>4. ASSUME NEW x \in Nodes, NEW y \in Nodes, Base(x) = Base(y) PROVE x = y
  <2>1. ASSUME NEW z \in Multiples PROVE Base(None) # Base(z)
    <3>1. Base(None) = NBLOCK - Last /\ Last < NICFREE /\ Last \in Nat
      BY Division, Sizes DEF Base, Last
    <3>2. Base(z) = z - NICFREE /\ z \in Nat /\ z <= NBLOCK
      BY Sizes DEF Base, Multiples, Block
    <3> QED BY <3>1, <3>2, Sizes
  <2>2. ASSUME NEW y1 \in Multiples, NEW z \in Multiples, Base(y1) = Base(z) PROVE y1 = z
    BY <2>2, Sizes DEF Base, Multiples, Block
  <2> QED BY <1>4, <2>1, <2>2
<1>5. Linked(Multiples, Made, MadeBlocks)
  BY <1>2, <1>3 DEF Linked
<1>6. ASSUME NEW b \in Multiples PROVE \E x \in Nodes : Base(x) = b
  <2>1. b \in Nat /\ b > 0 /\ b <= NBLOCK /\ b % NICFREE = 0 /\ b # None
    BY Sizes DEF Multiples, Block
  <2>2. PICK q \in Nat : b = NICFREE * q
    BY <2>1, MultipleIs
  <2>3. NICFREE * (q + 1) = b + NICFREE
    BY <2>2, Sizes
  <2>4. CASE b + NICFREE <= NBLOCK
    <3>1. b + NICFREE \in Block /\ (b + NICFREE) % NICFREE = 0
      <4>1. \E r \in Nat : b + NICFREE = NICFREE * r
        BY <2>3
      <4>2. b + NICFREE \in Nat
        BY <2>1, Sizes
      <4>3. (b + NICFREE) % NICFREE = 0
        BY <4>1, <4>2, MultipleIs
      <4> QED BY <2>1, <2>4, <4>2, <4>3, Sizes DEF Block
    <3>2. b + NICFREE \in Multiples /\ b + NICFREE # None
      BY <3>1, Sizes DEF Multiples
    <3>3. Base(b + NICFREE) = b
      BY <2>1, <3>2, Sizes DEF Base
    <3> QED BY <3>2, <3>3
  <2>5. CASE ~(b + NICFREE <= NBLOCK)
    <3> DEFINE j == NBLOCK - b
    <3>1. j \in Slot /\ NBLOCK = NICFREE * q + j
      BY <2>1, <2>2, <2>5, Sizes
    <3>2. Last \in Slot /\ NBLOCK = NICFREE * (NBLOCK \div NICFREE) + Last /\ NBLOCK \div NICFREE \in Nat
      BY Division, Sizes DEF Last
    <3>3. j = Last
      <4> HIDE DEF j
      <4> QED BY <3>1, <3>2, Unique
    <3>4. Base(None) = b
      BY <2>1, <3>3, Sizes DEF Base
    <3> QED BY <3>4
  <2> QED BY <2>4, <2>5
<1>7. Rooted(Multiples, Made, MadeBlocks)
  BY <1>2, <1>6 DEF Rooted
<1>8. ASSUME NEW x \in Nodes, NEW y \in Nodes, NEW i \in Slot, NEW j \in Slot,
             i < E(x).nfree, j < E(y).nfree, E(x).free[i] = E(y).free[j]
      PROVE  x = y /\ i = j
  <2>1. Base(x) + i = Base(y) + j
    BY <1>1, <1>8
  <2>2. PICK q \in Nat : Base(x) = NICFREE * q
    BY Bases
  <2>3. PICK r \in Nat : Base(y) = NICFREE * r
    BY Bases
  <2>4. q = r /\ i = j
    BY <2>1, <2>2, <2>3, Unique
  <2> QED BY <1>4, <2>2, <2>3, <2>4
<1>9. Distinct(Multiples, Made, MadeBlocks)
  BY <1>8 DEF Distinct
<1>10. Full(Multiples, MadeBlocks)
  <2> SUFFICES ASSUME NEW b \in Multiples PROVE MadeBlocks[b].nfree = NICFREE
    BY DEF Full
  <2>1. b # None
    BY Sizes DEF Multiples
  <2> QED BY <1>1, <2>1 DEF At0, Count
<1>11. NoneFirst(Multiples, Made, MadeBlocks)
  <2> SUFFICES ASSUME NEW x \in Nodes, NEW i \in Slot, 0 < i, i < E(x).nfree PROVE E(x).free[i] # None
    BY DEF NoneFirst
  <2>1. E(x).free[i] = Base(x) + i /\ Base(x) \in Nat /\ i \in Nat /\ i > 0
    <3>1. Base(x) \in Nat /\ i \in Nat
      BY <1>1, Sizes
    <3> QED BY <1>1, <3>1
  <2>2. Base(x) + i # 0
    BY <2>1
  <2> QED BY <2>1, <2>2 DEF None
<1> HIDE DEF Nodes, E
<1>12. Ordered(Multiples, Made, MadeBlocks)
  <2> DEFINE q == NBLOCK \div NICFREE
             w == [i \in 0..q |-> IF i = 0 THEN None ELSE NICFREE * (q + 1 - i)]
  <2>1. /\ q \in Nat /\ Last \in Slot /\ NBLOCK = NICFREE * q + Last
        /\ NICFREE * q \in Nat /\ Last \in Nat
    <3>1. q \in Nat /\ Last \in Slot /\ NBLOCK = NICFREE * q + Last
      BY Division, Sizes DEF Last
    <3> HIDE DEF q, w
    <3>2. NICFREE * q \in Nat
      BY <3>1, Sizes
    <3>3. Last \in Nat
      BY <3>1, Sizes
    <3> QED BY <3>1, <3>2, <3>3
  <2>2. w[0] = None /\ \A i \in 1..q : w[i] = NICFREE * (q + 1 - i)
    BY <2>1
  <2> HIDE DEF w, q
  <2>3. \A r \in 1..q : NICFREE * r \in Multiples /\ NICFREE * r # None
    <3> SUFFICES ASSUME NEW r \in 1..q PROVE NICFREE * r \in Multiples /\ NICFREE * r # None
      OBVIOUS
    <3>1. q - r \in Nat /\ r - 1 \in Nat /\ r \in Nat
      BY <2>1
    <3>2. NICFREE * r \in Nat /\ NICFREE * (q - r) \in Nat /\ NICFREE * (r - 1) \in Nat
      BY <3>1, Sizes
    <3>3. NICFREE * q = NICFREE * r + NICFREE * (q - r) /\ NICFREE * r = NICFREE * (r - 1) + NICFREE
      BY <2>1, <3>1, Sizes
    <3>4. NICFREE * r > 0 /\ NICFREE * r <= NBLOCK
      BY <2>1, <3>2, <3>3, Sizes
    <3>5. (NICFREE * r) % NICFREE = 0
      BY <3>1, <3>2, MultipleIs
    <3> QED BY <3>2, <3>4, <3>5 DEF Multiples, Block, None
  <2>4. \A i \in 1..q : q + 1 - i \in 1..q /\ q + 1 - (q + 1 - i) = i
    BY <2>1
  <2>5. \A i \in 1..q : w[i] \in Multiples /\ w[i] # None
    BY <2>2, <2>3, <2>4
  <2>6. \A b \in Multiples : \E i \in 1..q : w[i] = b
    <3> SUFFICES ASSUME NEW b \in Multiples PROVE \E i \in 1..q : w[i] = b
      OBVIOUS
    <3>1. b \in Nat /\ b > 0 /\ b <= NBLOCK /\ b % NICFREE = 0
      BY Sizes DEF Multiples, Block
    <3>2. PICK r \in Nat : b = NICFREE * r
      BY <3>1, MultipleIs
    <3>3. r # 0
      BY <3>1, <3>2, Sizes
    <3>4. r <= q
      <4> SUFFICES ASSUME r > q PROVE FALSE
        BY <2>1
      <4> DEFINE e == r - q - 1
      <4>1. e \in Nat /\ r = q + e + 1
        BY <2>1
      <4> HIDE DEF e
      <4>2. NICFREE * r = NICFREE * q + NICFREE * e + NICFREE /\ NICFREE * e \in Nat
        BY <2>1, <4>1, Sizes
      <4>3. Last < NICFREE
        BY <2>1, Sizes
      <4> QED BY <2>1, <3>1, <3>2, <4>2, <4>3, Sizes
    <3>5. r \in 1..q
      BY <2>1, <3>3, <3>4
    <3>6. w[q + 1 - r] = b
      BY <2>2, <2>4, <3>2, <3>5
    <3> QED BY <2>4, <3>5, <3>6
  <2>7. \A i, j \in 1..q : w[i] = w[j] => i = j
    <3> SUFFICES ASSUME NEW i \in 1..q, NEW j \in 1..q, w[i] = w[j] PROVE i = j
      OBVIOUS
    <3> DEFINE a == q + 1 - i
               c == q + 1 - j
    <3>1. a \in Nat /\ c \in Nat /\ NICFREE * a = NICFREE * c /\ (a = c => i = j)
      BY <2>1, <2>2
    <3> HIDE DEF a, c
    <3>2. NICFREE * a + 0 = NICFREE * c + 0
      BY <3>1, Sizes
    <3>3. a = c
      BY <3>1, <3>2, Unique, Sizes
    <3> QED BY <3>1, <3>3
  <2>8. /\ Base(None) = NICFREE * q
        /\ \A i \in 1..q : Base(w[i]) = NICFREE * (q - i)
    <3>1. Base(None) = NICFREE * q
      BY <2>1 DEF Base
    <3>2. ASSUME NEW i \in 1..q PROVE Base(w[i]) = NICFREE * (q - i)
      <4>1. w[i] = NICFREE * (q + 1 - i) /\ w[i] # None
        BY <2>2, <2>5
      <4>2. NICFREE * (q + 1 - i) = NICFREE * (q - i) + NICFREE
        BY <2>1, Sizes
      <4>3. NICFREE * (q - i) \in Int
        BY <2>1, Sizes
      <4> QED BY <4>1, <4>2, <4>3, Sizes DEF Base
    <3> QED BY <3>1, <3>2
  <2>9. \A i \in 0..q : w[i] \in Nodes
    <3>1. \A i \in 0..q : i = 0 \/ i \in 1..q
      BY <2>1
    <3> QED BY <2>2, <2>5, <3>1 DEF Nodes
  <2>10. ASSUME NEW i \in 0..q-1 PROVE E(w[i]).nfree > 0 /\ E(w[i]).free[0] = w[i + 1]
    <3>1. i \in 0..q /\ i + 1 \in 1..q /\ q + 1 - (i + 1) = q - i
      BY <2>1
    <3>2. Base(w[i]) = NICFREE * (q - i)
      <4>1. CASE i = 0
        <5>1. q - i = q
          BY <2>1, <4>1
        <5> QED BY <2>2, <2>8, <4>1, <5>1
      <4>2. CASE i # 0
        <5>1. i \in 1..q
          BY <3>1, <4>2
        <5> QED BY <2>8, <5>1
      <4> QED BY <4>1, <4>2
    <3> QED BY <1>2, <2>2, <2>9, <3>1, <3>2
  <2>11. E(w[q]).free[0] = None
    <3>1. q \in 0..q
      BY <2>1
    <3>2. CASE q = 0
      <4>1. NICFREE * q = 0
        BY <3>2, Sizes
      <4> QED BY <1>2, <2>2, <2>8, <2>9, <3>1, <3>2, <4>1 DEF None
    <3>3. CASE q # 0
      <4>1. q \in 1..q /\ q - q = 0
        BY <2>1, <3>3
      <4>2. NICFREE * (q - q) = 0
        BY <4>1, Sizes
      <4> QED BY <1>2, <2>8, <2>9, <3>1, <4>1, <4>2 DEF None
    <3> QED BY <3>2, <3>3
  <2>12. \A i, j \in 0..q : w[i] = w[j] => i = j
    <3>1. \A i \in 0..q : i = 0 \/ i \in 1..q
      BY <2>1
    <3> QED BY <2>2, <2>5, <2>7, <3>1
  <2>13. Order(w, q, Multiples, Made, MadeBlocks)
    BY <2>2, <2>5, <2>6, <2>10, <2>11, <2>12 DEF Order, E
  <2> QED BY <2>1, <2>13 DEF Ordered
<1> QED BY <1>5, <1>7, <1>9, <1>10, <1>11, <1>12 DEF Chain, Apart, Multiples

-----------------------------------------------------------------------------
(* What is at work on the list, and what the list then is.                 *)
AtBlock == {"chain", "linked"}
WithBlock == {"chain", "take", "free", "link", "linked"}

LEMMA CurrentFree ==
  ASSUME \A p \in Proc : pc[p] \notin AtBlock
  PROVE  Current = fp.list
  BY DEF Current, Moving, AtBlock

LEMMA CurrentMoved ==
  ASSUME Locked, NEW p \in Proc, pc[p] \in AtBlock
  PROVE  Current = fblk[u[p].bno]
<1>1. Moving = {p}
  BY DEF Locked, Moving, AtBlock, Chaining
<1>2. (CHOOSE q \in {p} : TRUE) = p
  OBVIOUS
<1> QED BY <1>1, <1>2 DEF Current

LEMMA CurrentSame ==
  ASSUME \A q \in Proc : pc'[q] \in AtBlock <=> pc[q] \in AtBlock,
         fp'.list = fp.list,
         \A q \in Proc : pc[q] \in AtBlock => fblk'[u'[q].bno] = fblk[u[q].bno]
  PROVE  Current' = Current
<1>1. Moving' = Moving
  BY DEF Moving, AtBlock
<1>2. CASE Moving = {}
  BY <1>1, <1>2 DEF Current
<1>3. CASE Moving # {}
  <2> DEFINE q == CHOOSE p \in Moving : TRUE
  <2>1. q \in Moving
    BY <1>3
  <2> HIDE DEF q
  <2>2. fblk'[u'[q].bno] = fblk[u[q].bno]
    BY <2>1 DEF Moving, AtBlock
  <2> QED BY <1>1, <1>3, <2>2 DEF Current, q
<1> QED BY <1>2, <1>3

LEMMA HeldIs ==
  ASSUME TypeOK
  PROVE  /\ \A p \in Proc : u[p].bno # None => u[p].bno \in Held
         /\ \A f \in File : \A i \in 1..Len(addr[f]) : addr[f][i] \in Held /\ addr[f][i] \in Block
         /\ \A b \in Held : \/ \E p \in Proc : u[p].bno = b
                            \/ \E f \in File : b \in InFile(f)
         /\ None \notin Held /\ \A f \in File : None \notin InFile(f)
<1>1. \A f \in File : addr[f] \in Seq(Block)
  BY DEF TypeOK
<1>2. \A f \in File : \A i \in 1..Len(addr[f]) : addr[f][i] \in Block
  BY <1>1
<1>3. \A f \in File : None \notin InFile(f)
  BY <1>2, Sizes DEF InFile
<1> QED BY <1>2, <1>3 DEF Held, InHand, InFile

(* Only the hands of p change: it takes a block that nobody has, or none.  *)
LEMMA HandChanges ==
  ASSUME TypeOK, NoBlockTwice, addr' = addr, NEW p \in Proc,
         \A q \in Proc : q # p => u'[q].bno = u[q].bno,
         u'[p].bno = None \/ u'[p].bno \notin Held
  PROVE  /\ NoBlockTwice'
         /\ \A b \in Held' : b \in Held \/ (b = u'[p].bno /\ b # None)
         /\ u'[p].bno = None /\ u[p].bno # None => u[p].bno \notin Held'
<1>1. \A f \in File : InFile(f)' = InFile(f)
  BY DEF InFile
<1>2. \A q \in Proc : u'[q].bno # None =>
        (q # p /\ u'[q].bno = u[q].bno) \/ (q = p /\ u'[q].bno \notin Held)
  OBVIOUS
<1>3. NoBlockTwice'
  <2>1. \A q, r \in Proc : u'[q].bno = u'[r].bno /\ u'[q].bno # None => q = r
    BY <1>2, HeldIs DEF NoBlockTwice
  <2>2. \A q \in Proc, f \in File : u'[q].bno \notin InFile(f)
    <3> SUFFICES ASSUME NEW q \in Proc, NEW f \in File, u'[q].bno \in InFile(f) PROVE FALSE
      OBVIOUS
    <3>1. u'[q].bno \in Held /\ u'[q].bno # None
      BY HeldIs DEF InFile
    <3>2. q # p /\ u'[q].bno = u[q].bno
      BY <3>1
    <3> QED BY <3>2 DEF NoBlockTwice
  <2>3. \A f, g \in File : \A i \in 1..Len(addr[f]), j \in 1..Len(addr[g]) :
          addr[f][i] = addr[g][j] => f = g /\ i = j
    BY DEF NoBlockTwice
  <2> QED BY <1>1, <2>1, <2>2, <2>3 DEF NoBlockTwice
<1>4. \A b \in Held' : b # None /\ (\/ \E q \in Proc : u'[q].bno = b
                                    \/ \E f \in File : b \in InFile(f))
  BY <1>1, HeldIs DEF Held, InHand
<1>5. \A b \in Held' : b \in Held \/ (b = u'[p].bno /\ b # None)
  BY <1>4, HeldIs DEF Held
<1>6. ASSUME u'[p].bno = None, u[p].bno # None PROVE u[p].bno \notin Held'
  BY <1>4, <1>6 DEF NoBlockTwice
<1> QED BY <1>3, <1>5, <1>6

(* A step that touches neither the list nor a block in anybody's hands.    *)
LEMMA Quiet ==
  ASSUME IInv, TypeOK', fp'.list = fp.list, fp'.flock = fp.flock, fblk' = fblk, addr' = addr,
         \A q \in Proc : u'[q].bno = u[q].bno,
         \A q \in Proc : pc'[q] = pc[q] \/ (pc[q] \notin WithBlock /\ pc'[q] \notin WithBlock),
         \A q \in Proc : pc'[q] # "idle" => u'[q].file \in File,
         \A q \in Proc : asleep'[q] => asleep[q] \/ fp.flock
  PROVE  IInv'
<1>1. \A q \in Proc : /\ pc'[q] \in AtBlock <=> pc[q] \in AtBlock
                      /\ pc'[q] \in Chaining <=> pc[q] \in Chaining
                      /\ pc'[q] \in WithBlock => pc'[q] = pc[q]
  BY DEF AtBlock, Chaining, WithBlock
<1>2. Current' = Current
  BY <1>1, CurrentSame
<1>3. Held' = Held
  <2>1. InHand' = InHand
    BY DEF InHand
  <2> QED BY <2>1 DEF Held, InFile
<1>4. Locked'
  BY <1>1 DEF IInv, Locked
<1>5. Hands'
  <2>1. \A q \in Proc : pc[q] \in PC
    BY DEF IInv, TypeOK
  <2>2. \A q \in Proc : pc'[q] \in {"idle", "alloc", "nospace", "trunc"} =>
          pc[q] \in {"idle", "alloc", "nospace", "trunc"}
    BY <2>1 DEF PC, WithBlock
  <2>3. \A q \in Proc : fblk'[u'[q].bno] = fblk[u[q].bno]
    OBVIOUS
  <2> QED BY <1>1, <2>2, <2>3 DEF IInv, Hands, WithBlock
<1>6. NoBlockTwice'
  BY DEF IInv, NoBlockTwice, InFile
<1>7. Chained'
  BY <1>2, <1>3 DEF IInv, Chained
<1> QED BY <1>4, <1>5, <1>6, <1>7 DEF IInv

-----------------------------------------------------------------------------
LEMMA InitInv == Init => IInv
<1> SUFFICES ASSUME Init PROVE IInv
  OBVIOUS
<1> USE DEF Init
<1>1. \A p \in Proc : pc[p] = "idle" /\ ~asleep[p] /\ u[p] = [file |-> NoFile, bno |-> None]
  OBVIOUS
<1>2. fp.list = Made /\ fp.flock = FALSE /\ fp.fmod = FALSE /\ fp.tfree = NBLOCK /\ fblk = MadeBlocks
  OBVIOUS
<1>3. \A f \in File : addr[f] = <<>> /\ InFile(f) = {}
  BY DEF InFile
<1>4. TypeOK
  <2>1. fp \in [list : List, flock : BOOLEAN, fmod : BOOLEAN, tfree : Nat] /\ super \in List
    BY MadeType, Sizes
  <2>2. addr \in [File -> Seq(Block)]
    OBVIOUS
  <2>3. pc \in [Proc -> PC] /\ asleep \in [Proc -> BOOLEAN]
    BY DEF PC
  <2>4. u \in [Proc -> [file : File \cup {NoFile}, bno : 0..NBLOCK]]
    BY Sizes DEF None
  <2> QED BY <1>2, <2>1, <2>2, <2>3, <2>4, MadeType DEF TypeOK
<1>5. Locked
  BY <1>1, <1>2 DEF Locked, Chaining
<1>6. Hands
  BY <1>1 DEF Hands
<1>7. NoBlockTwice
  BY <1>1, <1>3 DEF NoBlockTwice
<1>8. Current = Made
  BY <1>1, <1>2, CurrentFree DEF AtBlock
<1>9. Held \subseteq {}
  BY <1>1, <1>3 DEF Held, InHand
<1>10. Chain(Multiples, Current, fblk, Held)
  BY <1>2, <1>8, <1>9, MadeChain, Frame
<1>11. Multiples \in SUBSET Block
  BY DEF Multiples
<1> QED BY <1>4, <1>5, <1>6, <1>7, <1>10, <1>11 DEF IInv, Chained

-----------------------------------------------------------------------------
Super == [list : List, flock : BOOLEAN, fmod : BOOLEAN, tfree : Nat]
Hand == [file : File \cup {NoFile}, bno : 0..NBLOCK]

LEMMA Types ==
  ASSUME TypeOK
  PROVE  /\ fp \in Super /\ fp.list \in List /\ fp.flock \in BOOLEAN /\ fp.fmod \in BOOLEAN /\ fp.tfree \in Nat
         /\ \A b \in Block : fblk[b] \in List
         /\ \A p \in Proc : /\ u[p] \in Hand /\ u[p].bno \in 0..NBLOCK
                            /\ u[p].bno # None => u[p].bno \in Block
  BY Sizes DEF TypeOK, Super, Hand, Block, None

LEMMA Goes ==
  ASSUME TypeOK, NEW p \in Proc, NEW l \in PC, Goto(p, l)
  PROVE  pc' \in [Proc -> PC] /\ pc'[p] = l /\ \A q \in Proc : q # p => pc'[q] = pc[q]
  BY DEF TypeOK, Goto

LEMMA HandFile ==
  ASSUME TypeOK, NEW p \in Proc, NEW f \in File \cup {NoFile}, u' = [u EXCEPT ![p].file = f]
  PROVE  /\ u' \in [Proc -> Hand] /\ u'[p].file = f
         /\ \A q \in Proc : u'[q].bno = u[q].bno /\ (q # p => u'[q] = u[q])
<1>1. u \in [Proc -> Hand]
  BY DEF TypeOK, Hand
<1> QED BY <1>1 DEF Hand

LEMMA HandBlock ==
  ASSUME TypeOK, NEW p \in Proc, NEW b \in 0..NBLOCK, Hold(p, b)
  PROVE  /\ u' \in [Proc -> Hand] /\ u'[p].bno = b /\ u'[p].file = u[p].file
         /\ \A q \in Proc : u'[q].file = u[q].file /\ (q # p => u'[q] = u[q])
<1>1. u \in [Proc -> Hand]
  BY DEF TypeOK, Hand
<1> QED BY <1>1 DEF Hand, Hold

LEMMA PCs == /\ {"idle", "alloc", "chain", "take", "nospace", "trunc", "free", "link", "linked"} = PC
             /\ WithBlock \subseteq PC
  BY DEF PC, WithBlock

-----------------------------------------------------------------------------
LEMMA StutterInv == IInv /\ UNCHANGED vars => IInv'
<1> SUFFICES ASSUME IInv, UNCHANGED vars PROVE IInv'
  OBVIOUS
<1>1. TypeOK'
  BY DEF IInv, TypeOK, vars
<1> QED BY <1>1, Quiet DEF vars, IInv, Hands

LEMMA AwaitFlockInv ==
  ASSUME IInv, NEW p \in Proc, AwaitFlock(p)
  PROVE  IInv'
<1>1. /\ UNCHANGED <<fp, super, fblk, addr, pc, u, saving, errors>> /\ fp.flock
      /\ asleep' = [asleep EXCEPT ![p] = TRUE]
  BY DEF AwaitFlock
<1>2. TypeOK'
  BY <1>1 DEF IInv, TypeOK
<1> QED BY <1>1, <1>2, Quiet DEF IInv, Hands

LEMMA StartInv ==
  ASSUME IInv, NEW p \in Proc, NEW f \in File, Grow(p, f) \/ Truncate(p, f)
  PROVE  IInv'
<1>1. PICK l \in {"alloc", "trunc"} :
        /\ pc[p] = "idle" /\ Goto(p, l) /\ u' = [u EXCEPT ![p].file = f]
        /\ UNCHANGED <<fp, super, fblk, addr, asleep, saving, errors>>
  BY DEF Grow, Truncate, At
<1>2. TypeOK /\ l \in PC
  BY PCs DEF IInv
<1>3. pc' \in [Proc -> PC] /\ pc'[p] = l /\ \A q \in Proc : q # p => pc'[q] = pc[q]
  BY <1>1, <1>2, Goes
<1>4. /\ u' \in [Proc -> Hand] /\ u'[p].file = f
      /\ \A q \in Proc : u'[q].bno = u[q].bno /\ (q # p => u'[q] = u[q])
  BY <1>1, <1>2, HandFile
<1>5. TypeOK'
  BY <1>1, <1>2, <1>3, <1>4 DEF TypeOK, Hand
<1>6. \A q \in Proc : pc'[q] = pc[q] \/ (pc[q] \notin WithBlock /\ pc'[q] \notin WithBlock)
  BY <1>1, <1>3 DEF WithBlock
<1>7. \A q \in Proc : pc'[q] # "idle" => u'[q].file \in File
  BY <1>3, <1>4 DEF IInv, Hands
<1> QED BY <1>1, <1>4, <1>5, <1>6, <1>7, Quiet

LEMMA EndInv ==
  ASSUME IInv, NEW p \in Proc, AllocFails(p) \/ TruncEnd(p)
  PROVE  IInv'
<1>1. /\ pc[p] \in {"nospace", "trunc"} /\ Goto(p, "idle") /\ u' = [u EXCEPT ![p].file = NoFile]
      /\ UNCHANGED <<fp, super, fblk, addr, asleep, saving, errors>>
  BY DEF AllocFails, TruncEnd, At
<1>2. TypeOK /\ "idle" \in PC
  BY PCs DEF IInv
<1>3. pc' \in [Proc -> PC] /\ pc'[p] = "idle" /\ \A q \in Proc : q # p => pc'[q] = pc[q]
  BY <1>1, <1>2, Goes
<1>4. /\ u' \in [Proc -> Hand]
      /\ \A q \in Proc : u'[q].bno = u[q].bno /\ (q # p => u'[q] = u[q])
  BY <1>1, <1>2, HandFile
<1>5. TypeOK'
  BY <1>1, <1>2, <1>3, <1>4 DEF TypeOK, Hand
<1>6. \A q \in Proc : pc'[q] = pc[q] \/ (pc[q] \notin WithBlock /\ pc'[q] \notin WithBlock)
  BY <1>1, <1>3 DEF WithBlock
<1>7. \A q \in Proc : pc'[q] # "idle" => u'[q].file \in File
  BY <1>3, <1>4 DEF IInv, Hands
<1> QED BY <1>1, <1>4, <1>5, <1>6, <1>7, Quiet

LEMMA UpdateInv ==
  ASSUME IInv, UpdateTest \/ UpdateCopy
  PROVE  IInv'
<1>1. UNCHANGED <<fblk, addr, pc, asleep, u, errors>> /\ TypeOK /\ fp \in Super /\ fp.list \in List
  BY Types DEF UpdateTest, UpdateCopy, IInv
<1>2. /\ fp' \in Super /\ fp'.list = fp.list /\ fp'.flock = fp.flock
      /\ super' \in List /\ saving' \in BOOLEAN
  BY <1>1 DEF UpdateTest, UpdateCopy, Super, TypeOK
<1>3. TypeOK'
  BY <1>1, <1>2 DEF TypeOK, Super
<1> QED BY <1>1, <1>2, <1>3, Quiet DEF IInv, Hands

-----------------------------------------------------------------------------
(* No call is at work on the list: nobody sleeps, and Current is the list. *)
LEMMA Unlocks ==
  ASSUME IInv, ~fp.flock
  PROVE  /\ \A q \in Proc : pc[q] \notin Chaining /\ ~asleep[q]
         /\ Current = fp.list
<1>1. \A q \in Proc : pc[q] \notin Chaining /\ ~asleep[q]
  BY DEF IInv, Locked
<1> QED BY <1>1, CurrentFree DEF AtBlock, Chaining

(* The only call at work on the list.                                      *)
LEMMA Alone ==
  ASSUME IInv, NEW p \in Proc, pc[p] \in Chaining
  PROVE  fp.flock /\ \A q \in Proc : q # p => pc[q] \notin Chaining
  BY DEF IInv, Locked

LEMMA NoSpaceInv ==
  ASSUME IInv, NEW p \in Proc, NEW s \in Super, ~s.flock, NoSpace(p, s), pc[p] # "idle",
         \A q \in Proc : q # p => pc[q] \notin Chaining,
         UNCHANGED <<super, fblk, addr, saving>>, errors' \in Nat,
         asleep' \in [Proc -> BOOLEAN], \A q \in Proc : ~asleep'[q]
  PROVE  IInv'
<1>1. TypeOK /\ "nospace" \in PC /\ None \in 0..NBLOCK
  BY PCs, Sizes DEF IInv, None
<1>2. pc' \in [Proc -> PC] /\ pc'[p] = "nospace" /\ \A q \in Proc : q # p => pc'[q] = pc[q]
  BY <1>1, Goes DEF NoSpace
<1>3. /\ u' \in [Proc -> Hand] /\ u'[p].bno = None
      /\ \A q \in Proc : u'[q].file = u[q].file /\ (q # p => u'[q] = u[q])
  BY <1>1, HandBlock DEF NoSpace
<1>4. fp' \in Super /\ fp'.list.nfree = 0 /\ ~fp'.flock
  BY EmptyType DEF NoSpace, Super
<1>5. TypeOK'
  BY <1>1, <1>2, <1>3, <1>4 DEF TypeOK, Super, Hand
<1>6. \A q \in Proc : pc'[q] \notin Chaining
  BY <1>2 DEF Chaining
<1>7. Locked'
  BY <1>4, <1>6 DEF Locked
<1>8. Hands'
  BY <1>2, <1>3, <1>4, <1>6 DEF IInv, Hands, Chaining
<1>9. NoBlockTwice'
  <2>1. \A q \in Proc : q # p => u'[q].bno = u[q].bno
    BY <1>3
  <2> QED BY <1>1, <1>3, <2>1, HandChanges DEF IInv
<1>10. Current' = fp'.list
  <2>1. Moving' = {}
    BY <1>6 DEF Moving, Chaining
  <2> QED BY <2>1 DEF Current
<1>11. Chained'
  <2>1. Chain({}, Current', fblk', Held')
    BY <1>4, <1>10, Nothing
  <2> QED BY <2>1 DEF Chained
<1> QED BY <1>5, <1>7, <1>8, <1>9, <1>11 DEF IInv

(* alloc takes an entry: the last one leads to the next list.              *)
LEMMA AllocTakesInv ==
  ASSUME IInv, NEW p \in Proc, Alloc(p), fp.list.nfree > 0, Top(fp.list) # None
  PROVE  IInv'
<1> DEFINE b == Top(fp.list)
           rest == Popped(fp.list)
           last == rest.nfree = 0
           l == IF last THEN "chain" ELSE "take"
<1>1. /\ pc[p] = "alloc" /\ ~fp.flock /\ fp.list.nfree # 0
      /\ UNCHANGED <<super, fblk, addr, asleep, saving, errors>>
  BY Types DEF Alloc, At, IInv, List
<1>2. fp' = [fp EXCEPT !.list = rest, !.flock = last] /\ Goto(p, l) /\ Hold(p, b)
  BY <1>1 DEF Alloc
<1>3. /\ TypeOK /\ fp \in Super /\ fp.list \in List /\ l \in PC
  BY Types, PCs DEF IInv
<1>4. /\ rest \in List /\ rest.nfree = fp.list.nfree - 1 /\ b = fp.list.free[fp.list.nfree - 1]
      /\ b \in 0..NBLOCK /\ fp.list.nfree - 1 \in Slot
  BY <1>3, PoppedType
<1>5. last \in BOOLEAN /\ fp' \in Super /\ fp'.list = rest /\ fp'.flock = last
  <2>1. last \in BOOLEAN
    OBVIOUS
  <2> HIDE DEF last, rest
  <2> QED BY <1>2, <1>3, <1>4, <2>1 DEF Super
<1>6. \A q \in Proc : pc[q] \notin Chaining /\ ~asleep[q]
  BY <1>1, Unlocks
<1>7. Current = fp.list
  BY <1>1, Unlocks
<1>8. b # None /\ b \in Block
  BY <1>4, Sizes DEF Block, None
<1> HIDE DEF b, rest, last, l
<1>9. pc' \in [Proc -> PC] /\ pc'[p] = l /\ \A q \in Proc : q # p => pc'[q] = pc[q]
  BY <1>2, <1>3, Goes
<1>10. /\ u' \in [Proc -> Hand] /\ u'[p].bno = b
       /\ \A q \in Proc : u'[q].file = u[q].file /\ (q # p => u'[q] = u[q])
  BY <1>2, <1>3, <1>4, HandBlock
<1>11. TypeOK'
  BY <1>1, <1>3, <1>5, <1>9, <1>10 DEF TypeOK, Super, Hand
<1>12. l \in {"chain", "take"} /\ (l = "chain" <=> last)
  BY DEF l
<1>13. Locked'
  BY <1>1, <1>5, <1>6, <1>9, <1>12 DEF Locked, Chaining
<1>14. PICK S \in SUBSET Block : Chain(S, fp.list, fblk, Held)
  BY <1>7 DEF IInv, Chained
<1>15. Hands'
  <2>1. last => rest.nfree = 0 /\ fblk[b].nfree = NICFREE
    <3> SUFFICES ASSUME last PROVE rest.nfree = 0 /\ fblk[b].nfree = NICFREE
      OBVIOUS
    <3>1. rest.nfree = 0 /\ fp.list.nfree = 1 /\ b = fp.list.free[0]
      BY <1>3, <1>4 DEF last, List
    <3>2. At0(fp.list, fblk, None) = fp.list
      BY DEF At0
    <3>3. b \in S
      BY <1>8, <1>14, <3>1, <3>2 DEF Chain, Linked
    <3> QED BY <1>14, <3>1, <3>3 DEF Chain, Full
  <2> QED BY <1>1, <1>5, <1>6, <1>8, <1>9, <1>10, <1>12, <2>1 DEF IInv, Hands, Chaining
<1>16. b \notin Held
  <2>1. fp.list.nfree - 1 < fp.list.nfree
    BY <1>3 DEF List
  <2>2. At0(fp.list, fblk, None) = fp.list
    BY DEF At0
  <2> QED BY <1>4, <1>14, <2>1, <2>2 DEF Chain, Apart
<1>17. NoBlockTwice' /\ Held' \subseteq Held \cup {b}
  <2>1. \A q \in Proc : q # p => u'[q].bno = u[q].bno
    BY <1>10
  <2>2. u'[p].bno \notin Held /\ addr' = addr
    BY <1>1, <1>10, <1>16
  <2> QED BY <1>3, <1>10, <2>1, <2>2, HandChanges DEF IInv
<1>18. CASE ~last
  <2>1. fp.list.nfree > 1
    BY <1>3, <1>4, <1>18 DEF last, List
  <2>2. Chain(S, rest, fblk, Held \cup {b})
    BY <1>3, <1>14, <2>1, PopEntry DEF b, rest
  <2>3. Current' = rest
    <3>1. Moving' = {}
      BY <1>6, <1>9, <1>12, <1>18 DEF Moving, Chaining
    <3> QED BY <1>5, <3>1 DEF Current
  <2>4. Chain(S, rest, fblk, Held')
    BY <1>17, <2>2, Frame
  <2>5. Chained'
    BY <1>1, <2>3, <2>4 DEF Chained
  <2> QED BY <1>11, <1>13, <1>15, <1>17, <2>5 DEF IInv
<1>19. CASE last
  <2>1. fp.list.nfree = 1 /\ b = fp.list.free[0]
    BY <1>3, <1>4, <1>19 DEF last, List
  <2>2. Chain(S \ {b}, fblk[b], fblk, Held \cup {b})
    BY <1>8, <1>14, <2>1, PopLast
  <2>3. Current' = fblk[b]
    <3>1. Moving' = {p}
      BY <1>6, <1>9, <1>12, <1>19 DEF Moving, Chaining
    <3>2. (CHOOSE q \in {p} : TRUE) = p
      OBVIOUS
    <3> QED BY <1>1, <1>10, <3>1, <3>2 DEF Current
  <2>4. Chain(S \ {b}, fblk[b], fblk, Held')
    BY <1>17, <2>2, Frame
  <2>5. Chained'
    BY <1>1, <2>3, <2>4 DEF Chained
  <2> QED BY <1>11, <1>13, <1>15, <1>17, <2>5 DEF IInv
<1> QED BY <1>18, <1>19

LEMMA AllocInv ==
  ASSUME IInv, NEW p \in Proc, Alloc(p)
  PROVE  IInv'
<1>1. /\ pc[p] = "alloc" /\ ~fp.flock /\ fp \in Super /\ fp.list.nfree \in Nat
      /\ UNCHANGED <<super, fblk, addr, asleep, saving, errors>>
  BY Types DEF Alloc, At, IInv, List
<1>2. CASE NoSpace(p, fp)
  <2>1. \A q \in Proc : pc[q] \notin Chaining /\ ~asleep[q]
    BY <1>1, Unlocks
  <2>2. asleep' \in [Proc -> BOOLEAN] /\ errors' \in Nat
    BY <1>1 DEF IInv, TypeOK
  <2> QED BY <1>1, <1>2, <2>1, <2>2, NoSpaceInv
<1>3. CASE fp.list.nfree # 0 /\ Top(fp.list) # None
  BY <1>1, <1>3, AllocTakesInv
<1> QED BY <1>1, <1>2, <1>3 DEF Alloc

LEMMA AllocChainInv ==
  ASSUME IInv, NEW p \in Proc, NEW fails \in BOOLEAN, AllocChain(p, fails)
  PROVE  IInv'
<1> DEFINE b == u[p].bno
           s == [fp EXCEPT !.flock = FALSE, !.list = IF fails THEN @ ELSE fblk[b]]
<1>1. pc[p] = "chain" /\ UNCHANGED <<super, fblk, addr, saving>> /\ asleep' = [q \in Proc |-> FALSE]
  BY DEF AllocChain, At, WakeAll
<1>2. IF s.list.nfree = 0 THEN NoSpace(p, s) ELSE fp' = s /\ Goto(p, "take") /\ UNCHANGED u
  BY DEF AllocChain
<1>3. /\ TypeOK /\ fp \in Super /\ fp.list \in List /\ fp.list.nfree = 0 /\ b # None /\ b \in Block
      /\ fblk[b] \in List /\ "take" \in PC
  BY <1>1, Types, PCs DEF IInv, Hands
<1>4. s \in Super /\ s.flock = FALSE /\ s.list = IF fails THEN fp.list ELSE fblk[b]
  <2>1. (IF fails THEN fp.list ELSE fblk[b]) \in List
    BY <1>3
  <2> HIDE DEF b
  <2> QED BY <1>3, <2>1 DEF Super
<1> HIDE DEF s
<1>5. errors' \in Nat /\ asleep' \in [Proc -> BOOLEAN] /\ \A q \in Proc : ~asleep'[q]
  <2>1. errors' \in Nat
    BY <1>3 DEF AllocChain, TypeOK
  <2> QED BY <1>1, <2>1
<1>6. \A q \in Proc : q # p => pc[q] \notin Chaining
  BY <1>1, Alone DEF Chaining
<1>7. CASE s.list.nfree = 0
  BY <1>1, <1>2, <1>4, <1>5, <1>6, <1>7, NoSpaceInv
<1>8. CASE s.list.nfree # 0
  <2>1. fp' = s /\ Goto(p, "take") /\ u' = u
    BY <1>2, <1>8
  <2>2. s.list = fblk[b]
    BY <1>3, <1>4, <1>8
  <2>3. pc' \in [Proc -> PC] /\ pc'[p] = "take" /\ \A q \in Proc : q # p => pc'[q] = pc[q]
    BY <1>3, <2>1, Goes
  <2>4. TypeOK'
    BY <1>1, <1>3, <1>4, <1>5, <2>1, <2>3 DEF TypeOK, Super
  <2>5. \A q \in Proc : pc'[q] \notin Chaining
    BY <1>6, <2>3 DEF Chaining
  <2>6. Locked'
    BY <1>4, <1>5, <2>1, <2>5 DEF Locked
  <2>7. Hands'
    BY <1>1, <1>3, <2>1, <2>3, <2>5 DEF IInv, Hands, Chaining
  <2>8. NoBlockTwice' /\ Held' = Held
    BY <1>1, <2>1 DEF IInv, NoBlockTwice, InFile, Held, InHand
  <2>9. Current' = Current
    <3>1. Current = fblk[b]
      BY <1>1, CurrentMoved DEF IInv, AtBlock
    <3>2. Moving' = {}
      BY <2>5 DEF Moving, Chaining
    <3> QED BY <2>1, <2>2, <3>1, <3>2 DEF Current
  <2>10. Chained'
    BY <1>1, <2>8, <2>9 DEF IInv, Chained
  <2> QED BY <2>4, <2>6, <2>7, <2>8, <2>10 DEF IInv
<1> QED BY <1>7, <1>8

LEMMA AllocTakeInv ==
  ASSUME IInv, NEW p \in Proc, AllocTake(p)
  PROVE  IInv'
<1> DEFINE b == u[p].bno
           f == u[p].file
           n == Len(addr[f])
<1>1. /\ pc[p] = "take" /\ UNCHANGED <<super, asleep, saving, errors>> /\ Goto(p, "idle")
      /\ fp' = [fp EXCEPT !.tfree = IF @ > 0 THEN @ - 1 ELSE 0, !.fmod = TRUE]
      /\ fblk' = [fblk EXCEPT ![b] = Empty]
      /\ addr' = [addr EXCEPT ![f] = Append(@, b)]
      /\ u' = [u EXCEPT ![p] = [file |-> NoFile, bno |-> None]]
  BY DEF AllocTake, At
<1>2. /\ TypeOK /\ fp \in Super /\ b # None /\ b \in Block /\ f \in File /\ "idle" \in PC
      /\ u \in [Proc -> Hand] /\ addr \in [File -> Seq(Block)] /\ fblk \in [Block -> List]
  BY <1>1, Types, PCs DEF IInv, Hands, TypeOK, Hand
<1>3. n \in Nat /\ addr[f] \in Seq(Block)
  BY <1>2
<1>4. fp' \in Super /\ fp'.list = fp.list /\ fp'.flock = fp.flock
  <2> DEFINE t == IF fp.tfree > 0 THEN fp.tfree - 1 ELSE 0
  <2>1. t \in Nat
    <3>1. fp.tfree \in Nat
      BY <1>2 DEF Super
    <3>2. CASE fp.tfree > 0  BY <3>1, <3>2
    <3>3. CASE ~(fp.tfree > 0)  BY <3>3
    <3> QED BY <3>2, <3>3
  <2>2. fp' = [fp EXCEPT !.tfree = t, !.fmod = TRUE]
    BY <1>1
  <2> HIDE DEF t
  <2> QED BY <1>2, <2>1, <2>2 DEF Super
<1> HIDE DEF b, f
<1>5. pc' \in [Proc -> PC] /\ pc'[p] = "idle" /\ \A q \in Proc : q # p => pc'[q] = pc[q]
  BY <1>1, <1>2, Goes
<1>6. u' \in [Proc -> Hand] /\ u'[p].bno = None /\ \A q \in Proc : q # p => u'[q] = u[q]
  <2>1. [file |-> NoFile, bno |-> None] \in Hand
    BY Sizes DEF Hand, None
  <2> QED BY <1>1, <1>2, <2>1
<1>7. fblk' \in [Block -> List] /\ \A c \in Block : c # b => fblk'[c] = fblk[c]
  BY <1>1, <1>2, EmptyType
<1>8. /\ addr' \in [File -> Seq(Block)] /\ \A g \in File : g # f => addr'[g] = addr[g]
      /\ addr'[f] = Append(addr[f], b)
  BY <1>1, <1>2
<1>9. /\ Len(addr'[f]) = n + 1 /\ addr'[f][n + 1] = b
      /\ \A i \in 1..n : addr'[f][i] = addr[f][i]
  BY <1>2, <1>3, <1>8
<1>10. TypeOK'
  BY <1>1, <1>2, <1>4, <1>5, <1>6, <1>7, <1>8 DEF TypeOK, Super, Hand
<1>11. \A q \in Proc : /\ pc'[q] \in Chaining <=> pc[q] \in Chaining
                       /\ pc'[q] \in AtBlock <=> pc[q] \in AtBlock
  BY <1>1, <1>5 DEF Chaining, AtBlock
<1>12. Locked'
  BY <1>1, <1>4, <1>11 DEF IInv, Locked
<1>13. Hands'
  <2>1. \A q \in Proc : pc'[q] \in AtBlock => fblk'[u'[q].bno].nfree = NICFREE
    <3> SUFFICES ASSUME NEW q \in Proc, pc'[q] \in AtBlock PROVE fblk'[u'[q].bno].nfree = NICFREE
      OBVIOUS
    <3>1. q # p /\ u[q].bno # None /\ fblk[u[q].bno].nfree = NICFREE
      BY <1>5 DEF IInv, Hands, AtBlock
    <3>2. u[q].bno \in Block /\ u[q].bno # b
      BY <1>2, <3>1, Types DEF IInv, NoBlockTwice, b
    <3> QED BY <1>6, <1>7, <3>1, <3>2
  <2> QED BY <1>1, <1>4, <1>5, <1>6, <2>1 DEF IInv, Hands, AtBlock
(* Entry i of file g is an entry of g before, or the last of f and b.      *)
<1>14. \A g \in File : \A i \in 1..Len(addr'[g]) :
         \/ i \in 1..Len(addr[g]) /\ addr'[g][i] = addr[g][i]
         \/ g = f /\ i = n + 1 /\ addr'[g][i] = b
  BY <1>3, <1>8, <1>9
<1>15. \A g \in File : \A i \in 1..Len(addr[g]) : addr[g][i] # b
  BY <1>2 DEF IInv, NoBlockTwice, InFile, b
<1>16. NoBlockTwice'
  <2>1. \A g, h \in File : \A i \in 1..Len(addr'[g]), j \in 1..Len(addr'[h]) :
          addr'[g][i] = addr'[h][j] => g = h /\ i = j
    BY <1>14, <1>15 DEF IInv, NoBlockTwice
  <2>2. \A q, r \in Proc : u'[q].bno = u'[r].bno /\ u'[q].bno # None => q = r
    BY <1>6 DEF IInv, NoBlockTwice
  <2>3. \A q \in Proc, g \in File : \A i \in 1..Len(addr'[g]) : u'[q].bno # addr'[g][i]
    <3> SUFFICES ASSUME NEW q \in Proc, NEW g \in File, NEW i \in 1..Len(addr'[g]), u'[q].bno = addr'[g][i]
                 PROVE  FALSE
      OBVIOUS
    <3>1. addr'[g][i] # None
      BY <1>2, <1>14, HeldIs DEF InFile
    <3>2. q # p /\ u[q].bno = addr'[g][i] /\ u[q].bno # None
      BY <1>6, <3>1
    <3>3. u[q].bno # b
      BY <3>2 DEF IInv, NoBlockTwice, b
    <3>4. i \in 1..Len(addr[g]) /\ u[q].bno = addr[g][i]
      BY <1>14, <3>2, <3>3
    <3> QED BY <3>4 DEF IInv, NoBlockTwice, InFile
  <2> QED BY <2>1, <2>2, <2>3 DEF NoBlockTwice, InFile
<1>17. Held' \subseteq Held
  <2> SUFFICES ASSUME NEW c \in Held' PROVE c \in Held
    OBVIOUS
  <2>1. \/ \E q \in Proc : c = u'[q].bno /\ c # None
        \/ \E g \in File : \E i \in 1..Len(addr'[g]) : c = addr'[g][i]
    BY DEF Held, InHand, InFile
  <2>2. b \in Held
    BY <1>2, HeldIs DEF b
  <2>3. ASSUME NEW q \in Proc, c = u'[q].bno, c # None PROVE c \in Held
    <3>1. c = u[q].bno
      BY <1>6, <2>3
    <3> QED BY <1>2, <2>3, <3>1, HeldIs
  <2>4. ASSUME NEW g \in File, NEW i \in 1..Len(addr'[g]), c = addr'[g][i] PROVE c \in Held
    <3>1. CASE i \in 1..Len(addr[g]) /\ addr'[g][i] = addr[g][i]
      BY <1>2, <2>4, <3>1, HeldIs
    <3>2. CASE addr'[g][i] = b
      BY <2>2, <2>4, <3>2
    <3> QED BY <1>14, <3>1, <3>2
  <2> QED BY <2>1, <2>3, <2>4
<1>18. Current' = Current
  <2>1. \A q \in Proc : pc[q] \in AtBlock => fblk'[u'[q].bno] = fblk[u[q].bno]
    <3> SUFFICES ASSUME NEW q \in Proc, pc[q] \in AtBlock PROVE fblk'[u'[q].bno] = fblk[u[q].bno]
      OBVIOUS
    <3>1. q # p /\ u[q].bno # None
      BY <1>1 DEF IInv, Hands, AtBlock
    <3>2. u[q].bno \in Block /\ u[q].bno # b
      BY <1>2, <3>1, Types DEF IInv, NoBlockTwice, b
    <3> QED BY <1>6, <1>7, <3>1, <3>2
  <2> QED BY <1>4, <1>11, <2>1, CurrentSame
<1>19. Chained'
  <2>1. PICK S \in SUBSET Block : Chain(S, Current, fblk, Held)
    BY DEF IInv, Chained
  <2>2. b \notin S
    BY <1>2, <2>1, HeldIs, NotOfChain DEF b
  <2>3. \A x \in S : fblk'[x] = fblk[x]
    BY <1>7, <2>1, <2>2
  <2>4. Chain(S, Current, fblk', Held')
    BY <1>17, <2>1, <2>3, Frame
  <2> QED BY <1>18, <2>4 DEF Chained
<1> QED BY <1>10, <1>12, <1>13, <1>16, <1>19 DEF IInv

-----------------------------------------------------------------------------
LEMMA TruncNextInv ==
  ASSUME IInv, NEW p \in Proc, TruncNext(p)
  PROVE  IInv'
<1> DEFINE f == u[p].file
           n == Len(addr[f])
           b == addr[f][n]
<1>1. /\ pc[p] = "trunc" /\ UNCHANGED <<super, fblk, asleep, saving, errors>> /\ Goto(p, "free")
      /\ fp' = [fp EXCEPT !.fmod = TRUE] /\ addr[f] # <<>>
      /\ addr' = [addr EXCEPT ![f] = SubSeq(@, 1, Len(@) - 1)] /\ Hold(p, b)
  BY DEF TruncNext, At
<1>2. /\ TypeOK /\ fp \in Super /\ f \in File /\ "free" \in PC
      /\ addr \in [File -> Seq(Block)]
  BY <1>1, Types, PCs DEF IInv, Hands, TypeOK
<1>3. addr[f] \in Seq(Block) /\ n \in Nat /\ n > 0 /\ n \in 1..Len(addr[f]) /\ b \in Block
  <2>1. addr[f] \in Seq(Block) /\ addr[f] # <<>>
    BY <1>1, <1>2
  <2> QED BY <2>1
<1>4. fp' \in Super /\ fp'.list = fp.list /\ fp'.flock = fp.flock
  BY <1>1, <1>2 DEF Super
<1>5. b # None /\ b \in 0..NBLOCK /\ b \in Held
  BY <1>2, <1>3, HeldIs, Sizes DEF Block
<1>6. addr' = [addr EXCEPT ![f] = SubSeq(addr[f], 1, n - 1)]
  BY <1>1
<1> HIDE DEF b, f, n
<1>7. pc' \in [Proc -> PC] /\ pc'[p] = "free" /\ \A q \in Proc : q # p => pc'[q] = pc[q]
  BY <1>1, <1>2, Goes
<1>8. /\ u' \in [Proc -> Hand] /\ u'[p].bno = b
      /\ \A q \in Proc : u'[q].file = u[q].file /\ (q # p => u'[q] = u[q])
  BY <1>1, <1>2, <1>5, HandBlock
<1>9. /\ SubSeq(addr[f], 1, n - 1) \in Seq(Block) /\ Len(SubSeq(addr[f], 1, n - 1)) = n - 1
      /\ \A i \in 1..n-1 : SubSeq(addr[f], 1, n - 1)[i] = addr[f][i]
  BY <1>3 DEF n
<1>10. /\ addr' \in [File -> Seq(Block)] /\ \A g \in File : g # f => addr'[g] = addr[g]
       /\ addr'[f] = SubSeq(addr[f], 1, n - 1)
  BY <1>2, <1>6, <1>9
<1>11. TypeOK'
  BY <1>1, <1>2, <1>4, <1>7, <1>8, <1>10 DEF TypeOK, Super, Hand
<1>12. \A q \in Proc : /\ pc'[q] \in Chaining <=> pc[q] \in Chaining
                       /\ pc'[q] \in AtBlock <=> pc[q] \in AtBlock
  BY <1>1, <1>7 DEF Chaining, AtBlock
<1>13. Locked'
  BY <1>1, <1>4, <1>12 DEF IInv, Locked
<1>14. Hands'
  BY <1>1, <1>4, <1>5, <1>7, <1>8 DEF IInv, Hands
<1>15. \A g \in File : \A i \in 1..Len(addr'[g]) :
         i \in 1..Len(addr[g]) /\ addr'[g][i] = addr[g][i] /\ addr'[g][i] # b
  <2> SUFFICES ASSUME NEW g \in File, NEW i \in 1..Len(addr'[g])
               PROVE  i \in 1..Len(addr[g]) /\ addr'[g][i] = addr[g][i] /\ addr'[g][i] # b
    OBVIOUS
  <2>1. i \in 1..Len(addr[g]) /\ addr'[g][i] = addr[g][i] /\ ~(g = f /\ i = n)
    <3>1. CASE g = f
      <4>1. i \in 1..n-1
        BY <1>9, <1>10, <3>1
      <4> QED BY <1>3, <1>9, <1>10, <3>1, <4>1 DEF n
    <3>2. CASE g # f
      BY <1>10, <3>2
    <3> QED BY <3>1, <3>2
  <2>2. addr[g][i] # b
    BY <1>2, <1>3, <2>1 DEF IInv, NoBlockTwice, b
  <2> QED BY <2>1, <2>2
<1>16. NoBlockTwice'
  <2>1. \A g, h \in File : \A i \in 1..Len(addr'[g]), j \in 1..Len(addr'[h]) :
          addr'[g][i] = addr'[h][j] => g = h /\ i = j
    BY <1>15 DEF IInv, NoBlockTwice
  <2>2. \A q \in Proc : u[q].bno # b
    BY <1>2, <1>3 DEF IInv, NoBlockTwice, InFile, b
  <2>3. \A q, r \in Proc : u'[q].bno = u'[r].bno /\ u'[q].bno # None => q = r
    BY <1>8, <2>2 DEF IInv, NoBlockTwice
  <2>4. \A q \in Proc, g \in File : \A i \in 1..Len(addr'[g]) : u'[q].bno # addr'[g][i]
    <3> SUFFICES ASSUME NEW q \in Proc, NEW g \in File, NEW i \in 1..Len(addr'[g])
                 PROVE  u'[q].bno # addr'[g][i]
      OBVIOUS
    <3>1. i \in 1..Len(addr[g]) /\ addr'[g][i] = addr[g][i] /\ addr'[g][i] # b
      BY <1>15
    <3>2. CASE q = p
      BY <1>8, <3>1, <3>2
    <3>3. CASE q # p
      <4>1. u'[q].bno = u[q].bno
        BY <1>8, <3>3
      <4> QED BY <3>1, <4>1 DEF IInv, NoBlockTwice, InFile
    <3> QED BY <3>2, <3>3
  <2> QED BY <2>1, <2>3, <2>4 DEF NoBlockTwice, InFile
<1>17. Held' \subseteq Held
  <2> SUFFICES ASSUME NEW c \in Held' PROVE c \in Held
    OBVIOUS
  <2>1. \/ \E q \in Proc : c = u'[q].bno /\ c # None
        \/ \E g \in File : \E i \in 1..Len(addr'[g]) : c = addr'[g][i]
    BY DEF Held, InHand, InFile
  <2>2. ASSUME NEW q \in Proc, c = u'[q].bno, c # None PROVE c \in Held
    <3>1. c = b \/ c = u[q].bno
      BY <1>8, <2>2
    <3> QED BY <1>2, <1>5, <2>2, <3>1, HeldIs
  <2>3. ASSUME NEW g \in File, NEW i \in 1..Len(addr'[g]), c = addr'[g][i] PROVE c \in Held
    BY <1>2, <1>15, <2>3, HeldIs
  <2> QED BY <2>1, <2>2, <2>3
<1>18. Current' = Current
  <2>1. \A q \in Proc : pc[q] \in AtBlock => fblk'[u'[q].bno] = fblk[u[q].bno]
    BY <1>1, <1>8 DEF AtBlock
  <2> QED BY <1>4, <1>12, <2>1, CurrentSame
<1>19. Chained'
  <2>1. PICK S \in SUBSET Block : Chain(S, Current, fblk, Held)
    BY DEF IInv, Chained
  <2>2. Chain(S, Current, fblk', Held')
    BY <1>1, <1>17, <2>1, Frame
  <2> QED BY <1>18, <2>2 DEF Chained
<1> QED BY <1>11, <1>13, <1>14, <1>16, <1>19 DEF IInv

(* The end of free, when the list that takes the block is s.               *)
LEMMA FreedInv ==
  ASSUME IInv, NEW p \in Proc, pc[p] \in {"free", "linked"}, NEW s \in Super, s.list.nfree < NICFREE, ~s.flock,
         Freed(p, s), \A q \in Proc : q # p => pc[q] \notin Chaining,
         UNCHANGED <<super, fblk, addr, saving, errors>>,
         asleep' \in [Proc -> BOOLEAN], \A q \in Proc : ~asleep'[q],
         NEW S \in SUBSET Block,
         \A H : H \subseteq Held \ {u[p].bno} => Chain(S, Put(s.list, u[p].bno), fblk, H)
  PROVE  IInv'
<1> DEFINE b == u[p].bno
           new == Put(s.list, b)
<1>1. /\ TypeOK /\ "trunc" \in PC /\ None \in 0..NBLOCK /\ b # None /\ b \in Block /\ b \in 0..NBLOCK
  BY PCs, Sizes, Types DEF IInv, None, Hands
<1>2. fp' \in Super /\ fp'.list = new /\ ~fp'.flock /\ Goto(p, "trunc") /\ Hold(p, None)
  <2>1. new \in List
    BY <1>1, PutType DEF Super
  <2>2. s.tfree + 1 \in Nat
    BY DEF Super
  <2>3. fp' = [s EXCEPT !.list = new, !.tfree = s.tfree + 1, !.fmod = TRUE] /\ Goto(p, "trunc") /\ Hold(p, None)
    BY DEF Freed
  <2> HIDE DEF new, b
  <2> QED BY <2>1, <2>2, <2>3 DEF Super
<1>3. pc' \in [Proc -> PC] /\ pc'[p] = "trunc" /\ \A q \in Proc : q # p => pc'[q] = pc[q]
  BY <1>1, <1>2, Goes
<1>4. /\ u' \in [Proc -> Hand] /\ u'[p].bno = None
      /\ \A q \in Proc : u'[q].file = u[q].file /\ (q # p => u'[q] = u[q])
  BY <1>1, <1>2, HandBlock
<1>5. TypeOK'
  BY <1>1, <1>2, <1>3, <1>4 DEF TypeOK, Super, Hand
<1>6. \A q \in Proc : pc'[q] \notin Chaining
  BY <1>3 DEF Chaining
<1>7. Locked'
  BY <1>2, <1>6 DEF Locked
<1>8. Hands'
  BY <1>3, <1>4, <1>6 DEF IInv, Hands, Chaining
<1>9. NoBlockTwice' /\ Held' \subseteq Held \ {b}
  <2>1. \A q \in Proc : q # p => u'[q].bno = u[q].bno
    BY <1>4
  <2> QED BY <1>1, <1>4, <2>1, HandChanges DEF IInv
<1>10. Current' = new
  <2>1. Moving' = {}
    BY <1>6 DEF Moving, Chaining
  <2> QED BY <1>2, <2>1 DEF Current
<1>11. Chained'
  BY <1>9, <1>10 DEF Chained
<1> QED BY <1>5, <1>7, <1>8, <1>9, <1>11 DEF IInv

LEMMA FreeBlockInv ==
  ASSUME IInv, NEW p \in Proc, FreeBlock(p)
  PROVE  IInv'
<1> DEFINE b == u[p].bno
           begun == IF fp.list.nfree = 0 THEN Put(Empty, None) ELSE fp.list
           s == [fp EXCEPT !.list = begun]
<1>1. /\ pc[p] = "free" /\ ~fp.flock /\ UNCHANGED <<super, fblk, addr, asleep, saving, errors>>
      /\ IF s.list.nfree < NICFREE THEN Freed(p, s)
         ELSE fp' = [s EXCEPT !.flock = TRUE] /\ Goto(p, "link") /\ UNCHANGED u
  BY DEF FreeBlock, At
<1>2. /\ TypeOK /\ fp \in Super /\ fp.list \in List /\ fp.list.nfree \in Nat /\ b # None /\ b \in Block
      /\ b \in Held /\ None \notin Held /\ "link" \in PC
  BY <1>1, Types, PCs, HeldIs DEF IInv, Hands, List
<1>3. begun \in List /\ begun.nfree \in Nat /\ begun.nfree > 0
  <2>1. CASE fp.list.nfree = 0
    <3>1. begun = Put(Empty, None) /\ None \in 0..NBLOCK
      BY <2>1, Sizes DEF None
    <3> QED BY <3>1, EmptyType, PutType, Sizes
  <2>2. CASE fp.list.nfree # 0
    BY <1>2, <2>2
  <2> QED BY <2>1, <2>2
<1>4. \A q \in Proc : pc[q] \notin Chaining /\ ~asleep[q]
  BY <1>1, Unlocks
<1>5. PICK S \in SUBSET Block : Chain(S, fp.list, fblk, Held)
  BY <1>1, Unlocks DEF IInv, Chained
<1>6. Chain(S, begun, fblk, Held)
  BY <1>2, <1>5, Begun
<1> HIDE DEF begun
<1>7. s \in Super /\ s.list = begun /\ ~s.flock
  BY <1>1, <1>2, <1>3 DEF Super
<1> HIDE DEF s
<1>8. CASE begun.nfree < NICFREE
  <2>1. Chain(S, Put(begun, b), fblk, Held \ {b})
    BY <1>2, <1>3, <1>6, <1>8, PushEntry
  <2>2. \A H : H \subseteq Held \ {b} => Chain(S, Put(s.list, b), fblk, H)
    BY <1>7, <2>1, Frame
  <2>3. asleep' \in [Proc -> BOOLEAN] /\ \A q \in Proc : ~asleep'[q]
    BY <1>1, <1>2, <1>4 DEF TypeOK
  <2> QED BY <1>1, <1>4, <1>7, <1>8, <2>2, <2>3, FreedInv
<1>9. CASE ~(begun.nfree < NICFREE)
  <2>1. fp' = [s EXCEPT !.flock = TRUE] /\ Goto(p, "link") /\ u' = u
    BY <1>1, <1>7, <1>9
  <2>2. fp' \in Super /\ fp'.list = begun /\ fp'.flock
    BY <1>7, <2>1 DEF Super
  <2>3. pc' \in [Proc -> PC] /\ pc'[p] = "link" /\ \A q \in Proc : q # p => pc'[q] = pc[q]
    BY <1>2, <2>1, Goes
  <2>4. TypeOK'
    BY <1>1, <1>2, <2>1, <2>2, <2>3 DEF TypeOK, Super
  <2>5. Locked'
    BY <1>1, <1>4, <2>2, <2>3 DEF Locked, Chaining
  <2>6. Hands'
    <3>1. begun.nfree = NICFREE
      BY <1>3, <1>9, Sizes DEF List
    <3> QED BY <1>1, <1>2, <1>4, <2>1, <2>2, <2>3, <3>1 DEF IInv, Hands, Chaining
  <2>7. NoBlockTwice' /\ Held' = Held
    BY <1>1, <2>1 DEF IInv, NoBlockTwice, InFile, Held, InHand
  <2>8. Current' = begun
    <3>1. Moving' = {}
      BY <1>4, <2>3 DEF Moving, Chaining
    <3> QED BY <2>2, <3>1 DEF Current
  <2>9. Chained'
    BY <1>1, <1>6, <2>7, <2>8 DEF Chained
  <2> QED BY <2>4, <2>5, <2>6, <2>7, <2>9 DEF IInv
<1> QED BY <1>8, <1>9

LEMMA FreeLinkInv ==
  ASSUME IInv, NEW p \in Proc, FreeLink(p)
  PROVE  IInv'
<1> DEFINE b == u[p].bno
<1>1. /\ pc[p] = "link" /\ UNCHANGED <<super, addr, asleep, u, saving, errors>>
      /\ fblk' = [fblk EXCEPT ![b] = fp.list] /\ fp' = [fp EXCEPT !.list = Empty] /\ Goto(p, "linked")
  BY DEF FreeLink, At
<1>2. /\ TypeOK /\ fp \in Super /\ fp.list \in List /\ b # None /\ b \in Block /\ b \in Held
      /\ fblk \in [Block -> List] /\ "linked" \in PC
  BY <1>1, Types, PCs, HeldIs DEF IInv, Hands, TypeOK
<1>3. fp' \in Super /\ fp'.list.nfree = 0 /\ fp'.flock = fp.flock
  BY <1>1, <1>2, EmptyType DEF Super
<1> HIDE DEF b
<1>4. pc' \in [Proc -> PC] /\ pc'[p] = "linked" /\ \A q \in Proc : q # p => pc'[q] = pc[q]
  BY <1>1, <1>2, Goes
<1>5. fblk' \in [Block -> List] /\ fblk'[b] = fp.list /\ \A c \in Block : c # b => fblk'[c] = fblk[c]
  BY <1>1, <1>2
<1>6. TypeOK'
  BY <1>1, <1>2, <1>3, <1>4, <1>5 DEF TypeOK, Super
<1>7. \A q \in Proc : q # p => pc[q] \notin Chaining
  BY <1>1, Alone DEF Chaining
<1>8. Locked'
  BY <1>1, <1>3, <1>4 DEF IInv, Locked, Chaining
<1>9. Hands'
  <2>1. u[p].bno = b /\ fp.list.nfree = NICFREE
    BY <1>1 DEF IInv, Hands, b
  <2>2. fblk'[u'[p].bno].nfree = NICFREE
    BY <1>1, <1>5, <2>1
  <2> QED BY <1>1, <1>3, <1>4, <1>7, <2>2 DEF IInv, Hands, Chaining
<1>10. NoBlockTwice' /\ Held' = Held
  BY <1>1 DEF IInv, NoBlockTwice, InFile, Held, InHand
<1>11. Current = fp.list
  BY <1>1, <1>7, CurrentFree DEF AtBlock, Chaining
<1>12. Current' = fp.list
  <2>1. Moving' = {p}
    BY <1>4, <1>7 DEF Moving, Chaining
  <2>2. (CHOOSE q \in {p} : TRUE) = p
    OBVIOUS
  <2> QED BY <1>1, <1>5, <2>1, <2>2 DEF Current, b
<1>13. Chained'
  <2>1. PICK S \in SUBSET Block : Chain(S, fp.list, fblk, Held)
    BY <1>11 DEF IInv, Chained
  <2>2. b \notin S
    BY <1>2, <2>1, NotOfChain
  <2>3. Chain(S, fp.list, fblk', Held)
    BY <1>5, <2>1, <2>2, Frame
  <2> QED BY <1>10, <1>12, <2>3 DEF Chained
<1> QED BY <1>6, <1>8, <1>9, <1>10, <1>13 DEF IInv

LEMMA FreeLinkedInv ==
  ASSUME IInv, NEW p \in Proc, FreeLinked(p)
  PROVE  IInv'
<1> DEFINE b == u[p].bno
           s == [fp EXCEPT !.flock = FALSE]
           new == Put(fp.list, b)
<1>1. /\ pc[p] = "linked" /\ UNCHANGED <<super, fblk, addr, saving, errors>>
      /\ Freed(p, s) /\ asleep' = [q \in Proc |-> FALSE]
  BY DEF FreeLinked, At, WakeAll
<1>2. /\ TypeOK /\ fp \in Super /\ fp.list \in List /\ fp.list.nfree = 0 /\ b # None /\ b \in Block
      /\ b \in Held /\ b \in 0..NBLOCK
  BY <1>1, Types, HeldIs DEF IInv, Hands
<1>3. s \in Super /\ s.list = fp.list /\ ~s.flock
  BY <1>2 DEF Super
<1> HIDE DEF s
<1>4. new.nfree = 1 /\ new.free[0] = b /\ s.list.nfree < NICFREE
  BY <1>2, <1>3, PutType, Sizes
<1>5. \A q \in Proc : q # p => pc[q] \notin Chaining
  BY <1>1, Alone DEF Chaining
<1>6. PICK S \in SUBSET Block : Chain(S, fblk[b], fblk, Held)
  BY <1>1, CurrentMoved DEF IInv, Chained, AtBlock
<1> HIDE DEF new
<1>7. Chain(S \cup {b}, new, fblk, Held \ {b})
  <2>1. fblk[b].nfree = NICFREE
    BY <1>1 DEF IInv, Hands
  <2> QED BY <1>2, <1>4, <1>6, <2>1, PushLast
<1>8. \A H : H \subseteq Held \ {b} => Chain(S \cup {b}, Put(s.list, b), fblk, H)
  BY <1>3, <1>7, Frame DEF new
<1>9. S \cup {b} \in SUBSET Block
  BY <1>2
<1>10. asleep' \in [Proc -> BOOLEAN] /\ \A q \in Proc : ~asleep'[q]
  BY <1>1
<1> QED BY <1>1, <1>3, <1>4, <1>5, <1>8, <1>9, <1>10, FreedInv

-----------------------------------------------------------------------------
LEMMA NextInv == IInv /\ [Next]_vars => IInv'
<1> SUFFICES ASSUME IInv, [Next]_vars PROVE IInv'
  OBVIOUS
<1>1. ASSUME NEW p \in Proc, Kernel(p) PROVE IInv'
  BY <1>1, AwaitFlockInv, AllocInv, AllocTakeInv, EndInv, TruncNextInv, FreeBlockInv, FreeLinkInv,
     FreeLinkedInv, AllocChainInv DEF Kernel
<1>2. ASSUME NEW p \in Proc, NEW f \in File, Grow(p, f) \/ Truncate(p, f) PROVE IInv'
  BY <1>2, StartInv
<1> QED BY <1>1, <1>2, UpdateInv, StutterInv DEF Next

LEMMA SpecInv == Spec => []IInv
<1>1. Init => IInv
  BY InitInv
<1>2. IInv /\ [Next]_vars => IInv'
  BY NextInv
<1> QED BY <1>1, <1>2, PTL DEF Spec

(* The list never has more entries than the superblock has room for, and   *)
(* a file only gets blocks of the device, for any number of blocks and any *)
(* size of the list.                                                       *)
THEOREM TypeCorrect == Spec => []TypeOK
<1>1. IInv => TypeOK
  BY DEF IInv
<1> QED BY <1>1, SpecInv, PTL

(* alloc and free give no block to two files or twice to one.              *)
THEOREM GivenOnce == Spec => []NoBlockTwice
<1>1. IInv => NoBlockTwice
  BY DEF IInv
<1> QED BY <1>1, SpecInv, PTL

(* s_flock is set exactly while one call is at work on the chain, and only *)
(* then does anybody sleep on it.                                          *)
THEOREM LockCorrect == Spec => []SleeperWaits
<1>1. ASSUME IInv PROVE SleeperWaits
  <2> DEFINE At1 == {p \in Proc : pc[p] \in {"chain", "link", "linked"}}
  <2>1. CASE fp.flock
    <3>1. PICK p \in Proc : pc[p] \in Chaining
      BY <1>1, <2>1 DEF IInv, Locked
    <3>2. At1 = {p}
      BY <1>1, <3>1 DEF IInv, Locked, Chaining
    <3>3. Cardinality(At1) = 1
      BY <3>2, FS_Singleton
    <3> QED BY <1>1, <2>1, <3>3 DEF SleeperWaits, IInv, Locked
  <2>2. CASE ~fp.flock
    <3>1. At1 = {}
      BY <1>1, <2>2 DEF IInv, Locked, Chaining
    <3>2. Cardinality(At1) = 0
      BY <3>1, FS_EmptySet
    <3> QED BY <1>1, <2>2, <3>2 DEF SleeperWaits, IInv, Locked
  <2> QED BY <2>1, <2>2
<1> QED BY <1>1, SpecInv, PTL
=============================================================================
